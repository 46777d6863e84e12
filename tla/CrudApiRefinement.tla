-------------------------- MODULE CrudApiRefinement --------------------------
(***************************************************************************)
(* CRUDApiHandler implements the abstract EntityStore, when the server has *)
(* one worker thread, its default.  A body is in the store until the file  *)
(* that held it has been written over, not only truncated.                 *)
(***************************************************************************)
EXTENDS CrudApi

(* What the store holds under s: while a writer has truncated the file and not
   written it, still what was there before. *)
Held(s) ==
    LET writers == {w \in Workers : At(w, "write") /\ slot[w] = s /\ linked[w]}
    IN  IF writers = {} THEN files[s] ELSE replaced[CHOOSE w \in writers : TRUE]

StoreOf(e) ==
    [i \in {j \in Ids : Held(<<e, j>>) # Absent} |-> Held(<<e, i>>)]

Store == INSTANCE EntityStore WITH
    Clients <- Workers,
    Spoiled <- Empty,
    store <- [e \in Entities |-> StoreOf(e)],
    request <- job,
    response <- reply,
    faulty <- faults > 0

(* With one worker thread, the server's default, the handlers' sequences of
   file system calls are the atomic operations the API documents, even when
   the process dies between two of them. *)
ImplementsEntityStore == Store!Spec
==============================================================================
