----------------------------- MODULE DocumentShelf -----------------------------
(***************************************************************************)
(* What an uploader may rely on, whatever happens to ingestion: a document *)
(* is stored, may become searchable, and from then on stays searchable     *)
(* until it is deleted; a deleted document never comes back.  Module       *)
(* Ingestion implements this specification.                                *)
(***************************************************************************)
CONSTANT Docs

VARIABLE shelf      \* how far each document has come

ShelfInit == shelf = [d \in Docs |-> "absent"]

(* The steps of one document.                                              *)
Store(d) == shelf[d] = "absent" /\ shelf' = [shelf EXCEPT ![d] = "stored"]

Index(d) == shelf[d] = "stored" /\ shelf' = [shelf EXCEPT ![d] = "searchable"]

Remove(d) ==
    /\ shelf[d] \in {"stored", "searchable"}
    /\ shelf' = [shelf EXCEPT ![d] = "gone"]

ShelfNext == \E d \in Docs : Store(d) \/ Index(d) \/ Remove(d)

ShelfSpec == ShelfInit /\ [][ShelfNext]_shelf

=============================================================================
