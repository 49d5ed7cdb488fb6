---------------------------- MODULE PendingEdits ----------------------------
(* The edits a page that saves itself has not sent yet: a function of some *)
(* of its fields.                                                          *)

NoEdit == [f \in {} |-> 0]

(* The later edits win.                                                    *)
Merged(older, newer) ==
  [f \in DOMAIN older \cup DOMAIN newer |->
    IF f \in DOMAIN newer THEN newer[f] ELSE older[f]]
=============================================================================
