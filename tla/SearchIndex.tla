---------------------------- MODULE SearchIndex ----------------------------
(***************************************************************************)
(* What search promises about the documents, whatever the service does:    *)
(* a document that was registered is hidden until it is published, may be  *)
(* hidden and shown again while it is processed again, and once removed it *)
(* is gone for good.  No step touches two documents.                       *)
(***************************************************************************)
CONSTANT Rows

VARIABLE shown   \* by row: how the document appears to search

Appearance == {"absent", "hidden", "visible", "gone"}

Change(r, from, to) ==
  /\ shown[r] \in from
  /\ shown' = [shown EXCEPT ![r] = to]

Accept(r) == Change(r, {"absent"}, "hidden")
Show(r) == Change(r, {"hidden"}, "visible")
Hide(r) == Change(r, {"visible"}, "hidden")
Remove(r) == Change(r, {"hidden", "visible"}, "gone")

Init == shown = [r \in Rows |-> "absent"]

Next == \E r \in Rows : Accept(r) \/ Show(r) \/ Hide(r) \/ Remove(r)

Spec == Init /\ [][Next]_shown
=============================================================================
