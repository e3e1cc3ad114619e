----------------------------- MODULE BorrowCell -----------------------------
(***************************************************************************)
(* What PyO3 promises of the cell a #[pyclass] lives in: any number of     *)
(* shared borrows or one exclusive borrow, each given back by its holder.  *)
(***************************************************************************)
EXTENDS FiniteSets

CONSTANT Holders  (* whatever may hold a borrow                            *)

VARIABLES readers, writers

Init == readers = {} /\ writers = {}

Share(h) ==
  /\ writers = {} /\ h \notin readers
  /\ readers' = readers \cup {h} /\ UNCHANGED writers

Own(h) ==
  /\ writers = {} /\ readers = {}
  /\ writers' = {h} /\ UNCHANGED readers

Drop(h) ==
  /\ h \in readers \cup writers
  /\ readers' = readers \ {h} /\ writers' = writers \ {h}

Next == \E h \in Holders : Share(h) \/ Own(h) \/ Drop(h)

Spec == Init /\ [][Next]_<<readers, writers>>
=============================================================================
