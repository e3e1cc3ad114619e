--------------------------- MODULE MCJniHandles ---------------------------
(***************************************************************************)
(* JniHandles with the class of classes and one more class registered, two *)
(* Python objects, and one host address that every text but the empty one  *)
(* is copied to.                                                           *)
(***************************************************************************)
EXTENDS JniHandles

MCClassObject == [c \in Registered |-> IF c = ClassClass THEN 11 ELSE 12]

MCBuffers == {21}
=============================================================================
