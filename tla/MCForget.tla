------------------------------ MODULE MCForget ------------------------------
(* One number is the contact's and the other is nobody's; each subject has a *)
(* label of its own.  Of the messages that do not ask to forget, one has the  *)
(* other inside.                                                              *)
EXTENDS Forget
CONSTANTS m2, m3, n
Owned == [s \in Numbers |-> IF s = n THEN CHOOSE p \in Persons : TRUE ELSE None]
Labels == [s \in Subjects |-> s]
Wrapped == {<<m3, m2>>}
=============================================================================
