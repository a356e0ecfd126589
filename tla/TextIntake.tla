----------------------------- MODULE TextIntake -----------------------------
(***************************************************************************)
(* What the phone link promises about texts, with no link in sight: the    *)
(* phone numbers the revisions of a text, the PC keeps the highest one it  *)
(* was given, and the phone settles a text (stops tracking it for          *)
(* delivery) only once the PC holds it, was told to forget it or refused   *)
(* it, or the text was withdrawn because its row vanished from the phone.  *)
(* PhoneDelivery implements this specification.                            *)
(***************************************************************************)
EXTENDS Naturals

CONSTANT Texts

VARIABLES
    assigned,   \* assigned[t]: the highest revision the phone gave text t, 0 for none
    held,       \* held[t]: the revision in the PC store, 0 for none
    forgotten,  \* texts the PC holds a tombstone for
    refused,    \* texts of which the PC refused a revision
    withdrawn,  \* texts whose row vanished on the phone
    settled     \* texts the phone counts as delivered

vars == <<assigned, held, forgotten, refused, withdrawn, settled>>

Init ==
    /\ assigned = [t \in Texts |-> 0]
    /\ held = [t \in Texts |-> 0]
    /\ forgotten = {}
    /\ refused = {}
    /\ withdrawn = {}
    /\ settled = {}

\* The phone saw a new text, or new content of a text it had sent.
Assign(t) ==
    /\ assigned' = [assigned EXCEPT ![t] = @ + 1]
    /\ UNCHANGED <<held, forgotten, refused, withdrawn, settled>>

\* The PC commits a revision that is newer than its own.
Store(t, r) ==
    /\ t \notin forgotten
    /\ r > held[t] /\ r <= assigned[t]
    /\ held' = [held EXCEPT ![t] = r]
    /\ UNCHANGED <<assigned, forgotten, refused, withdrawn, settled>>

\* The owner has the text forgotten: nothing of it is kept but the tombstone.
Forget(t) ==
    /\ held[t] > 0
    /\ held' = [held EXCEPT ![t] = 0]
    /\ forgotten' = forgotten \union {t}
    /\ UNCHANGED <<assigned, refused, withdrawn, settled>>

\* The PC will not have a revision it was sent, and says so.
Refuse(t) ==
    /\ assigned[t] > 0
    /\ refused' = refused \union {t}
    /\ UNCHANGED <<assigned, held, forgotten, withdrawn, settled>>

Withdraw(t) ==
    /\ withdrawn' = withdrawn \union {t}
    /\ UNCHANGED <<assigned, held, forgotten, refused, settled>>

Settle(t) ==
    /\ assigned[t] > 0
    /\ held[t] > 0 \/ t \in forgotten \union refused \union withdrawn
    /\ settled' = settled \union {t}
    /\ UNCHANGED <<assigned, held, forgotten, refused, withdrawn>>

Next == \E t \in Texts :
    \/ Assign(t)
    \/ \E r \in 1..assigned[t] : Store(t, r)
    \/ Forget(t)
    \/ Refuse(t)
    \/ Withdraw(t)
    \/ Settle(t)

Spec == Init /\ [][Next]_vars

=============================================================================
