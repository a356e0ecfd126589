---------------------------- MODULE SendApproval ----------------------------
(***************************************************************************)
(* What the send gate promises (P8-D06), with no tickets, hooks, tool      *)
(* calls or Gmail in sight: a message leaves only when the owner approved, *)
(* in this turn, a content that was read back to him in an earlier turn,   *)
(* and one approval sends once.  SendGate implements this specification.   *)
(***************************************************************************)
EXTENDS Naturals

CONSTANTS Turns, Messages  \* a message is a draft with its content

VARIABLES
    readBack,  \* <<m, t>>: message m was read back in turn t
    approval,  \* approval[t]: the message that may be sent in turn t, {} for none
    spent,     \* turns whose approval was given
    sent       \* <<m, t>>: message m left in turn t

vars == <<readBack, approval, spent, sent>>

Init ==
    /\ readBack = {} /\ spent = {} /\ sent = {}
    /\ approval = [t \in Turns |-> {}]

\* The reply that ends a turn.
EndTurn(M, t) ==
    /\ readBack' = readBack \union {<<m, t>> : m \in M}
    /\ approval' = [approval EXCEPT ![t] = {}]
    /\ UNCHANGED <<spent, sent>>

\* The owner's whole message was the passphrase.
Approve(m, t) ==
    /\ t \notin spent
    /\ \E u \in Turns : u < t /\ <<m, u>> \in readBack
    /\ approval' = [approval EXCEPT ![t] = {m}]
    /\ spent' = spent \union {t}
    /\ UNCHANGED <<readBack, sent>>

\* Interrupts, corrections and drafts that are shown anew take approvals away.
Withdraw(T) ==
    /\ approval' = [t \in Turns |-> IF t \in T THEN {} ELSE approval[t]]
    /\ UNCHANGED <<readBack, spent, sent>>

Send(m, t) ==
    /\ m \in approval[t]
    /\ sent' = sent \union {<<m, t>>}
    /\ approval' = [approval EXCEPT ![t] = {}]
    /\ UNCHANGED <<readBack, spent>>

Next ==
    \/ \E t \in Turns, M \in SUBSET Messages : EndTurn(M, t)
    \/ \E m \in Messages, t \in Turns : Approve(m, t) \/ Send(m, t)
    \/ \E T \in SUBSET Turns : Withdraw(T)

Spec == Init /\ [][Next]_vars

=============================================================================
