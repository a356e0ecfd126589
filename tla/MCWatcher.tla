----------------------------- MODULE MCWatcher -----------------------------
(* Mail and calendar changes share no row of the store, and no watch covers *)
(* both: a behaviour starts with one of the two at rest.  Of two mails, one *)
(* may be refused, or one (then without a watch) may fail uncounted.        *)
EXTENDS Watcher, TLC
CONSTANTS e1, mailWatch, eventWatch

MCWatched == (mailWatch :> Messages) @@ (eventWatch :> {e1})

NoMail == /\ mailbox = [broken |-> {}, garbled |-> {}, n |-> M, served |-> M, old |-> M, where |-> [m \in Messages |-> "gone"]]
          /\ loops[mailWatch].st = "over" /\ loops[eventWatch].st = "new"
          /\ calendar.shown /\ calendar.n <= 1 /\ calendar.event[e1] = [at |-> calendar.n, off |-> FALSE]
NoChanges == /\ ~calendar.shown /\ calendar.n = MaxChanges /\ calendar.served = MaxChanges
             /\ calendar.event[e1] = [at |-> MaxChanges, off |-> TRUE]
             /\ mailbox \in {[broken |-> odd[1], garbled |-> odd[2], n |-> 0, served |-> 0, old |-> 0,
                              where |-> [m \in Messages |-> "inbox"]] : odd \in {<<{M}, {}>>, <<{}, {1}>>}}
             /\ loops[eventWatch].st = "over" /\ (loops[mailWatch].st = "over" <=> mailbox.garbled # {})

MCInit == Init /\ (NoMail \/ NoChanges)
MCSpec == MCInit /\ [][Next]_vars /\ Fairness
=============================================================================
