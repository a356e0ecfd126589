-------------------------- MODULE MCProactiveItem --------------------------
(* One item at a time, a mail or a calendar change: the other was deleted   *)
(* before.                                                                  *)
EXTENDS ProactiveItem
MCInit ==
    /\ \E i \in Items : item = [j \in Items |-> IF j = i THEN Blank ELSE Gone]
    /\ attempt = [a \in Attempts |-> NoAttempt]
    /\ deliveries = {} /\ issued = 0 /\ turn = 0 /\ watching = FALSE
MCSpec == MCInit /\ [][Next]_vars /\ Fairness
=============================================================================
