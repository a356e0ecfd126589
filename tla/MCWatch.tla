------------------------------ MODULE MCWatch ------------------------------
(* Two contacts: "Jo" may mean the first and needs a question, "Bo" is the *)
(* second's whole name.  An edit of the book may make them share.          *)
EXTENDS Watch, TLC
CONSTANTS jon, bo, jo, bob, t, e

MCHits == (jo :> {jon}) @@ (bob :> {bo})
Say(ask, name) == [Silence EXCEPT !.ask = ask, !.name = name]
MCSentences ==
    {Say("contact", jo), [Say("contact", jo) EXCEPT !.channel = "email", !.answer = "yes"],
     [Say("contact", bob) EXCEPT !.lifetime = "everyTime"],
     [Say("contact", bob) EXCEPT !.channel = "text"],
     [Say("contact", bob) EXCEPT !.lifetime = "keepAnEye"],
     [Say("contact", None) EXCEPT !.number = t],
     [Say("no", bob) EXCEPT !.lifetime = "next"],
     [Silence EXCEPT !.answer = "yes"]}
MCInit == WatchInit /\ book[jon] = {t, e} /\ book[bo] = {e}
MCSpec == MCInit /\ [][WatchNext]_watchVars
=============================================================================
