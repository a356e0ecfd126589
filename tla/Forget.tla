------------------------------- MODULE Forget -------------------------------
(***************************************************************************)
(* A conversation with forget_memory (zola_memory/forget.py): a search     *)
(* binds candidates and opens a hold, the owner's turns are marked so that *)
(* they never become memory, and a confirm erases from two databases (the  *)
(* proactive store, then the memory store) and from the notebook files.    *)
(*                                                                         *)
(* One session of one process.  The provider's lock is held over a hook of *)
(* a turn and over a whole tool call; what may come between the steps of a *)
(* confirm is a writer of another database, a failure, or the death of the *)
(* process.  The calls of a memory provider run one after another; the     *)
(* hook that guards a call runs before it takes the lock.                  *)
(*                                                                         *)
(* A subject is a contact, a phone number, an episode, or an entry of the  *)
(* notebook.  What each place holds about it is there or not.              *)
(***************************************************************************)
EXTENDS Naturals, FiniteSets, Sequences

CONSTANTS
    Persons, Numbers, Plain, Facts,  \* subjects, by kind
    Owner,      \* the contact of a number, or None
    Label,      \* of a subject, as it is shown
    None,
    Msgs,       \* what the owner says
    Intent,     \* the messages that ask to forget
    Naming,     \* the messages that ask to forget one named person
    Wraps,      \* <<m, k>>: the text of m has the text of k inside
    HoldTurns,  \* HOLD_MAX_TURNS (3 in the code)
    MaxTurns,   \* bound: turns
    MaxCalls,   \* bound: tool calls
    MaxArrivals, MaxFaults, MaxRestarts  \* bounds

Subjects == Persons \cup Numbers \cup Plain \cup Facts

ASSUME ForgetParameters ==
    /\ Owner \in [Numbers -> Persons \cup {None}] /\ None \notin Persons
    /\ DOMAIN Label = Subjects
    /\ Naming \cup Intent \subseteq Msgs /\ None \notin Msgs /\ Wraps \subseteq Msgs \X Msgs
    /\ {HoldTurns, MaxTurns, MaxCalls, MaxArrivals, MaxFaults, MaxRestarts} \subseteq Nat

VARIABLES
    held,      \* what is held: a set of [in, of]: place and subject
    said,      \* the messages of the turns, in order
    live,      \* whether the last turn is under way, with the owner's ticket
    cands, bound, asking, hold, heldTexts, drops, forgot,  
               \* ForgetSessionState; bound: the rows of candidate_meta
    meta,      \* meta.forget_hold
    widen,     \* the number of which the contact may be forgotten as well, or None
    call,      \* the tool call in hand
    syncs,     \* turns whose sync_turn is still to come
    arrivals, calls, faults, restarts,
    \* history, read by no action
    talk,      \* turns that were about forgetting
    kept,      \* turns that went to the queue of the consolidator
    ahead,     \* <<u, t>>: the sync of turn u was still to come when turn t began
    reply,     \* what the last call of the turn answered
    due,       \* what that confirm, or the one in hand, set out to erase
    touched,   \* what it erased
    asked,     \* the turn of the search that bound cands
    cut,       \* contacts whose confirm a death cut in two
    again      \* whether a call was let in since

memory == <<cands, bound, asking, hold, heldTexts, drops, forgot>>
bounds == <<arrivals, calls, faults, restarts>>
history == <<talk, kept, ahead, reply, due, touched, asked, cut, again>>
vars == <<held, said, live, memory, meta, widen, call, syncs, bounds, history>>

Places == {"store", "episodes", "entity", "notebook"}
Rows == {r \in [in : Places, of : Subjects] :
            \/ r.in = "store" /\ r.of \in Persons \cup Numbers
            \/ r.in = "episodes" /\ r.of \in Persons \cup Plain
            \/ r.in = "entity" /\ r.of \in Persons
            \/ r.in = "notebook" /\ r.of \in Persons \cup Facts}
About(s) == {r \in held : r.of = s}
At(place, subjects) == {r \in Rows : r.in = place /\ r.of \in subjects}
Answers == {"none", "shown", "refused", "nothing", "partial", "ok"}
NoCall == [pc |-> "none", targets |-> {}, turn |-> 0, ok |-> TRUE]
Calls == [pc : {"none", "searching", "confirming", "removing", "store", "episodes", "entity", "notebook"},
          targets : SUBSET Subjects, turn : 0..MaxTurns, ok : BOOLEAN]
NoHold == HoldTurns + 1  \* hold_started_at is None; else hold is hold_turn_count

TypeOK ==
    /\ held \subseteq Rows
    /\ said \in Seq(Msgs) /\ Len(said) <= MaxTurns
    /\ live \in {"no", "other", "owner"}
    /\ cands \subseteq Subjects /\ bound \subseteq Rows /\ asking \in BOOLEAN
    /\ hold \in 0..NoHold /\ heldTexts \subseteq Msgs /\ drops \subseteq Msgs
    /\ forgot \in BOOLEAN /\ meta \in BOOLEAN /\ widen \in Numbers \cup {None}
    /\ call \in Calls
    /\ syncs \subseteq 1..Len(said)
    /\ talk \subseteq 1..Len(said) /\ kept \subseteq 1..Len(said)
    /\ ahead \subseteq (1..Len(said)) \X (1..Len(said))
    /\ reply \in Answers /\ due \subseteq Rows /\ touched \subseteq Rows
    /\ asked \in 0..MaxTurns
    /\ cut \subseteq Persons /\ again \in BOOLEAN

Init ==
    /\ held = Rows
    /\ said = <<>> /\ live = "no"
    /\ cands = {} /\ bound = {} /\ asking = FALSE /\ hold = NoHold /\ heldTexts = {} /\ drops = {} /\ forgot = FALSE
    /\ meta = FALSE /\ widen = None /\ call = NoCall /\ syncs = {}
    /\ arrivals = 0 /\ calls = 0 /\ faults = 0 /\ restarts = 0
    /\ talk = {} /\ kept = {} /\ ahead = {} /\ reply = "none" /\ due = {} /\ touched = {} /\ asked = 0
    /\ cut = {} /\ again = FALSE

Turn == Len(said)
Now == said[Turn]  \* provider._current_user_message
Fault == faults < MaxFaults /\ faults' = faults + 1
Talk == talk' = talk \cup {Turn}
hold_active == hold # NoHold
Locked == call.pc \in {"store", "episodes", "entity", "notebook"}  \* the provider's lock, by a confirm

(***************************************************************************)
(* The hold                                                                *)
(***************************************************************************)

clear_hold_process ==
    /\ cands' = {} /\ bound' = {} /\ asking' = FALSE /\ hold' = NoHold /\ heldTexts' = {}
\* The row of meta goes with it, unless that transaction fails.
clear_hold_meta == (meta' = FALSE /\ faults' = faults) \/ (meta /\ Fault /\ meta' = meta)
_expire_hold == clear_hold_process /\ clear_hold_meta
\* A row of meta that no hold of this process accounts for is cleared.
expire_orphan_hold_on_restart ==
    IF meta /\ ~hold_active /\ cands = {} THEN clear_hold_meta
                                          ELSE UNCHANGED <<meta, faults>>
mark_drop == drops' = drops \cup {Now}

\* What his words ask for.
has_forget_intent(m) == m \in Intent
_message_names_a_person(m) == m \in Naming

(***************************************************************************)
(* Turns                                                                   *)
(***************************************************************************)

\* on_turn_start: the owner's turn settles an ask, is marked if it asks to
\* forget or falls under the hold, and uses one turn of the hold up.  A turn of
\* somebody else changes nothing.
on_turn_start_forget_hooks(m) ==
    \/ /\ hold_active /\ hold < HoldTurns
       /\ hold' = hold + 1 /\ heldTexts' = heldTexts \cup {m}
       /\ asking' = FALSE /\ UNCHANGED <<cands, bound>>
       /\ UNCHANGED <<meta, faults>>
    \/ /\ hold_active  \* the turns, or the 30 minutes, are up
       /\ _expire_hold
    \/ /\ ~hold_active
       /\ asking' = FALSE /\ UNCHANGED <<cands, bound, hold, heldTexts>>
       /\ expire_orphan_hold_on_restart
\* A mark lives for 30 minutes, which is longer than a turn and its sync take.
Waits(t) == t \in syncs \/ (live = "owner" /\ t = Turn)
Expired == {{}, {m \in drops : \A t \in 1..Turn : Waits(t) => said[t] # m}}
expire_disposition_drops(new) == \E dead \in Expired : drops' = (drops \ dead) \cup new
turn_marks_IntentOnly(m) ==
    /\ expire_disposition_drops(IF has_forget_intent(m) THEN {m} ELSE {})
    /\ talk' = IF has_forget_intent(m) \/ hold' > hold THEN talk \cup {Turn + 1} ELSE talk
turn_marks(m) ==
    LET marked == has_forget_intent(m) \/ hold' > hold
    IN  /\ expire_disposition_drops(IF marked THEN {m} ELSE {})
        /\ talk' = IF marked THEN talk \cup {Turn + 1} ELSE talk

NewMessage(m) ==
    /\ Turn < MaxTurns /\ live = "no" /\ ~Locked
    /\ said' = Append(said, m) /\ ahead' = ahead \cup (syncs \X {Turn + 1})
\* note_turn keeps the widening open for one turn that can answer it.
note_turn == widen' \in {widen, None}
OwnersTurn(m) ==
    /\ NewMessage(m) /\ live' = "owner"
    /\ on_turn_start_forget_hooks(m) /\ turn_marks(m) /\ note_turn
    /\ reply' = "none" /\ due' = {} /\ touched' = {}
    /\ UNCHANGED <<held, forgot, call, syncs, arrivals, calls, restarts, kept, asked, cut, again>>
OtherTurn(m) ==
    /\ NewMessage(m) /\ live' = "other" /\ note_turn
    /\ UNCHANGED <<held, memory, meta, call, syncs, bounds, talk, kept, reply, due, touched, asked, cut, again>>

\* The turn completes, or it fails or is interrupted and is not synced; a call
\* in hand then goes on.
TurnEnds ==
    /\ live # "no" /\ live' = "no"
    /\ IF live = "owner"
       THEN syncs' \in {syncs} \cup (IF call = NoCall THEN {syncs \cup {Turn}} ELSE {})
       ELSE syncs' = syncs
    /\ UNCHANGED <<held, said, memory, meta, widen, call, bounds, history>>

\* sync_turn, on the worker of the memory manager, in order.  What is synced is
\* the message, or a text that Hermes wrapped around it.  The very text of a
\* mark uses that mark up, else one that has a marked text inside uses one such
\* mark up (the oldest, in the code); a turn of no words is dropped once
\* something was forgotten.
Synced(m) == {m} \cup {c \in Msgs : <<c, m>> \in Wraps}
turn_disposition(t) ==
    \E c \in Synced(said[t]), dead \in Expired :
        LET marks == drops \ dead
            found == IF c \in marks THEN {c} ELSE {k \in marks : <<c, k>> \in Wraps}
        IN  \/ \E k \in found : drops' = marks \ {k} /\ kept' = kept
            \/ /\ found = {} /\ drops' = marks
               /\ \/ (has_forget_intent(c) \/ forgot) /\ kept' = kept
                  \/ ~has_forget_intent(c) /\ kept' = kept \cup {t}
sync_turn ==
    /\ syncs # {} /\ ~Locked
    /\ LET t == CHOOSE t \in syncs : \A u \in syncs : t <= u
       IN  turn_disposition(t) /\ syncs' = syncs \ {t}
    /\ UNCHANGED <<held, said, live, cands, bound, asking, hold, heldTexts, forgot, meta, widen, call, bounds,
                   talk, ahead, reply, due, touched, asked, cut, again>>

on_session_switch ==
    /\ live = "no" /\ call = NoCall
    /\ (hold_active \/ meta) /\ _expire_hold
    /\ widen' = None
    /\ UNCHANGED <<held, said, live, drops, forgot, call, syncs, arrivals, calls, restarts, history>>

(***************************************************************************)
(* The rows                                                                *)
(***************************************************************************)

\* A phone batch, a consolidation or the memory tool brings a row about a
\* subject, which is not the one a search has bound.  (To bound the model: only
\* while something is bound or a call is in hand.)
Arrive ==
    /\ arrivals < MaxArrivals /\ arrivals' = arrivals + 1
    /\ bound # {} \/ call # NoCall
    /\ \E r \in Rows \ held :
           /\ held' = held \cup {r}
           /\ bound' = bound \ {r} /\ due' = due \ {r}
    /\ UNCHANGED <<said, live, cands, asking, hold, heldTexts, drops, forgot, meta, widen, call, syncs,
                   calls, faults, restarts, talk, kept, ahead, reply, touched, asked, cut, again>>

Erase(rows) == held' = held \ rows /\ touched' = touched \cup (held \cap rows)

\* forget_subject takes what came from a contact, and from its numbers.
NumbersOf(persons) == {n \in Numbers : Owner[n] \in persons}
forget_subject(persons, numbers) == Erase(At("store", persons \cup numbers \cup NumbersOf(persons)))

\* forget_cascade takes the episodes it is given and those that match the
\* words of the description.
forget_cascade_WordsOnly(rows) == \E worded \in SUBSET (held \cap At("episodes", Subjects)) : Erase(worded)
forget_cascade(rows) == \E worded \in SUBSET (held \cap At("episodes", Subjects)) : Erase(rows \cup worded)

(***************************************************************************)
(* Tool calls                                                              *)
(***************************************************************************)

_mint_modify(pc) == call' = [NoCall EXCEPT !.pc = pc, !.turn = Turn]
\* The hook mints a token for the turn it is called in, or blocks the call.
pre_tool_call_hook_MemoryOnly(pc) ==
    /\ live = "owner" /\ call = NoCall /\ calls < MaxCalls /\ calls' = calls + 1
    /\ pc = "removing" => ~asking
    /\ pc = "removing" => ~_message_names_a_person(Now)
    /\ _mint_modify(pc)
    /\ reply' = "none" /\ due' = {} /\ touched' = {}
    /\ UNCHANGED <<held, said, live, memory, meta, widen, syncs, arrivals, faults, restarts,
                   talk, kept, ahead, asked, cut, again>>
pre_tool_call_hook(pc) ==
    /\ live = "owner" /\ call = NoCall /\ calls < MaxCalls /\ calls' = calls + 1
    /\ pc # "searching" => ~asking
    /\ pc = "removing" => ~_message_names_a_person(Now)
    /\ _mint_modify(pc)
    /\ reply' = "none" /\ due' = {} /\ touched' = {}
    /\ UNCHANGED <<held, said, live, memory, meta, widen, syncs, arrivals, faults, restarts,
                   talk, kept, ahead, asked, cut, again>>

Answer(r) == reply' = r /\ call' = NoCall

\* The token is gone either way; its turn has to be the owner's still.
_take_origin_token == live = "owner" /\ call.turn = Turn
\* Finds nothing to retry: no path of the tool records any.
retry_pending_proactive == again' = (again \/ cut # {})
Admitted == _take_origin_token /\ retry_pending_proactive
origin_refused ==
    /\ call.pc \in {"searching", "confirming"} /\ Answer("refused")
    /\ UNCHANGED <<held, said, live, memory, meta, widen, syncs, bounds,
                   talk, kept, ahead, due, touched, asked, cut, again>>

\* A search lists the contact it is about, which his episodes, entity and notes
\* fold into, a number of which something is held, and whichever episodes and
\* entries of the notebook have its words.
held_for_number == {n \in Numbers : [in |-> "store", of |-> n] \in held}
Worded == {s \in Plain : [in |-> "episodes", of |-> s] \in held} \cup {s \in Facts : [in |-> "notebook", of |-> s] \in held}
AtMostOne(S) == {{}} \cup {{s} : s \in S}
_plan_for_forget == AtMostOne(Persons)
search_candidates == {P \cup N \cup W : P \in _plan_for_forget, N \in AtMostOne(held_for_number), W \in SUBSET Worded}
_absorb_person(S) == {r \in held : r.of \in S}
group_candidates(S) == {Label[s] : s \in S}
set_hold_meta == (meta' = TRUE /\ faults' = faults) \/ (Fault /\ meta' = meta)
search ==
    /\ call.pc = "searching" /\ Admitted
    /\ \E S \in search_candidates :
           /\ cands' = S /\ bound' = _absorb_person(S)
           /\ asking' = (Cardinality(group_candidates(S)) > 1)
           /\ asked' = Turn
           /\ IF S # {}
              THEN hold' = 0 /\ mark_drop /\ heldTexts' = heldTexts \cup {Now} /\ Talk /\ set_hold_meta
              ELSE UNCHANGED <<hold, drops, heldTexts, talk>> /\ expire_orphan_hold_on_restart
    /\ Answer("shown")
    /\ UNCHANGED <<held, said, live, forgot, widen, syncs, arrivals, calls, restarts,
                   kept, ahead, due, touched, cut>>

\* A yes to "forget them entirely?" takes the contact of the number that was
\* forgotten; neither the hold nor the marks are touched.
take_forget_widen ==
    /\ call.pc = "confirming" /\ Admitted
    /\ widen # None /\ widen' = None
    /\ \/ /\ forget_subject({Owner[widen]}, {}) /\ faults' = faults
          /\ due' = held \cap At("store", {Owner[widen]}) /\ Answer("ok")
       \/ Fault /\ UNCHANGED <<held, due, touched>> /\ Answer("nothing")
    /\ UNCHANGED <<said, live, memory, meta, syncs, arrivals, calls, restarts, talk, kept, ahead, asked, cut>>

\* A number beside a contact who is not its owner is presented and passed over.
PassedOver(targets) ==
    IF targets \cap Persons = {} THEN {} ELSE {n \in targets \cap Numbers : Owner[n] \notin targets \cap Persons}
Authority == has_forget_intent(Now) \/ hold_active
\* Any other confirm lets the widening lapse.
confirm_refused ==
    /\ call.pc = "confirming" /\ Admitted /\ widen' = None
    /\ expire_orphan_hold_on_restart /\ Answer("refused")
    /\ UNCHANGED <<held, said, live, memory, syncs, arrivals, calls, restarts,
                   talk, kept, ahead, due, touched, asked, cut>>
confirm ==
    /\ call.pc = "confirming" /\ Admitted /\ widen' = None
    /\ Authority
    /\ \E targets \in SUBSET (cands \ Facts) \ {{}} :
           /\ call' = [call EXCEPT !.pc = "store", !.targets = targets]
           /\ due' = {r \in bound \cap held : r.of \in targets \ PassedOver(targets)}
    /\ expire_orphan_hold_on_restart
    /\ UNCHANGED <<held, said, live, memory, syncs, arrivals, calls, restarts,
                   talk, kept, ahead, reply, touched, asked, cut>>

note_forget_widen_Contact(offered) ==
    IF offered = {} THEN widen' = widen ELSE widen' \in {Owner[n] : n \in offered}
note_forget_widen(offered) == IF offered = {} THEN widen' = widen ELSE widen' \in offered
InConfirm == UNCHANGED <<said, live, syncs, arrivals, calls, restarts, kept, ahead, due, asked, cut, again>>

\* The proactive store comes first: when it refuses, nothing has changed.  A
\* number beside a contact is passed over.
nothing_changed == Fault /\ UNCHANGED <<held, touched, widen>> /\ Answer("nothing")
_run_bound_proactive ==
    LET persons == call.targets \cap Persons
        numbers == IF persons = {} THEN call.targets \cap Numbers ELSE {}
        offered == {n \in numbers : Owner[n] # None}
    IN  /\ call.pc = "store"
        /\ \/ /\ IF persons \cup numbers = {} THEN UNCHANGED <<held, touched>> ELSE forget_subject(persons, numbers)
              /\ note_forget_widen(offered)
              /\ call' = [call EXCEPT !.pc = "episodes"]
              /\ UNCHANGED <<reply, faults>>
           \/ persons \cup numbers # {} /\ nothing_changed
        /\ UNCHANGED <<memory, meta, talk>> /\ InConfirm

erase_episodes ==
    LET rows == {r \in bound : r.in = "episodes" /\ r.of \in call.targets}
    IN  /\ call.pc = "episodes"
        /\ \/ /\ IF rows = {} THEN UNCHANGED <<held, touched>> ELSE forget_cascade(rows)
              /\ call' = [call EXCEPT !.pc = "entity"] /\ faults' = faults
           \/ /\ rows # {} /\ Fault /\ UNCHANGED <<held, touched>>
              /\ call' = [call EXCEPT !.pc = "notebook", !.ok = FALSE]
        /\ UNCHANGED <<memory, meta, widen, talk, reply>> /\ InConfirm

\* An entity goes once no episode refers to it; a failure is not reported.
_delete_named_entities ==
    /\ call.pc = "entity" /\ call' = [call EXCEPT !.pc = "notebook"]
    /\ LET rows == {r \in bound : r.in = "entity" /\ r.of \in call.targets
                                      /\ [in |-> "episodes", of |-> r.of] \notin held}
       IN  \/ Erase(rows) /\ faults' = faults
           \/ rows # {} /\ Fault /\ UNCHANGED <<held, touched>>
    /\ UNCHANGED <<memory, meta, widen, talk, reply>> /\ InConfirm

\* Then the notes that name a contact; the hold ends, and its turns are marked
\* whether all went well or not.
Told(ok) == reply' = IF ok THEN "ok" ELSE "partial"
end_hold == forgot' = TRUE /\ drops' = drops \cup heldTexts \cup {Now} /\ Talk /\ clear_hold_process
_sweep_notebook ==
    LET rows == held \cap At("notebook", call.targets \cap Persons)
        Sweep == IF call.ok /\ rows # {}
                 THEN \/ Erase(rows) /\ Told(TRUE) /\ meta' = FALSE /\ faults' = faults
                      \/ Fault /\ UNCHANGED <<held, touched, meta>> /\ Told(FALSE)
                 ELSE /\ UNCHANGED <<held, touched>> /\ clear_hold_meta /\ Told(call.ok)
    IN  /\ call.pc = "notebook" /\ Sweep
        /\ call' = NoCall /\ end_hold
        /\ UNCHANGED widen /\ InConfirm

\* The memory tool removes an entry, and its notice erases the rest; the turn
\* is marked when that cascade commits.
end_hold_if_candidate_removed(f) ==
    IF asking \/ f \notin cands THEN UNCHANGED <<cands, bound, asking, hold, heldTexts, meta, faults>>
                                ELSE clear_hold_process /\ clear_hold_meta
memory_remove ==
    /\ call.pc = "removing" /\ call' = NoCall
    /\ \E f \in {s \in Facts : [in |-> "notebook", of |-> s] \in held} :
           \/ /\ \E worded \in SUBSET (held \cap At("episodes", Subjects)) :
                     held' = held \ (worded \cup At("notebook", {f}))
              /\ forgot' = TRUE /\ mark_drop /\ Talk
              /\ end_hold_if_candidate_removed(f)
           \/ /\ Fault /\ held' = held \ At("notebook", {f})
              /\ UNCHANGED <<memory, meta, talk>>
    /\ UNCHANGED <<said, live, widen, syncs, arrivals, calls, restarts,
                   kept, ahead, reply, due, touched, asked, cut, again>>

\* The process dies, with all it only had in memory; the next is in the same
\* conversation.
Restart ==
    /\ restarts < MaxRestarts /\ restarts' = restarts + 1
    /\ live' = "no" /\ clear_hold_process /\ drops' = {} /\ forgot' = FALSE
    /\ widen' = None /\ call' = NoCall /\ syncs' = {}
    /\ cut' = IF call.pc = "episodes" THEN cut \cup (call.targets \cap Persons) ELSE cut
    /\ UNCHANGED <<held, said, meta, arrivals, calls, faults, talk, kept, ahead, reply, due, touched, asked, again>>

(***************************************************************************)
(* The specification                                                       *)
(***************************************************************************)

Turns == (\E m \in Msgs : OwnersTurn(m) \/ OtherTurn(m)) \/ TurnEnds \/ sync_turn
Tools ==
    \/ \E pc \in {"searching", "confirming", "removing"} : pre_tool_call_hook(pc)
    \/ origin_refused \/ search \/ take_forget_widen \/ confirm_refused \/ confirm
    \/ _run_bound_proactive \/ erase_episodes \/ _delete_named_entities \/ _sweep_notebook
    \/ memory_remove
Next == Turns \/ Tools \/ Arrive \/ on_session_switch \/ Restart
Spec == Init /\ [][Next]_vars

\* The answer of a confirm against what was erased.  "ok" is said only when the
\* store, the episodes and the notes hold nothing of what the confirm set out to
\* erase, save what came since, although they are erased one after another, in
\* three places, and each may fail.  It says nothing of the entities, whose
\* erase may fail unseen, nor of a number passed over beside a contact
\* (PassedOver), which the answer lists with the rest.  "Nothing was changed" is
\* said of no confirm that has erased anything (MSG_NOTHING_CHANGED against the
\* order of the erases).
AnswerMatchesErases ==
    /\ reply = "ok" => \A r \in due \cap held : r.in = "entity"
    /\ reply = "nothing" => touched = {}

\* A turn that was about forgetting becomes memory only when an earlier turn,
\* synced after it began, had its text, or one around it, and used its mark up
\* (turn_disposition) - and in no other way, in whatever order the turns are
\* synced, confirmed, expired and switched away from (mark_drop).
Within(k, m) == \E c \in Synced(m) : k = c \/ <<c, k>> \in Wraps
Overtaken(t) == \E u \in 1..Turn : <<u, t>> \in ahead /\ Within(said[t], said[u])
ForgetTalkGoes == \A t \in talk \cap kept : Overtaken(t)

\* While a list has several subjects, nothing of it is erased in the turn that
\* was shown the list: the owner says which first (ask_brian_pending).
AskedFirst ==
    Locked /\ Cardinality(group_candidates(cands)) > 1 => call.turn > asked

\* A confirm cut in two by a death is finished by the time a later call is let in.
CrashFinishes == again => \A p \in cut : [in |-> "episodes", of |-> p] \notin held
=============================================================================
