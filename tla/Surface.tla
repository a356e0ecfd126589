------------------------------- MODULE Surface -------------------------------
(***************************************************************************)
(* What came in while he was away (zola_workspace/surface.py): on the      *)
(* owner's first turn after a gap the hook before the model puts a block   *)
(* of items and lapsed watches into the turn, and the hook after it counts *)
(* them as told.  Inside the gap one note follows what was said aloud.     *)
(* whats_pending lists and clears on his word.                             *)
(*                                                                         *)
(* An item stands for the rows of one line.  The store is shared and the   *)
(* sessions of the gateway run at once: a hook is a row of transactions,   *)
(* another session's may come between any two.  A transaction may be       *)
(* refused, and a turn may die wherever it is.  Clocks are marks that time *)
(* sets: gap, quiet interval, window after speech.                         *)
(***************************************************************************)
EXTENDS Naturals, FiniteSets

CONSTANTS
    Sessions, Items, Lapses,  \* Lapses: watches
    Mail,           \* the items whose line is retrieved text (_line_is_mail)
    Retold,         \* the items told once, a quiet interval ago
    ItemCap,        \* SURFACE_ITEM_CAP (4 in the code)
    ReinjectCap,    \* SURFACE_REINJECT_CAP (2 in the code)
    MaxAttempts, MaxSpeech, MaxFaults  \* bounds

ASSUME SurfaceParameters ==
    /\ Mail \subseteq Items /\ Retold \subseteq Items /\ Items \cap Lapses = {}
    /\ {ItemCap, ReinjectCap, MaxAttempts, MaxSpeech, MaxFaults} \subseteq Nat /\ ReinjectCap > 0

VARIABLES
    item,     \* the items: here, conversation, inject_count, attempt_id, and whether it rested
    lapse,    \* the expired watches: told or not, and lapse_attempt_id
    marker,   \* META_SURFACE_*: attempt, confirmed, and whether the gap has passed since
    speech,   \* the deliveries, oldest first: their item, and whether the window is open
    noted,    \* META_SPEECH_POST_NOTED: a delivery, or 0
    hook,     \* the turn of each session, with _attempts[session]; shown: the block it was given
    listing,  \* _listings[session]: the rows that have a live handle
    tainted,
    attempts, faults,  \* counters
    \* history, read by no action
    owed,     \* items a sealed block told of anew that no turn has counted since
    missed,   \* sessions whose turn counted nothing: it was refused, or too late
    raced     \* whether another hook before the model was under way when the gap last opened

store == <<item, lapse, marker, speech, noted>>
history == <<owed, missed, raced>>
vars == <<store, hook, listing, tainted, attempts, faults, history>>

Attempts == 1..MaxAttempts
Speeches == 1..MaxSpeech
Before == {"touch", "list", "select", "lapses", "seal"}  \* in pre_llm_call_hook
Idle == [pc |-> "idle", attempt |-> 0, todo |-> {}, kept |-> {}, lapses |-> {}, more |-> FALSE, post |-> 0, ok |-> FALSE, shown |-> {}]

(* Every variable keeps its shape; no item is counted more often than the cap. *)
TypeOK ==
    /\ item \in [Items -> [st : {"new", "open", "done"}, conv : {"none", "selected", "possibly_surfaced"},
                           told : 0..ReinjectCap, attempt : 0..MaxAttempts, rested : BOOLEAN]]
    /\ lapse \in [Lapses -> [st : {"expired", "told"}, attempt : 0..MaxAttempts]]
    /\ marker \in [attempt : 0..MaxAttempts, confirmed : BOOLEAN, old : BOOLEAN]
    /\ speech \in [Speeches -> [of : SUBSET Items, recent : BOOLEAN]]
    /\ noted \in 0..MaxSpeech
    /\ hook \in [Sessions -> [pc : Before \cup {"idle", "note", "model", "mark", "post"}, attempt : 0..MaxAttempts,
                              todo : SUBSET Items, kept : SUBSET Items, lapses : SUBSET Lapses,
                              more : BOOLEAN, post : 0..MaxSpeech, ok : BOOLEAN,
                              shown : SUBSET (Items \cup Lapses)]]
    /\ listing \in [Sessions -> SUBSET Items]
    /\ tainted \subseteq Sessions /\ attempts \in 0..MaxAttempts /\ faults \in 0..MaxFaults
    /\ owed \subseteq Items /\ missed \subseteq Sessions /\ raced \in BOOLEAN

Init ==
    /\ item = [i \in Items |->
          IF i \in Retold
          THEN [st |-> "open", conv |-> "selected", told |-> 1, attempt |-> 0, rested |-> TRUE]
          ELSE [st |-> "new", conv |-> "none", told |-> 0, attempt |-> 0, rested |-> TRUE]]
    /\ lapse = [l \in Lapses |-> [st |-> "expired", attempt |-> 0]]
    /\ \E old \in BOOLEAN : marker = [attempt |-> 0, confirmed |-> TRUE, old |-> old]
    /\ speech = [d \in Speeches |-> [of |-> {}, recent |-> FALSE]] /\ noted = 0
    /\ hook = [s \in Sessions |-> Idle]
    /\ listing = [s \in Sessions |-> {}]
    /\ tainted = {} /\ attempts = 0 /\ faults = 0
    /\ owed = {} /\ missed = {} /\ raced = FALSE

Open(i) == item[i].st = "open"
list_surface_rows == {i \in Items : Open(i)}
list_untold_lapses == {l \in Lapses : lapse[l].st = "expired"}
_offerable(i) == Open(i) /\ item[i].told < ReinjectCap /\ (item[i].conv = "none" \/ item[i].rested)
\* Mutant: an attempt that was not confirmed closes the gap.
_gap_open_attempt == marker.old
_gap_open == marker.old \/ (marker.attempt # 0 /\ ~marker.confirmed)
\* A delivery of the window whose item is open, other than the one noted last; the latest, or 0.
post_speech_candidate ==
    LET ds == {d \in Speeches \ {noted} : speech[d].recent /\ \E i \in speech[d].of : Open(i)} IN
    IF ds = {} THEN 0 ELSE CHOOSE d \in ds : \A e \in ds : e <= d

Become(s, h) == hook' = [hook EXCEPT ![s] = h]
End(s) == Become(s, Idle)
Fault == faults < MaxFaults /\ faults' = faults + 1  \* "locked": a transaction is refused
NoFault == faults' = faults
SetMarker(a, confirmed) == marker' = [attempt |-> a, confirmed |-> confirmed, old |-> FALSE]
\* Mutant: the taint is left to the hook after the model.
_mark_late(s, kept) == UNCHANGED tainted
_mark(s, kept) == tainted' = IF kept \cap Mail = {} THEN tainted ELSE tainted \cup {s}

(***************************************************************************)
(* pre_llm_call_hook                                                       *)
(***************************************************************************)

\* One note on delivery d, without an injection; retrieved text taints first.
_post_speech_note(s, d) ==
    \/ /\ Become(s, [Idle EXCEPT !.pc = "note", !.post = d, !.shown = speech[d].of])
       /\ _mark(s, speech[d].of) /\ NoFault
    \/ speech[d].of \cap Mail # {} /\ Fault /\ UNCHANGED <<hook, tainted>>

\* A turn of the owner: the marker and the deliveries are read.
BeginTurn(s) ==
    LET d == post_speech_candidate IN
    /\ hook[s].pc = "idle" /\ attempts < MaxAttempts /\ attempts' = attempts + 1
    /\ IF ~_gap_open /\ d # 0 THEN _post_speech_note(s, d)
       ELSE /\ Become(s, [Idle EXCEPT !.pc = IF _gap_open THEN "list" ELSE "touch",
                                      !.attempt = attempts + 1, !.post = d])
            /\ NoFault /\ UNCHANGED tainted
    /\ UNCHANGED <<store, listing, history>>

write_surface_marker(s) ==
    /\ hook[s].pc = "touch" /\ End(s)
    /\ (SetMarker(0, TRUE) /\ NoFault) \/ (Fault /\ UNCHANGED marker)
    /\ UNCHANGED <<item, lapse, speech, noted, listing, tainted, attempts, history>>

\* _build_block: the lines that fit, of those that may be offered.
List(s) ==
    LET rows == {i \in list_surface_rows : _offerable(i)} IN
    /\ hook[s].pc = "list"
    /\ \E picked \in SUBSET rows :
          /\ picked = rows \/ (Cardinality(picked) = ItemCap /\ Cardinality(rows) > ItemCap)
          /\ Become(s, [hook[s] EXCEPT !.pc = "select", !.todo = picked, !.more = (picked # rows),
                                       !.lapses = list_untold_lapses])
    /\ UNCHANGED <<store, listing, tainted, attempts, faults, history>>

\* A refused row is dropped from the block and counted with the rest.
provisional_select(s, i) ==
    /\ hook[s].pc = "select" /\ i \in hook[s].todo
    /\ \/ /\ _offerable(i) /\ NoFault
          /\ item' = [item EXCEPT ![i].attempt = hook[s].attempt]
          /\ Become(s, [hook[s] EXCEPT !.todo = @ \ {i}, !.kept = @ \cup {i}])
       \/ /\ ~_offerable(i) \/ faults < MaxFaults
          /\ faults' = (IF _offerable(i) THEN faults + 1 ELSE faults) /\ UNCHANGED item
          /\ Become(s, [hook[s] EXCEPT !.todo = @ \ {i}, !.more = TRUE])
    /\ UNCHANGED <<lapse, marker, speech, noted, listing, tainted, attempts, history>>

\* The attempt of s is taken back, unless that is refused as well.
release_surface_attempt(s) ==
    /\ item' = [i \in Items |-> IF item[i].attempt = hook[s].attempt THEN [item[i] EXCEPT !.attempt = 0] ELSE item[i]]
    /\ lapse' = [l \in Lapses |-> IF lapse[l].st = "expired" /\ lapse[l].attempt = hook[s].attempt
                                  THEN [lapse[l] EXCEPT !.attempt = 0] ELSE lapse[l]]
GiveUp(s) == End(s) /\ release_surface_attempt(s)

\* _finish_text: nothing to say moves the clock; retrieved text taints the session first.
_finish_text(s) ==
    LET h == hook[s] IN
    /\ h.pc = "select" /\ h.todo = {}
    /\ IF h.kept = {} /\ h.lapses = {} /\ ~h.more
       THEN GiveUp(s) /\ UNCHANGED tainted /\ ((SetMarker(0, TRUE) /\ NoFault) \/ (Fault /\ UNCHANGED marker))
       ELSE /\ UNCHANGED marker
            /\ \/ Become(s, [h EXCEPT !.pc = "lapses", !.more = FALSE]) /\ _mark(s, h.kept) /\ NoFault /\ UNCHANGED <<item, lapse>>
               \/ h.kept \cap Mail # {} /\ Fault /\ GiveUp(s) /\ UNCHANGED tainted
    /\ UNCHANGED <<speech, noted, listing, attempts, history>>

note_lapse_attempt(s) ==
    LET h == hook[s]
        free == \A l \in h.lapses : lapse[l].st = "expired"
    IN /\ h.pc = "lapses"
       /\ \/ /\ free /\ NoFault /\ Become(s, [h EXCEPT !.pc = "seal"]) /\ UNCHANGED item
             /\ lapse' = [l \in Lapses |-> IF l \in h.lapses THEN [lapse[l] EXCEPT !.attempt = h.attempt] ELSE lapse[l]]
          \/ h.lapses # {} /\ GiveUp(s) /\ (IF free THEN Fault ELSE NoFault)
       /\ UNCHANGED <<marker, speech, noted, listing, tainted, attempts, history>>

\* The marker names the attempt, not confirmed, and the block is returned.
Seal(s) ==
    LET h == hook[s] IN
    /\ h.pc = "seal"
    /\ \/ /\ SetMarker(h.attempt, FALSE) /\ NoFault
          /\ Become(s, [h EXCEPT !.pc = "model", !.shown = h.kept \cup h.lapses,
                                 !.post = IF @ # 0 /\ speech[@].of \cap h.kept # {} THEN @ ELSE 0])
          /\ owed' = owed \cup {i \in h.kept : _offerable(i)}
          /\ raced' = \E r \in Sessions \ {s} : hook[r].pc \in Before
          /\ UNCHANGED <<item, lapse>>
       \/ Fault /\ GiveUp(s) /\ UNCHANGED <<marker, owed, raced>>
    /\ UNCHANGED <<speech, noted, listing, tainted, attempts, missed>>

(***************************************************************************)
(* post_llm_call_hook                                                      *)
(***************************************************************************)

\* Mutants of Counted: whatever attempt holds the row; the rows in memory.
Counted_any_attempt(s) == {i \in Items : item[i].attempt # 0 /\ Open(i) /\ item[i].told < ReinjectCap}
Counted_without_cap(s) == {i \in hook[s].kept : Open(i)}
Counted(s) == {i \in Items : item[i].attempt = hook[s].attempt /\ Open(i) /\ item[i].told < ReinjectCap}
\* The items are not counted when the turn took longer than SURFACE_ATTEMPT_TTL_SECONDS.
confirm_surface_attempt(s) ==
    LET a == hook[s].attempt
        told == {l \in Lapses : lapse[l].st = "expired" /\ lapse[l].attempt = a}
    IN /\ hook[s].pc = "model"
       /\ \/ \E counted \in {Counted(s), {}} :
             /\ NoFault
             /\ item' = [i \in Items |->
                   IF i \in counted THEN [item[i] EXCEPT !.conv = "selected", !.told = @ + 1, !.attempt = 0,
                                                         !.rested = FALSE]
                   ELSE item[i]]
             /\ lapse' = [l \in Lapses |-> IF l \in told THEN [lapse[l] EXCEPT !.st = "told"] ELSE lapse[l]]
             /\ Become(s, [hook[s] EXCEPT !.pc = "mark", !.ok = (counted \cup told # {})])
             /\ owed' = owed \ counted /\ missed' = IF counted = Counted(s) THEN missed ELSE missed \cup {s}
          \/ /\ Fault /\ Become(s, [hook[s] EXCEPT !.pc = "mark"]) /\ UNCHANGED <<item, lapse, owed>>
             /\ missed' = missed \cup {s}
       /\ UNCHANGED <<marker, speech, noted, listing, tainted, attempts, raced>>

\* A name and the subject are in the reply, for any of the rows, when the attempt counted.
_reply_names_item(h) == IF h.ok THEN SUBSET h.kept ELSE {{}}
mark_possibly_surfaced(named) ==
    item' = [i \in Items |-> IF i \in named /\ item[i].conv = "selected"
                             THEN [item[i] EXCEPT !.conv = "possibly_surfaced"] ELSE item[i]]
\* Only this attempt's marker is confirmed.
mark_surface_confirmed(s) ==
    /\ marker.attempt = hook[s].attempt /\ NoFault
    /\ marker' = [marker EXCEPT !.confirmed = TRUE]
_post_llm(s) ==
    LET h == hook[s] IN
    /\ h.pc = "mark"
    /\ \/ /\ mark_surface_confirmed(s)
          /\ \E named \in _reply_names_item(h) : mark_possibly_surfaced(named)
          /\ IF h.ok /\ h.post # 0 THEN Become(s, [h EXCEPT !.pc = "post"]) ELSE End(s)
       \/ /\ IF marker.attempt = h.attempt THEN Fault ELSE NoFault
          /\ End(s) /\ UNCHANGED <<item, marker>>
    /\ missed' = missed \ {s}
    /\ UNCHANGED <<lapse, speech, noted, listing, tainted, attempts, owed, raced>>

note_post_speech(s) ==
    /\ hook[s].pc \in {"note", "post"} /\ End(s)
    /\ (noted' = hook[s].post /\ NoFault) \/ (Fault /\ UNCHANGED noted)
    /\ UNCHANGED <<item, lapse, marker, speech, listing, tainted, attempts, history>>

\* The turn is interrupted, or the gateway dies: the hook after the model does not run.
TurnDies(s) ==
    /\ hook[s].pc # "idle" /\ End(s) /\ missed' = missed \ {s}
    /\ UNCHANGED <<store, listing, tainted, attempts, faults, owed, raced>>

(***************************************************************************)
(* whats_pending, in any turn of the owner                                 *)
(***************************************************************************)

dismiss_item(is) == item' = [i \in Items |-> IF i \in is THEN [item[i] EXCEPT !.st = "done"] ELSE item[i]]

\* Bound: one session has handles at a time.
_pending_list(s) ==
    /\ \A r \in Sessions : listing[r] = {}
    /\ listing' = [listing EXCEPT ![s] = list_surface_rows] /\ _mark(s, list_surface_rows)
    /\ UNCHANGED <<store, hook, attempts, faults, history>>

\* What his words point at: one handle of the listing ("got it", "clear the one of
\* Micah"), or all of it ("clear all").
verify_message(s) == {{i} : i \in listing[s]} \cup ({listing[s]} \ {{}})

\* An item that is closed, or is being said aloud, is left as it is.  The handles go,
\* unless it was one and nothing changed.
_pending_change(s) ==
    /\ \E targets \in verify_message(s) : \E changed \in SUBSET (targets \cap list_surface_rows) :
          /\ changed # {} \/ targets = listing[s]
          /\ dismiss_item(changed) /\ listing' = [listing EXCEPT ![s] = @ \ targets]
    /\ UNCHANGED <<lapse, marker, speech, noted, hook, tainted, attempts, faults, history>>

(***************************************************************************)
(* The rest of the system, and time                                        *)
(***************************************************************************)

\* Bound: what only the start of a turn reads changes while a turn is left.
ATurnIsLeft == attempts < MaxAttempts
Arrive(i) ==
    /\ item[i].st = "new" /\ item' = [item EXCEPT ![i].st = "open"]
    /\ UNCHANGED <<lapse, marker, speech, noted, hook, listing, tainted, attempts, faults, history>>
Speak(i) ==
    /\ ATurnIsLeft /\ Open(i)
    /\ \E d \in Speeches :
          /\ speech[d].of = {} /\ \A e \in 1..(d - 1) : speech[e].of # {} /\ speech[e].of # {i}
          /\ speech' = [speech EXCEPT ![d] = [of |-> {i}, recent |-> TRUE]]
    /\ UNCHANGED <<item, lapse, marker, noted, hook, listing, tainted, attempts, faults, history>>
GapPasses ==
    /\ ATurnIsLeft /\ ~marker.old /\ marker' = [marker EXCEPT !.old = TRUE]
    /\ raced' = IF _gap_open THEN raced ELSE \E s \in Sessions : hook[s].pc \in Before
    /\ UNCHANGED <<item, lapse, speech, noted, hook, listing, tainted, attempts, faults, owed, missed>>
QuietPasses(i) ==
    /\ ~item[i].rested /\ item[i].told < ReinjectCap
    /\ item' = [item EXCEPT ![i].rested = TRUE]
    /\ UNCHANGED <<lapse, marker, speech, noted, hook, listing, tainted, attempts, faults, history>>
WindowPasses(d) ==
    /\ ATurnIsLeft /\ speech[d].recent /\ speech' = [speech EXCEPT ![d].recent = FALSE]
    /\ UNCHANGED <<item, lapse, marker, noted, hook, listing, tainted, attempts, faults, history>>
HandlesAge(s) ==
    /\ listing[s] # {} /\ listing' = [listing EXCEPT ![s] = {}]
    /\ UNCHANGED <<store, hook, tainted, attempts, faults, history>>

Next ==
    \/ \E s \in Sessions :
          \/ BeginTurn(s) \/ write_surface_marker(s) \/ List(s) \/ (\E i \in Items : provisional_select(s, i))
          \/ _finish_text(s) \/ note_lapse_attempt(s) \/ Seal(s)
          \/ confirm_surface_attempt(s) \/ _post_llm(s) \/ note_post_speech(s) \/ TurnDies(s)
          \/ _pending_list(s) \/ _pending_change(s) \/ HandlesAge(s)
    \/ \E i \in Items : Arrive(i) \/ Speak(i) \/ QuietPasses(i)
    \/ \E d \in Speeches : WindowPasses(d)
    \/ GapPasses

Spec == Init /\ [][Next]_vars

(***************************************************************************)
(* Properties                                                              *)
(***************************************************************************)

(* What is counted as told was in the text of the turn that counts it      *)
(* (confirm_surface_attempt: the same attempt and the same turn), and an   *)
(* item that two sessions took is counted once: "a selected item is not    *)
(* re-injected for a quiet interval" (P9-D10).                             *)
CountedWasShown == [][
    /\ \A i \in Items : item'[i].told > item[i].told =>
          /\ \E s \in Sessions : hook[s].pc = "model" /\ hook'[s].pc = "mark" /\ i \in hook[s].shown
          /\ item[i].conv = "none" \/ item[i].rested
    /\ \A l \in Lapses : lapse[l].st # "told" /\ lapse'[l].st = "told" =>
          \E s \in Sessions : hook[s].pc = "model" /\ hook'[s].pc = "mark" /\ l \in hook[s].shown]_vars

(* While an item that a block told of has not been counted since and could *)
(* be told, the gap that makes the next turn offer it is closed only       *)
(* - by a turn that ended and whose marker stands, if that turn counted    *)
(*   nothing, its transaction refused or past the TTL, or the row was not  *)
(*   its own: taken by another session, or left out of its block; or       *)
(* - by a turn with nothing to say that was under way when the gap opened  *)
(* (write_surface_marker, _gap_open, _post_llm, which confirms the marker  *)
(* also when confirm_surface_attempt failed).  A turn that dies, a seal, a *)
(* release and a refused transaction before the model leave it open.       *)
OwedKeepsGapOpen == [][
    \A i \in owed' : _offerable(i) /\ _gap_open /\ ~_gap_open' =>
        \/ \E s \in Sessions : /\ hook[s].pc = "mark" /\ marker.attempt = hook[s].attempt
                              /\ (s \in missed \/ item[i].attempt # hook[s].attempt)
        \/ (raced /\ marker'.attempt = 0)]_vars

(* The session is tainted before it is given retrieved text (P9-D10), also *)
(* when a transaction after that is refused.                               *)
TaintedFirst == \A s \in Sessions : hook[s].shown \cap Mail # {} => s \in tainted
=============================================================================
