-------------------------------- MODULE Watch --------------------------------
(***************************************************************************)
(* zola_loops (zola_workspace/loops.py): the owner asks in a turn to be    *)
(* told when someone writes, she may ask back, and his next words answer   *)
(* the question or drop it.  A watch is a row of loops; the question that  *)
(* is open (_confirms), the watches he was shown (_listed) and the people  *)
(* a pronoun may mean (_session_people) live in the process.               *)
(*                                                                         *)
(* One session.  A sentence is what the functions that read it find in it. *)
(* The tool calls of a turn run one after another; between them come the   *)
(* address book, items that are told, the daily purge and a restart.       *)
(***************************************************************************)
EXTENDS Naturals, FiniteSets

CONSTANTS
    People,     \* handles of contacts
    Texts, Emails,  \* identifiers: hashes of numbers and of addresses
    Names, Hits,    \* what a person may be called, and whom it finds (match_people_by_name)
    Plain,      \* the names that need no question: exact, and said in full
    Sentences,  \* what may be said
    None,
    MaxLoops, MaxTurns, MaxEdits  \* bounds: rows, turns, edits of the address book

Ids == Texts \cup Emails
Channels == {"text", "email", "both"}
Sentence == [ask : {"no", "contact", "mail"},  \* no watch, a watch for someone, "watch that mail"
             lifetime : {"none", "everyTime", "whenever", "next", "keepAnEye"},
             channel : Channels,               \* both, when none is named
             groups : {"none", "withGroups", "directOnly"},
             answer : {"none", "yes", "no"},
             name : Names \cup {None}, number : Texts \cup {None}]

ASSUME WatchParameters ==
    /\ Hits \in [Names -> SUBSET People] /\ Plain \subseteq Names
    /\ Sentences \subseteq Sentence
    /\ None \notin People \cup Ids \cup Names /\ Texts \cap Emails = {}
    /\ {MaxLoops, MaxTurns, MaxEdits} \subseteq Nat

VARIABLES
    loops,    \* the table: watches, in the order they are made
    book,     \* contact_index: the identifiers of each contact, {} for none
    token,    \* _confirms[session]
    listed,   \* _listed[session]
    people,   \* _session_people[session]: who is known, and the last watch made for each, or 0
    made,     \* _created_on_turn of this turn
    said,     \* user_message of this turn, when it is the owner's
    owner,    \* whether this turn has the owner's ticket
    turn, edits,  \* counters
    asked     \* history: the last question, the turn it was asked in, whether a yes was taken

session == <<token, listed, people, made>>
words == <<said, owner, turn>>
watchVars == <<loops, book, session, words, edits, asked>>

Rows == 1..MaxLoops
Ended == {"delivered", "widened", "closed"}
    \* closed_intent: delivered and acknowledged; cancelled by a widen; cancelled, expired, forgotten
Row == [st : {"none", "open"} \cup Ended, intent : {"none", "person", "number", "mail"},
        who : People \cup {None}, ids : SUBSET Ids, channel : Channels \cup {"none"},
        lifetime : {"once", "standing", "none"}, groups : BOOLEAN]
NoRow == [st |-> "none", intent |-> "none", who |-> None, ids |-> {},
          channel |-> "none", lifetime |-> "none", groups |-> FALSE]
Plan == [who : People \cup {None}, ids : SUBSET Ids,  \* ids: _identifier_snapshot, {} for none
         channel : Channels \cup {"none"}, lifetime : {"once", "standing", "none"},
         direct : BOOLEAN, loop : {0} \cup Rows,
         intent : {"none", "person", "number"}, name : Names \cup {None}, number : Texts \cup {None}]
NoPlan == [who |-> None, ids |-> {}, channel |-> "none", lifetime |-> "none", direct |-> FALSE,
           loop |-> 0, intent |-> "none", name |-> None, number |-> None]
Questions == {"watch_lifetime", "watch_person", "watch_widen", "watch_groups", "forget_widen"}
NoToken == [action |-> "none", plan |-> NoPlan, armed |-> FALSE]
Silence == [ask |-> "no", lifetime |-> "none", channel |-> "both", groups |-> "none", answer |-> "none",
            name |-> None, number |-> None]

(* Every variable keeps its shape. *)
WatchTypeOK ==
    /\ loops \in [Rows -> Row]
    /\ book \in [People -> SUBSET Ids]
    /\ token \in [action : Questions \cup {"none"}, plan : Plan, armed : BOOLEAN]
    /\ listed \subseteq Rows /\ made \subseteq Rows /\ people \in [People -> {None, 0} \cup Rows]
    /\ said \in Sentence /\ owner \in BOOLEAN
    /\ turn \in 0..MaxTurns /\ edits \in 0..MaxEdits
    /\ asked \in [action : Questions \cup {"none"}, plan : Plan, turn : 0..MaxTurns, used : BOOLEAN]

WatchInit ==
    /\ loops = [l \in Rows |-> NoRow]
    /\ book \in [People -> SUBSET Ids] /\ \A p \in People : book[p] # {}
    /\ token = NoToken /\ listed = {} /\ people = [p \in People |-> None] /\ made = {}
    /\ said = Silence /\ owner = FALSE /\ turn = 0 /\ edits = 0
    /\ asked = [action |-> "none", plan |-> NoPlan, turn |-> 0, used |-> FALSE]

OpenWatch(l) == loops[l].st = "open"
Free == {l \in Rows : loops[l].st = "none" /\ \A k \in 1..(l - 1) : loops[k].st # "none"}
EndWatches(ls, how) == loops' = [l \in Rows |-> IF l \in ls THEN [loops[l] EXCEPT !.st = how] ELSE loops[l]]
OnChannel(ids, channel) ==
    CASE channel = "text" -> ids \cap Texts [] channel = "email" -> ids \cap Emails [] OTHER -> ids

(***************************************************************************)
(* What a sentence says                                                    *)
(***************************************************************************)

_is_watch_request(s) == s.ask # "no"
_is_widen_turn(s) == s.ask = "contact"
_lifetime_of_Words(s) == IF s.lifetime = "keepAnEye" THEN "ask" ELSE s.lifetime
_lifetime_of(s) ==
    CASE s.lifetime \in {"everyTime", "whenever"} -> "standing"
      [] s.lifetime = "keepAnEye" -> "ask"
      [] OTHER -> "once"
_message_answers_confirmation(s, action) ==
    IF action = "watch_lifetime" THEN s.lifetime \in {"everyTime", "whenever", "next"} ELSE s.answer # "none"
\* The words change what was proposed.
_proposal_disagrees(s, plan) ==
    \/ s.lifetime \in {"everyTime", "whenever"} /\ plan.lifetime # "standing"
    \/ s.lifetime = "next" /\ plan.lifetime = "standing"
    \/ s.channel = "text" /\ plan.channel = "email"
    \/ s.channel = "email" /\ plan.channel = "text"
    \/ s.groups = "withGroups" /\ plan.direct
    \/ s.groups = "directOnly" /\ ~plan.direct

(***************************************************************************)
(* Questions and watches                                                   *)
(***************************************************************************)

_mint(action, plan) ==
    /\ token' = [action |-> action, plan |-> plan, armed |-> FALSE]
    /\ asked' = [action |-> action, plan |-> plan, turn |-> turn, used |-> FALSE]
\* The token is popped, whatever comes of the answer.
Pop == token' = NoToken /\ asked' = [asked EXCEPT !.used = @ \/ token.action # "none"]
Refuse == Pop /\ UNCHANGED <<loops, listed, made, people>>

_store_watch(l, row) ==
    /\ loops' = [loops EXCEPT ![l] = row]
    /\ listed' = listed \cup {l} /\ made' = made \cup {l}
    /\ people' = IF row.who = None THEN people ELSE [people EXCEPT ![row.who] = l]

_predicate_for(plan) ==
    [st |-> "open", intent |-> "person", who |-> plan.who, ids |-> OnChannel(book[plan.who], plan.channel),
     channel |-> plan.channel, lifetime |-> plan.lifetime, groups |-> ~plan.direct]

confirm_stale_Texts(plan) == plan.ids # {} /\ plan.ids \cap Texts # book[plan.who] \cap Texts
confirm_stale(plan) == plan.ids # {} /\ plan.ids # book[plan.who]
_commit_person_plan(plan) ==
    \/ /\ ~confirm_stale(plan) /\ OnChannel(book[plan.who], plan.channel) # {}
       /\ \E l \in Free :
             /\ _store_watch(l, _predicate_for(plan))
             /\ IF plan.direct THEN _mint("watch_groups", [NoPlan EXCEPT !.loop = l]) ELSE Pop
    \/ Refuse  \* stale, nothing on the channel, no index, or a locked store

number_watch(number) ==
    LET owners == {p \in People : number \in book[p]} IN
    /\ number # None /\ Cardinality(owners) <= 1
    /\ \E l \in Free :
          _store_watch(l, [NoRow EXCEPT !.st = "open", !.intent = "number", !.ids = {number},
                                        !.channel = "text", !.lifetime = "once", !.groups = TRUE])
    /\ \/ owners = {} /\ Pop
       \/ \E p \in owners : _mint("watch_widen", [NoPlan EXCEPT !.who = p, !.ids = book[p]])

person_watch(name, s) ==
    LET hits == {p \in Hits[name] : book[p] # {}}
        plan(p) == [NoPlan EXCEPT !.who = p, !.channel = s.channel, !.lifetime = _lifetime_of(s),
                                  !.direct = _lifetime_of(s) = "standing" /\ s.groups # "withGroups"]
    IN /\ Cardinality(hits) = 1
       /\ \E p \in hits :
             IF name \in Plain THEN _commit_person_plan(plan(p))
             ELSE /\ _mint("watch_person", [plan(p) EXCEPT !.ids = book[p]])
                  /\ UNCHANGED <<loops, listed, made, people>>

\* What is asked for is in the words, or it is refused.
_create_contact_watch(args, s) ==
    \/ /\ _is_watch_request(s) /\ _lifetime_of(s) = "ask"
       /\ _mint("watch_lifetime", [NoPlan EXCEPT !.intent = args.intent, !.name = args.name, !.number = args.number])
       /\ UNCHANGED <<loops, listed, made, people>>
    \/ /\ _is_watch_request(s) /\ _lifetime_of(s) # "ask"
       /\ \/ args.intent = "number" /\ args.number = s.number /\ number_watch(s.number)
          \/ args.intent = "person" /\ args.name = s.name /\ args.name # None /\ person_watch(s.name, s)
    \/ Refuse

\* A watch on one mail: its sender and its thread.
mail_watch ==
    \/ \E l \in Free, e \in Emails :
          /\ loops' = [loops EXCEPT ![l] = [NoRow EXCEPT !.st = "open", !.intent = "mail", !.ids = {e}, !.groups = TRUE]]
          /\ listed' = listed \cup {l} /\ Pop /\ UNCHANGED <<made, people>>
    \/ Refuse

(***************************************************************************)
(* A create is the answer to the open question, when there is one          *)
(***************************************************************************)

answer_lifetime ==
    LET plan == token.plan
        rewritten == IF said.lifetime = "next" /\ said.ask = "no" THEN [said EXCEPT !.ask = "contact"] ELSE said
    IN IF said.lifetime \in {"everyTime", "next"} THEN _create_contact_watch(plan, rewritten) ELSE Refuse
answer_groups ==
    LET l == token.plan.loop IN
    /\ loops' = IF OpenWatch(l) THEN [loops EXCEPT ![l].groups = TRUE] ELSE loops
    /\ Pop /\ UNCHANGED <<listed, made, people>>
_apply_confirmation(intent) ==
    CASE token.action = "watch_lifetime" -> answer_lifetime
      [] token.action = "forget_widen" -> Refuse
      [] token.action \in {"watch_person", "watch_widen", "watch_groups"} /\
            (said.answer # "yes" \/ intent = "mail" \/ _proposal_disagrees(said, token.plan)) -> Refuse
      [] token.action = "watch_person" -> _commit_person_plan(token.plan)
      [] token.action = "watch_widen" ->
            _commit_person_plan([token.plan EXCEPT !.channel = "both", !.lifetime = "once", !.direct = FALSE])
      [] OTHER -> answer_groups

create_loop(intent) ==
    /\ owner
    /\ \/ token.action # "none" /\ _apply_confirmation(intent)
       \/ token.action = "none" /\ intent = "mail" /\ mail_watch
       \/ /\ token.action = "none" /\ intent # "mail"
          /\ _create_contact_watch([intent |-> intent, name |-> said.name, number |-> said.number], said)
    /\ UNCHANGED <<book, words, edits>>

(***************************************************************************)
(* List and close                                                          *)
(***************************************************************************)

list_loops ==
    /\ owner /\ listed' = {l \in Rows : OpenWatch(l)}
    /\ UNCHANGED <<loops, book, token, people, made, words, edits, asked>>

_same_person(old, new) ==
    \/ old.who # None /\ old.who = new.who
    \/ old.ids \cap new.ids # {}
_covers(new, old) ==
    /\ \/ old.lifetime = "standing" /\ new.lifetime = "standing"
       \/ old.lifetime = "once" /\ new.lifetime \in {"once", "standing"}
    /\ new.channel \in {old.channel, "both"}
_widen_close_Any(l, n) == n # l /\ _same_person(loops[l], loops[n]) /\ _covers(loops[n], loops[l])
_widen_close(l, n) == n # l /\ OpenWatch(n) /\ _same_person(loops[l], loops[n]) /\ _covers(loops[n], loops[l])

close_listed(l) ==
    /\ owner /\ l \in listed /\ OpenWatch(l)
    /\ IF _is_widen_turn(said)
       THEN (\E n \in made : _widen_close(l, n)) /\ EndWatches({l}, "widened")
       ELSE EndWatches({l}, "closed")
    /\ UNCHANGED <<book, session, words, edits, asked>>

\* "Stop watching him": the one person of this session, and the last watch made for
\* him, or else the first of his that is open.
_close_by_reference ==
    \E p \in People :
        LET his == {l \in Rows : OpenWatch(l) /\ loops[l].who = p}
            ref == IF people[p] # 0 THEN {people[p]} ELSE {l \in his : \A k \in his : l <= k}
        IN /\ owner /\ people[p] # None /\ (\A q \in People \ {p} : people[q] = None)
           /\ listed' = listed \cup ref /\ EndWatches({l \in ref : OpenWatch(l)}, "closed")
    /\ UNCHANGED <<book, token, people, made, words, edits, asked>>

(***************************************************************************)
(* Turns, and what else moves                                              *)
(***************************************************************************)

note_turn(s) ==
    token' = IF ~token.armed /\ token.action # "none" /\ _message_answers_confirmation(s, token.action)
             THEN [token EXCEPT !.armed = TRUE] ELSE NoToken
NextTurn(s, ticket) ==
    /\ turn < MaxTurns /\ turn' = turn + 1 /\ said' = (IF ticket THEN s ELSE Silence) /\ owner' = ticket /\ made' = {}
    /\ note_turn(s)
    /\ UNCHANGED <<loops, book, listed, people, edits, asked>>

\* _confirm_pending, after two minutes.
Lapse ==
    /\ token.action # "none" /\ token' = NoToken
    /\ UNCHANGED <<loops, book, listed, people, made, words, edits, asked>>

\* The block of a turn names a contact whose watch something matched (surface.py).
note_session_person(p) ==
    /\ people[p] = None /\ \E l \in Rows : loops[l].st # "none" /\ loops[l].who = p
    /\ people' = [people EXCEPT ![p] = 0]
    /\ UNCHANGED <<loops, book, token, listed, made, words, edits, asked>>

\* forget_subject: an open watch ends; one that told something loses its identifiers.
Forgotten(ids) ==
    loops' = [l \in Rows |->
                IF loops[l].st \in {"open", "delivered"} /\ loops[l].ids \cap ids # {}
                THEN [loops[l] EXCEPT !.st = "closed", !.ids = {}] ELSE loops[l]]
\* forget_memory of a number asks whether to forget its contact too.
note_forget_widen(number) ==
    LET owners == {p \in People : number \in book[p]} IN
    /\ owner /\ Cardinality(owners) <= 1 /\ Forgotten({number})
    /\ \/ owners = {} /\ UNCHANGED <<token, asked>>
       \/ \E p \in owners : _mint("forget_widen", [NoPlan EXCEPT !.who = p, !.ids = book[p]])
    /\ UNCHANGED <<book, listed, people, made, words, edits>>
take_forget_widen ==
    /\ owner /\ token.action = "forget_widen" /\ Pop
    /\ IF said.answer = "yes" /\ ~(book[token.plan.who] # {} /\ confirm_stale(token.plan))
       THEN Forgotten(token.plan.ids) ELSE UNCHANGED loops
    /\ UNCHANGED <<book, listed, people, made, words, edits>>

\* An item from i is told, or acknowledged: the watches for the next one end.
_satisfy_matched_watches(i, group) ==
    /\ EndWatches({l \in Rows : /\ OpenWatch(l) /\ loops[l].intent # "mail" /\ loops[l].lifetime = "once"
                                /\ i \in OnChannel(loops[l].ids, loops[l].channel) /\ (group => loops[l].groups)},
                  "delivered")
    /\ UNCHANGED <<book, session, words, edits, asked>>
purge_retention(l) == OpenWatch(l) /\ EndWatches({l}, "closed") /\ UNCHANGED <<book, session, words, edits, asked>>

EditBook(p, ids) ==
    /\ edits < MaxEdits /\ edits' = edits + 1 /\ ids # book[p] /\ book' = [book EXCEPT ![p] = ids]
    /\ UNCHANGED <<loops, session, words, asked>>
Restart ==
    /\ token' = NoToken /\ listed' = {} /\ people' = [p \in People |-> None] /\ made' = {} /\ owner' = FALSE
    /\ UNCHANGED <<loops, book, said, turn, edits, asked>>

WatchNext ==
    \/ \E s \in Sentences, ticket \in BOOLEAN : NextTurn(s, ticket)
    \/ \E intent \in {"person", "number", "mail"} : create_loop(intent)
    \/ list_loops \/ (\E l \in Rows : close_listed(l)) \/ _close_by_reference
    \/ (\E number \in Texts : note_forget_widen(number)) \/ take_forget_widen
    \/ \E i \in Ids, group \in BOOLEAN : _satisfy_matched_watches(i, group)
    \/ \E l \in Rows : purge_retention(l)
    \/ \E p \in People, ids \in SUBSET Ids : EditBook(p, ids)
    \/ (\E p \in People : note_session_person(p)) \/ Lapse \/ Restart

WatchSpec == WatchInit /\ [][WatchNext]_watchVars

(***************************************************************************)
(* Properties                                                              *)
(***************************************************************************)

Made(l) == loops[l].st = "none" /\ loops'[l].st = "open"
\* A watch is made, or takes in group threads, on an answer to the open question.
Taken(l) == token.action # "none" /\ (Made(l) \/ loops[l].groups # loops'[l].groups)

(* A yes does what was asked, and nothing else: the identifiers, channel,  *)
(* lifetime and groups of the watch are those of the last question, even   *)
(* when the address book has changed since (verdict 2, _commit_person_plan *)
(* and _apply_confirmation); and it counts once, and no later than in the  *)
(* turn after its question (note_turn, _mint).                             *)
YesIsTheProposal == [][
    \A l \in Rows : Taken(l) =>
        LET plan == asked.plan
            Person(ids, channel, lifetime, direct) ==
                [st |-> "open", intent |-> "person", who |-> plan.who, ids |-> ids,
                 channel |-> channel, lifetime |-> lifetime, groups |-> ~direct]
        IN /\ ~asked.used /\ turn <= asked.turn + 1
           /\ CASE asked.action = "watch_person" ->
                    loops'[l] = Person(OnChannel(plan.ids, plan.channel), plan.channel, plan.lifetime, plan.direct)
                [] asked.action = "watch_widen" -> loops'[l] = Person(plan.ids, "both", "once", FALSE)
                [] asked.action = "watch_groups" ->
                    l = plan.loop /\ OpenWatch(l) /\ loops'[l] = [loops[l] EXCEPT !.groups = TRUE]
                [] asked.action = "watch_lifetime" -> loops'[l].intent = plan.intent
                [] OTHER -> FALSE]_watchVars

(* A watch that made room for a wider one left its channels and its        *)
(* lifetime to a watch that did not make room itself: two watches never    *)
(* close each other (_widen_close, _covers).                               *)
CoverStays ==
    \A l \in Rows : loops[l].st = "widened" =>
        \E n \in Rows : loops[n].st \notin {"none", "widened"} /\ _covers(loops[n], loops[l])

=============================================================================
