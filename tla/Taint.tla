-------------------------------- MODULE Taint --------------------------------
(***************************************************************************)
(* The taint of a session (zola_workspace/taint.py) and what it guards: no *)
(* content of mail, calendar, drive or contacts becomes memory unseen.  A  *)
(* tool marks the session before it returns content; a save by the model   *)
(* is then held to the owner's own words (guards.py), and an episode made  *)
(* of such a session says where it comes from (zola_memory/consolidate.py).*)
(*                                                                         *)
(* The difficulty is that a conversation outlives its id: compression may  *)
(* go on under a child session, in the middle of a turn too, and the mark, *)
(* the record of the turn, the task and the guard then speak of different  *)
(* ids.  A mark is of an id and of the root of its lineage, found by a walk*)
(* over another database, which may be locked.                             *)
(*                                                                         *)
(* One conversation at a time; its calls run one after another.            *)
(***************************************************************************)
EXTENDS Naturals, FiniteSets

CONSTANTS
    Ids,        \* session ids
    None,
    WalkCap,    \* LINEAGE_WALK_CAP (100 in the code)
    MaxPending, MaxFaults   \* bounds

ASSUME TaintParameters ==
    /\ None \notin Ids /\ Ids # {}
    /\ WalkCap \in Nat \ {0} /\ {MaxPending, MaxFaults} \subseteq Nat

VARIABLES
    root,     \* state.db, sessions: where the walk over parent_session_id ends; None: no such session
    depth,    \* state.db, sessions: the parents the walk passes
    marks,    \* taint.sqlite: the ids that are marked
    tip,      \* the session the conversation goes on under
    turn,     \* the turn under way, or NoTurn
    pending,  \* turns that wait for the consolidator
    saved,    \* what became memory last: with content in sight or not, and how
    faults,   \* counter
    \* history, read by no action
    content,  \* sessions whose context holds content
    missed    \* roots that a mark could not find, and none has since

sessions == <<root, depth>>
vars == <<sessions, marks, tip, turn, pending, saved, faults, content, missed>>

\* task: session_key at the start of the turn; session: of the TurnRecord, None
\* when there is none (any more); said: the message leads with a save phrase.
NoTurn == [task |-> None, session |-> None, hooked |-> FALSE, said |-> FALSE]
Turns == [task : Ids, session : Ids \cup {None}, hooked : BOOLEAN, said : BOOLEAN]

(* Every variable keeps its shape; ids that are used name a session. *)
TypeOK ==
    /\ root \in [Ids -> Ids \cup {None}] /\ depth \in [Ids -> Nat]
    /\ marks \subseteq Ids
    /\ tip \in Ids
    /\ turn \in Turns \cup {NoTurn}
    /\ pending \subseteq [session : Ids, mixed : BOOLEAN]
    /\ saved \in [mixed : BOOLEAN, how : {"his", "said", "own"}]
    /\ faults \in 0..MaxFaults
    /\ content \subseteq Ids /\ missed \subseteq Ids \cup {None}

Init ==
    /\ tip \in Ids
    /\ root = [i \in Ids |-> IF i = tip THEN i ELSE None] /\ depth = [i \in Ids |-> 0]
    /\ marks = {} /\ turn = NoTurn /\ pending = {} /\ saved = [mixed |-> FALSE, how |-> "own"] /\ faults = 0
    /\ content = {} /\ missed = {}

Fault == faults < MaxFaults /\ faults' = faults + 1
NoFault == faults' = faults
InTurn == turn # NoTurn

(***************************************************************************)
(* Marks                                                                   *)
(***************************************************************************)

\* A walk that is too long raises, as does one that meets a locked database.
lineage_root(ids) == {root[i] : i \in {j \in ids : depth[j] < WalkCap}}
too_long(ids) == \E i \in ids : depth[i] >= WalkCap

\* The roots that are found; the ids themselves are marked whatever comes of the walk.
\* Mutant: the root of the lineage is left out.
_keys_to_mark_Raw(ids, found) == ids
_keys_to_mark(ids, found) == IF found THEN ids \cup lineage_root(ids) ELSE ids

mark_tainted(ids) ==
    \E found \in BOOLEAN :
        /\ marks' = marks \cup _keys_to_mark(ids, found)
        /\ IF found THEN NoFault /\ missed' = missed \ lineage_root(ids)
                    ELSE Fault /\ missed' = missed \cup (lineage_root(ids) \ marks')

\* A walk that raises counts as a mark.
is_marked(ids) == too_long(ids) \/ (ids \cup lineage_root(ids)) \cap marks # {}
is_tainted(ids, answer) ==
    \/ answer = is_marked(ids) /\ NoFault
    \/ answer = TRUE /\ Fault

(***************************************************************************)
(* Turns                                                                   *)
(***************************************************************************)

BeginTurn ==
    /\ ~InTurn
    /\ \E said \in BOOLEAN : turn' = [task |-> tip, session |-> None, hooked |-> FALSE, said |-> said]
    /\ UNCHANGED <<sessions, marks, tip, pending, saved, faults, content, missed>>

\* The hook before the model keeps a record of the turn and marks the ids of a
\* tainted session again, by the name it has now.
remark ==
    LET ids == {tip, turn.task}
    IN  \/ is_tainted(ids, FALSE) /\ UNCHANGED <<marks, missed>>
        \/ is_marked(ids) /\ mark_tainted(ids)
        \/ /\ Fault /\ missed' = missed  \* a database is locked: for the check, the mark or both
           /\ \E keys \in {{}, ids, _keys_to_mark(ids, TRUE)} : marks' = marks \cup keys
pre_llm_call_hook ==
    /\ InTurn /\ ~turn.hooked
    /\ turn' = [turn EXCEPT !.session = tip, !.hooked = TRUE]
    /\ remark
    /\ UNCHANGED <<sessions, tip, pending, saved, content>>

\* A turn that takes longer than AUTHORITY_GRANT_TTL_SECONDS has no record any more.
record_expires ==
    /\ turn.session # None /\ turn' = [turn EXCEPT !.session = None]
    /\ UNCHANGED <<sessions, marks, tip, pending, saved, faults, content, missed>>

\* Content is returned once the session of the record is marked.
_ids_for_turn == {turn.session, turn.task}
mark_then_frame ==
    /\ turn.session # None
    /\ mark_tainted(_ids_for_turn)
    /\ content' = content \cup {tip}
    /\ UNCHANGED <<sessions, tip, turn, pending, saved>>

\* The turn ends, with or without a sync, which writes it down for the consolidator.
sync_turn ==
    /\ Cardinality(pending) < MaxPending
    /\ pending' = pending \cup {[session |-> tip, mixed |-> tip \in content]}
EndTurn ==
    /\ InTurn /\ turn' = NoTurn
    /\ sync_turn \/ UNCHANGED pending
    /\ UNCHANGED <<sessions, marks, tip, saved, faults, content, missed>>

(***************************************************************************)
(* What becomes memory                                                     *)
(***************************************************************************)

\* With content in sight, and the root of the lineage not missed.
Mixed(i) == i \in content /\ root[i] \notin missed

\* The facts whose words are the owner's, after a save phrase at the start of his
\* message; the words of the others are the model's.
_save_request_suffix == IF turn.said THEN {"his"} ELSE {}
\* The ids of a call: the session of now, the task of the turn.
ids_of_call == {tip, turn.task}

\* memory add and replace: when the session is tainted, the whole batch is in his
\* words, which the record of the turn has.
evaluate_memory_taint(batch, tainted) ==
    tainted => turn.session # None /\ batch \subseteq _save_request_suffix
memory_add(batch) ==
    /\ turn.hooked
    /\ turn.said \/ "his" \notin batch
    /\ \E tainted \in BOOLEAN : is_tainted(ids_of_call, tainted) /\ evaluate_memory_taint(batch, tainted)
    /\ \E fact \in batch : saved' = [mixed |-> Mixed(tip), how |-> fact]
    /\ UNCHANGED <<sessions, marks, tip, turn, pending, content, missed>>

\* A skill is not written in a tainted session, in whosever words.
skill_manage ==
    /\ turn.hooked /\ is_tainted(ids_of_call, FALSE)
    /\ saved' = [mixed |-> Mixed(tip), how |-> "own"]
    /\ UNCHANGED <<sessions, marks, tip, turn, pending, content, missed>>

\* The summarizer is told to say what came from mail and calendar if the session
\* of any of the turns is tainted by now.
_needs_workspace_attribution(rows, answer) == is_tainted({r.session : r \in rows}, answer)
run_consolidation ==
    \E rows \in SUBSET pending \ {{}}, said \in BOOLEAN :
        /\ _needs_workspace_attribution(rows, said)
        /\ saved' = [mixed |-> \E r \in rows : r.mixed /\ root[r.session] \notin missed,
                     how |-> IF said THEN "said" ELSE "own"]
        /\ pending' = pending \ rows
        /\ UNCHANGED <<sessions, marks, tip, turn, content, missed>>

(***************************************************************************)
(* Sessions                                                                *)
(***************************************************************************)

\* Compression: the conversation goes on under a child, with what it holds.
Rotate ==
    \E i \in Ids :
        /\ root[i] = None
        /\ root' = [root EXCEPT ![i] = root[tip]] /\ depth' = [depth EXCEPT ![i] = depth[tip] + 1]
        /\ content' = IF tip \in content THEN content \cup {i} ELSE content
        /\ tip' = i
        /\ UNCHANGED <<marks, turn, pending, saved, faults, missed>>
NewSession ==
    \E i \in Ids :
        /\ ~InTurn /\ root[i] = None
        /\ root' = [root EXCEPT ![i] = i] /\ tip' = i
        /\ UNCHANGED <<depth, marks, turn, pending, saved, faults, content, missed>>
Resume ==
    /\ ~InTurn /\ tip' \in {i \in Ids \ {tip} : root[i] # None}
    /\ UNCHANGED <<sessions, marks, turn, pending, saved, faults, content, missed>>

\* The gateway dies: the turn and its record are gone, the databases stay.
Restart ==
    /\ InTurn /\ turn' = NoTurn
    /\ UNCHANGED <<sessions, marks, tip, pending, saved, faults, content, missed>>

Next ==
    \/ BeginTurn \/ pre_llm_call_hook \/ record_expires \/ mark_then_frame \/ EndTurn
    \/ (\E batch \in SUBSET {"his", "own"} \ {{}} : memory_add(batch)) \/ skill_manage \/ run_consolidation
    \/ Rotate \/ NewSession \/ Resume \/ Restart
Spec == Init /\ [][Next]_vars

\* Nothing becomes memory from a context that holds content, but in his words or
\* with its source said: however often the session has changed its id since the
\* mark, in the turn or later, whatever id the record, the task and the row have,
\* and whichever walk meets a locked database (mark_tainted, is_tainted,
\* evaluate_memory_taint, _needs_workspace_attribution).  The one exception is
\* what the code takes: a mark that could not find its root is of the id alone.
KnownSource == saved.mixed => saved.how # "own"
=============================================================================
