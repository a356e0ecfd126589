------------------------------ MODULE SendGate ------------------------------
(***************************************************************************)
(* Drafts and sends of zola_workspace: origin tickets (origin.py), the     *)
(* hooks of a turn (turn_context.py, send_gate.py), the tools gmail_draft  *)
(* and gmail_send_draft (gmail.py), and the drafts at Gmail, which the     *)
(* owner edits as well.                                                    *)
(*                                                                         *)
(* A tool call is a thread: its HTTP requests are steps of their own, a    *)
(* write at Gmail is one step and its answer another, and calls of one     *)
(* turn overlap.  The rows of state.db, the prompt queue and the start and *)
(* end of turns belong to Hermes and are external.                         *)
(***************************************************************************)
EXTENDS Naturals, Sequences, FiniteSets

CONSTANTS
    Sessions,    \* chat sessions
    Drafts,      \* draft ids that Gmail may hand out
    Contents,    \* canonical forms of a draft, told apart by their hash
    Calls,       \* tool calls that may overlap
    Lines,       \* lines the owner submits
    MaxTurns,    \* bound: turns
    MaxLines,    \* bound: lines the owner submits
    MaxEdits     \* bound: edits at Gmail, by the owner or by an update

ASSUME Parameters ==
    /\ MaxTurns \in Nat /\ MaxLines \in Nat /\ MaxEdits \in Nat
    /\ Lines \subseteq {"go", "delete"} /\ "go" \in Lines
    /\ {"none", "gone"} \intersect Contents = {}
    /\ "none" \notin Drafts /\ "none" \notin Sessions

Turns == 1..MaxTurns

\* What the gate tells apart in a line: the passphrase as a whole message
\* ("go"), and anything else, which may ask to delete the draft ("delete").
\* Two queued lines merge.
Merged == "merged"

VARIABLES
    ticket,   \* origin._pending: unexpired tickets, by session and line
    rpc,      \* the prompt.submit under way
    queue,    \* queued_prompt of the session
    turn,     \* turns, by turn id
    bound,    \* origin._bound: turns known to be the owner's
    snapshot, \* send_gate._snapshots, by turn
    newer,    \* user rows written after that snapshot
    pending,  \* send_gate._pending: the presented draft of a session
    own,      \* send_gate._own: drafts this plugin made in the session
    auth,     \* send_gate._auths, by turn
    call,     \* tool calls under way
    gmail,    \* drafts at Gmail
    edits, lines,  \* how often the two bounds were used, lines by session and line
    heard,    \* history: contents read back, by session and turn
    sent,     \* history: session, content the gate compared, turn, content at Gmail
    approvals \* history: turns that were authorized

owner == <<ticket, rpc, queue, lines>>
gate == <<pending, own, auth>>
hist == <<heard, sent, approvals>>
vars == <<owner, turn, bound, snapshot, newer, gate, call, gmail, edits, hist>>

NoRpc == [line |-> "none", state |-> "none"]
NoTurn == [session |-> "none", line |-> "none", state |-> "none", flushed |-> FALSE]
NoDraft == [draft |-> "none", content |-> "none", turn |-> 0, review |-> "no"]
NoAuth == [draft |-> "none", content |-> "none", session |-> "none", used |-> FALSE]
NoCall == [kind |-> "none", turn |-> 0, draft |-> "none", content |-> "none",
           got |-> "none", pc |-> "idle"]

Live(t) == turn[t].state \in {"starting", "running", "stopping"}
Active(s) == {t \in Turns : turn[t].session = s /\ Live(t)}
Fresh == {t \in Turns : turn[t].state = "none" /\ \A u \in Turns : u < t => turn[u].state # "none"}
Begun(t, s, line) ==
    turn' = [turn EXCEPT ![t] = [session |-> s, line |-> line, state |-> "starting", flushed |-> FALSE]]
\* Nothing asks for the snapshot and the rows of a turn that is over, so the
\* model forgets them; the code keeps the snapshot.
Ended(t) ==
    /\ turn' = [turn EXCEPT ![t].state = "over", ![t].flushed = FALSE]
    /\ snapshot' = [snapshot EXCEPT ![t] = "none"]
    /\ newer' = [newer EXCEPT ![t] = <<>>]
Session(c) == turn[call[c].turn].session
There(d) == gmail[d] \in Contents

-----------------------------------------------------------------------------
(* prompt.submit and its ticket. *)

\* _dispatch mints before it calls the handler.
mint(s, line) ==
    /\ rpc[s] = NoRpc /\ lines[s][line] < MaxLines
    /\ rpc' = [rpc EXCEPT ![s] = [line |-> line, state |-> "asked"]]
    /\ ticket' = [ticket EXCEPT ![s][line] = @ + 1]
    /\ lines' = [lines EXCEPT ![s][line] = @ + 1]
    /\ UNCHANGED <<queue, turn, bound, snapshot, newer, gate, call, gmail, edits, hist>>

\* The handler of Hermes starts a turn, queues the line or merges it into the
\* queue, hands it to the live turn as a correction, or refuses it.
Handled(s, state) == rpc' = [rpc EXCEPT ![s].state = state]
HandlerStarts(s) ==
    /\ rpc[s].state = "asked" /\ Active(s) = {}
    /\ \E t \in Fresh : Begun(t, s, rpc[s].line)
    /\ Handled(s, "streaming")
    /\ UNCHANGED <<ticket, queue, lines, bound, snapshot, newer, gate, call, gmail, edits, hist>>
HandlerQueues(s) ==
    /\ rpc[s].state = "asked" /\ Active(s) # {}
    /\ queue' = [queue EXCEPT ![s] = IF @ = "none" THEN rpc[s].line ELSE Merged]
    /\ Handled(s, "queued")
    /\ UNCHANGED <<ticket, lines, turn, bound, snapshot, newer, gate, call, gmail, edits, hist>>
HandlerRedirects(s) ==
    /\ rpc[s].state = "asked"
    /\ \E t \in Active(s) :
         /\ turn[t].state = "running" /\ Len(newer[t]) < 2
         /\ newer' = [newer EXCEPT ![t] = Append(@, rpc[s].line)]
    /\ Handled(s, "refused")
    /\ UNCHANGED <<ticket, queue, lines, turn, bound, snapshot, gate, call, gmail, edits, hist>>
HandlerRefuses(s) ==
    /\ rpc[s].state = "asked" /\ Handled(s, "refused")
    /\ UNCHANGED <<ticket, queue, lines, turn, bound, snapshot, newer, gate, call, gmail, edits, hist>>

KeepTicket(s) ==
    \/ rpc[s].state = "streaming"
    \/ rpc[s].state = "queued" /\ queue[s] = rpc[s].line
Dispatched(s) ==
    /\ rpc[s].state \in {"streaming", "queued", "refused"}
    /\ rpc' = [rpc EXCEPT ![s] = NoRpc]
    /\ ticket' = IF KeepTicket(s) \/ ticket[s][rpc[s].line] = 0 THEN ticket
                 ELSE [ticket EXCEPT ![s][rpc[s].line] = @ - 1]
    /\ UNCHANGED <<queue, lines, turn, bound, snapshot, newer, gate, call, gmail, edits, hist>>

TicketExpires(s, line) ==
    /\ ticket[s][line] > 0
    /\ ticket' = [ticket EXCEPT ![s][line] = @ - 1]
    /\ UNCHANGED <<rpc, queue, lines, turn, bound, snapshot, newer, gate, call, gmail, edits, hist>>

\* A queued line starts a turn; so do heartbeats, loops and replays, with no
\* line of the owner's behind them.
Drain(s) ==
    /\ queue[s] # "none" /\ Active(s) = {}
    /\ \E t \in Fresh : Begun(t, s, queue[s])
    /\ queue' = [queue EXCEPT ![s] = "none"]
    /\ UNCHANGED <<ticket, rpc, lines, bound, snapshot, newer, gate, call, gmail, edits, hist>>
Synthetic(s) ==
    /\ Active(s) = {}
    /\ \E t \in Fresh : Begun(t, s, "go")
    /\ UNCHANGED <<owner, bound, snapshot, newer, gate, call, gmail, edits, hist>>

-----------------------------------------------------------------------------
(* The hooks of a turn. *)

\* (mutant) the ticket is looked at and left
Taken_Left(s, line) == ticket
Taken(s, line) == [ticket EXCEPT ![s][line] = @ - 1]

Reviewed(s) == pending[s].review = "live"

\* pre_llm_call: take the ticket, note the last user row, authorize.  The
\* user row of this turn is in the table by then (flushed) or comes later; the
\* table may not be readable.
pre_llm_call(t, flushed, readable) ==
    LET s == turn[t].session
        mine == turn[t].line \in Lines /\ ticket[s][turn[t].line] > 0
    IN
    /\ turn[t].state = "starting"
    /\ turn' = [turn EXCEPT ![t].state = "running", ![t].flushed = flushed]
    /\ ticket' = IF mine THEN Taken(s, turn[t].line) ELSE ticket
    /\ bound' = IF mine THEN bound \union {t} ELSE bound
    /\ snapshot' = [snapshot EXCEPT ![t] = IF readable THEN "read" ELSE "failed"]
    /\ IF mine /\ Reviewed(s) /\ turn[t].line = "go"
         THEN /\ auth' = [auth EXCEPT ![t] =
                   [draft |-> pending[s].draft, content |-> pending[s].content,
                    session |-> s, used |-> FALSE]]
              /\ approvals' = approvals \union {t}
         ELSE UNCHANGED <<auth, approvals>>
    /\ UNCHANGED <<rpc, queue, lines, newer, pending, own, call, gmail, edits, heard, sent>>

RowFlushed(t) ==
    /\ turn[t].state \in {"running", "stopping"} /\ ~turn[t].flushed /\ Len(newer[t]) < 2
    /\ turn' = [turn EXCEPT ![t].flushed = TRUE]
    /\ newer' = [newer EXCEPT ![t] = Append(@, turn[t].line)]
    /\ UNCHANGED <<owner, bound, snapshot, gate, call, gmail, edits, hist>>

\* (mutant) whatever is presented counts as read back
Covers_Any(said, draft) == TRUE
Covers(said, draft) == said = draft.content

Reviewing(t, said) ==
    LET s == turn[t].session d == pending[s] IN
    IF d.turn = t /\ d.review = "no" /\ Covers(said, d)
      THEN [pending EXCEPT ![s].review = "live"]
      ELSE pending

\* (mutant) only the flag of the thread is cleared
end_turn_Thread(t) == UNCHANGED bound
end_turn(t) == bound' = bound \ {t}
BoundExpires(t) ==
    /\ t \in bound /\ bound' = bound \ {t}
    /\ UNCHANGED <<owner, turn, snapshot, newer, gate, call, gmail, edits, hist>>

\* post_llm_call: the reply that ends a turn may read the draft back; said is
\* the content it repeats.  Of a body over 400 characters the code asks for no
\* more than subject and recipients: such drafts are not in Contents.
post_llm_call(t, said) ==
    /\ turn[t].state = "running" /\ \A c \in Calls : call[c].turn # t
    /\ Ended(t)
    /\ end_turn(t)
    /\ pending' = Reviewing(t, said)
    /\ auth' = [auth EXCEPT ![t] = NoAuth]
    /\ heard' = heard \union ({<<turn[t].session, said, t>>} \ {<<turn[t].session, "none", t>>})
    /\ UNCHANGED <<owner, own, call, gmail, edits, sent, approvals>>

\* The authorizations of a session.
Of(s) == {t \in Turns : auth[t].session = s}

clear_session(s) ==
    /\ pending' = [pending EXCEPT ![s] = NoDraft]
    /\ own' = [own EXCEPT ![s] = {}]
    /\ auth' = [t \in Turns |-> IF t \in Of(s) THEN NoAuth ELSE auth[t]]

\* agent_loop_stopped; calls under way go on, the turn ends on its own thread.
Interrupt(t) ==
    LET s == turn[t].session IN
    /\ turn[t].state = "running"
    /\ turn' = [turn EXCEPT ![t].state = "stopping"]
    /\ clear_session(s)
    /\ snapshot' = [u \in Turns |-> IF turn[u].session = s THEN "none" ELSE snapshot[u]]
    /\ UNCHANGED <<owner, bound, newer, call, gmail, edits, hist>>

\* An interrupted turn ends without post_llm_call, and so does one whose model
\* fails or replies nothing.
on_session_end(t) ==
    /\ turn[t].state \in {"running", "stopping"} /\ \A c \in Calls : call[c].turn # t
    /\ Ended(t)
    /\ end_turn(t)
    /\ UNCHANGED <<owner, gate, call, gmail, edits, hist>>

ReviewExpires(s) ==
    /\ Reviewed(s)
    /\ pending' = [pending EXCEPT ![s].review = "expired"]
    /\ UNCHANGED <<owner, turn, bound, snapshot, newer, own, auth, call, gmail, edits, hist>>

-----------------------------------------------------------------------------
(* Tool calls. *)

At(c, kind, pc) == call[c].kind = kind /\ call[c].pc = pc
Goto(c, pc) == call' = [call EXCEPT ![c].pc = pc]
Done(c) == call' = [call EXCEPT ![c] = NoCall]

\* _gate lets only a turn of the owner's through; the authorization header it
\* fetches takes time.
begin_call(c, t, kind, d) ==
    /\ call[c] = NoCall /\ turn[t].state = "running" /\ t \in bound
    /\ (kind = "create") <=> (gmail[d] = "none")
    /\ call' = [call EXCEPT ![c] = [NoCall EXCEPT !.kind = kind, !.turn = t, !.draft = d, !.pc = "gated"]]
    /\ UNCHANGED <<owner, turn, bound, snapshot, newer, gate, gmail, edits, hist>>

\* A draft action is refused, or a request of it fails or is not answered.
draft_gives_up(c) ==
    /\ call[c].kind \in {"create", "update", "show", "delete"}
    /\ Done(c)
    /\ UNCHANGED <<owner, turn, bound, snapshot, newer, gate, gmail, edits, hist>>

create(c, v) ==
    /\ At(c, "create", "gated") /\ gmail[call[c].draft] = "none"
    /\ gmail' = [gmail EXCEPT ![call[c].draft] = v]
    /\ Goto(c, "created")
    /\ UNCHANGED <<owner, turn, bound, snapshot, newer, gate, edits, hist>>

remember_own(c) ==
    /\ At(c, "create", "created")
    /\ own' = [own EXCEPT ![Session(c)] = @ \union {call[c].draft}]
    /\ Goto(c, "fetching")
    /\ UNCHANGED <<owner, turn, bound, snapshot, newer, pending, auth, gmail, edits, hist>>

Owns(c) == call[c].draft \in own[Session(c)]
load_own(c) ==
    /\ At(c, "update", "gated") \/ At(c, "show", "gated")
    /\ Owns(c) /\ There(call[c].draft)
    /\ call' = [call EXCEPT ![c].pc = IF call[c].kind = "show" THEN "fetched" ELSE "loaded",
                            ![c].content = gmail[call[c].draft]]
    /\ UNCHANGED <<owner, turn, bound, snapshot, newer, gate, gmail, edits, hist>>

put(c, v) ==
    /\ At(c, "update", "loaded") /\ There(call[c].draft)
    /\ edits < MaxEdits /\ edits' = edits + 1
    /\ gmail' = [gmail EXCEPT ![call[c].draft] = v]
    /\ Goto(c, "fetching")
    /\ UNCHANGED <<owner, turn, bound, snapshot, newer, gate, hist>>

fetch_draft(c) ==
    /\ call[c].kind \in {"create", "update"} /\ call[c].pc = "fetching"
    /\ There(call[c].draft)
    /\ call' = [call EXCEPT ![c].pc = "fetched", ![c].content = gmail[call[c].draft]]
    /\ UNCHANGED <<owner, turn, bound, snapshot, newer, gate, gmail, edits, hist>>

Cleared(s) == Of(s)

\* present: the draft of the session is replaced and is to be reviewed again;
\* expired drafts of other sessions go.
present(c) ==
    LET s == Session(c) IN
    /\ call[c].kind # "send" /\ call[c].pc = "fetched"
    /\ pending' = [o \in Sessions |->
         IF o = s THEN [draft |-> call[c].draft, content |-> call[c].content,
                        turn |-> call[c].turn, review |-> "no"]
         ELSE IF pending[o].review = "expired" THEN NoDraft
         ELSE pending[o]]
    /\ own' = [own EXCEPT ![s] = @ \union {call[c].draft}]
    /\ auth' = [t \in Turns |-> IF t \in Cleared(s) THEN NoAuth ELSE auth[t]]
    /\ Done(c)
    /\ UNCHANGED <<owner, turn, bound, snapshot, newer, gmail, edits, hist>>

drop_pending(s, d) ==
    /\ pending' = IF pending[s].draft = d THEN [pending EXCEPT ![s] = NoDraft] ELSE pending
    /\ own' = [own EXCEPT ![s] = @ \ {d}]

\* current_turn_text, from the record and the newer rows.
DeleteAsked(t) ==
    /\ snapshot[t] = "read"
    /\ turn[t].line = "delete" \/ \E n \in DOMAIN newer[t] : newer[t][n] = "delete"

erase(c) ==
    /\ At(c, "delete", "gated") /\ Owns(c) /\ DeleteAsked(call[c].turn) /\ There(call[c].draft)
    /\ gmail' = [gmail EXCEPT ![call[c].draft] = "gone"]
    /\ Goto(c, "erased")
    /\ UNCHANGED <<owner, turn, bound, snapshot, newer, gate, edits, hist>>
erased(c) ==
    /\ At(c, "delete", "erased")
    /\ drop_pending(Session(c), call[c].draft)
    /\ Done(c)
    /\ UNCHANGED <<owner, turn, bound, snapshot, newer, auth, gmail, edits, hist>>

-----------------------------------------------------------------------------
(* gmail_send_draft. *)

Authorized(c) ==
    LET s == Session(c)
        a == auth[call[c].turn]
    IN /\ Reviewed(s) /\ pending[s].draft = call[c].draft
       /\ a # NoAuth /\ ~a.used /\ a.draft = call[c].draft /\ a.content = pending[s].content

Used(a) == [a EXCEPT !.used = TRUE]

\* begin_send: consumed before Gmail is called; content is that of the grant.
begin_send(c) ==
    /\ At(c, "send", "gated") /\ Authorized(c)
    /\ auth' = [auth EXCEPT ![call[c].turn] = Used(@)]
    /\ call' = [call EXCEPT ![c].pc = "granted", ![c].content = auth[call[c].turn].content]
    /\ UNCHANGED <<owner, turn, bound, snapshot, newer, pending, own, gmail, edits, hist>>
send_refused(c) ==
    /\ At(c, "send", "gated")
    /\ Done(c)
    /\ UNCHANGED <<owner, turn, bound, snapshot, newer, gate, gmail, edits, hist>>

send_fetch(c) ==
    /\ At(c, "send", "granted")
    /\ There(call[c].draft)
    /\ call' = [call EXCEPT ![c].pc = "fetched", ![c].got = gmail[call[c].draft]]
    /\ UNCHANGED <<owner, turn, bound, snapshot, newer, gate, gmail, edits, hist>>

\* (mutant) the draft is sent as Gmail has it
Matches_Any(c) == Reviewed(Session(c))
Matches(c) ==
    /\ Reviewed(Session(c)) /\ call[c].got = pending[Session(c)].content
    /\ call[c].got = call[c].content
send_matches(c) ==
    /\ At(c, "send", "fetched") /\ Matches(c)
    /\ Goto(c, "matched")
    /\ UNCHANGED <<owner, turn, bound, snapshot, newer, gate, gmail, edits, hist>>

\* (mutant) a snapshot that is missing counts as no change
turn_changed_Lenient(t) == snapshot[t] = "read" /\ newer[t] \notin {<<>>, <<"go">>}
turn_changed(t) == snapshot[t] # "read" \/ newer[t] \notin {<<>>, <<"go">>}
send_rechecks(c) ==
    /\ At(c, "send", "matched") /\ ~turn_changed(call[c].turn)
    /\ Goto(c, "issued")
    /\ UNCHANGED <<owner, turn, bound, snapshot, newer, gate, gmail, edits, hist>>

clear_authorization(t) == auth' = [auth EXCEPT ![t] = NoAuth]

\* A refusal or a failed request: fetch_failed, attachment, not_reviewed,
\* content_changed, turn_changed, send_failed, with or without the message sent.
send_fails(c) ==
    /\ call[c].kind = "send" /\ call[c].pc # "gated"
    /\ call[c].pc = "fetched" => ~Matches(c)
    /\ clear_authorization(call[c].turn)
    /\ Done(c)
    /\ UNCHANGED <<owner, turn, bound, snapshot, newer, pending, own, gmail, edits, hist>>

\* drafts.send names the draft and not its content: Gmail sends what it has, and
\* takes the draft away.
drafts_send(c) ==
    LET t == call[c].turn IN
    /\ At(c, "send", "issued") /\ There(call[c].draft)
    /\ sent' = sent \union {<<turn[t].session, call[c].got, t, gmail[call[c].draft]>>}
    /\ gmail' = [gmail EXCEPT ![call[c].draft] = "gone"]
    /\ Goto(c, "sent")
    /\ UNCHANGED <<owner, turn, bound, snapshot, newer, gate, edits, heard, approvals>>
send_done(c) ==
    /\ At(c, "send", "sent")
    /\ clear_authorization(call[c].turn) /\ drop_pending(Session(c), call[c].draft)
    /\ Done(c)
    /\ UNCHANGED <<owner, turn, bound, snapshot, newer, gmail, edits, hist>>

-----------------------------------------------------------------------------
\* The owner edits a draft at Gmail.
Edit(d, v) ==
    /\ There(d) /\ v # gmail[d]
    /\ edits < MaxEdits /\ edits' = edits + 1
    /\ gmail' = [gmail EXCEPT ![d] = v]
    /\ UNCHANGED <<owner, turn, bound, snapshot, newer, gate, call, hist>>

\* Everything of this is process memory.
Restart ==
    /\ \E s \in Sessions : Active(s) # {}
    /\ ticket' = [s \in Sessions |-> [l \in Lines |-> 0]]
    /\ rpc' = [s \in Sessions |-> NoRpc] /\ queue' = [s \in Sessions |-> "none"]
    /\ turn' = [t \in Turns |-> IF turn[t].state = "none" THEN NoTurn
                               ELSE [turn[t] EXCEPT !.state = "over", !.flushed = FALSE]]
    /\ newer' = [t \in Turns |-> <<>>]
    /\ bound' = {} /\ snapshot' = [t \in Turns |-> "none"]
    /\ pending' = [s \in Sessions |-> NoDraft] /\ own' = [s \in Sessions |-> {}]
    /\ auth' = [t \in Turns |-> NoAuth] /\ call' = [c \in Calls |-> NoCall]
    /\ UNCHANGED <<lines, gmail, edits, hist>>

Init ==
    /\ ticket = [s \in Sessions |-> [l \in Lines |-> 0]]
    /\ lines = [s \in Sessions |-> [l \in Lines |-> 0]]
    /\ rpc = [s \in Sessions |-> NoRpc] /\ queue = [s \in Sessions |-> "none"]
    /\ turn = [t \in Turns |-> NoTurn] /\ bound = {}
    /\ snapshot = [t \in Turns |-> "none"] /\ newer = [t \in Turns |-> <<>>]
    /\ pending = [s \in Sessions |-> NoDraft] /\ own = [s \in Sessions |-> {}]
    /\ auth = [t \in Turns |-> NoAuth] /\ call = [c \in Calls |-> NoCall]
    /\ gmail = [d \in Drafts |-> "none"] /\ edits = 0
    /\ heard = {} /\ sent = {} /\ approvals = {}

Submit == \E s \in Sessions :
    \/ \E line \in Lines : mint(s, line) \/ TicketExpires(s, line)
    \/ HandlerStarts(s) \/ HandlerQueues(s) \/ HandlerRedirects(s) \/ HandlerRefuses(s)
    \/ Dispatched(s) \/ Drain(s) \/ Synthetic(s)
Hooks ==
    \/ \E t \in Turns :
         \/ \E flushed, readable \in BOOLEAN : pre_llm_call(t, flushed, readable)
         \/ Live(t) /\ \E said \in {"none", pending[turn[t].session].content} : post_llm_call(t, said)
         \/ RowFlushed(t) \/ BoundExpires(t) \/ Interrupt(t) \/ on_session_end(t)
    \/ \E s \in Sessions : ReviewExpires(s)
DraftTool == \E c \in Calls :
    \/ \E t \in Turns, d \in Drafts, kind \in {"create", "update", "show", "delete"} :
         begin_call(c, t, kind, d)
    \/ \E v \in Contents : create(c, v) \/ put(c, v)
    \/ remember_own(c) \/ load_own(c) \/ fetch_draft(c) \/ present(c) \/ erase(c) \/ erased(c)
    \/ draft_gives_up(c)
SendTool == \E c \in Calls :
    \/ \E t \in Turns, d \in Drafts : begin_call(c, t, "send", d)
    \/ begin_send(c) \/ send_refused(c) \/ send_fetch(c) \/ send_matches(c) \/ send_rechecks(c)
    \/ send_fails(c) \/ drafts_send(c) \/ send_done(c)
World == Restart \/ \E d \in Drafts, v \in Contents : Edit(d, v)

Next == Submit \/ Hooks \/ DraftTool \/ SendTool \/ World
Spec == Init /\ [][Next]_vars

-----------------------------------------------------------------------------
\* Every variable keeps its type, and only turns under way are the owner's.
TurnLines == {"go", "delete", Merged}
TurnStates == {"none", "starting", "running", "stopping", "over"}
RpcRows == [line : Lines \union {"none"},
            state : {"none", "asked", "streaming", "queued", "refused"}]
TurnRows == [session : Sessions \union {"none"}, line : TurnLines \union {"none"},
             state : TurnStates, flushed : BOOLEAN]
DraftRows == [draft : Drafts \union {"none"}, content : Contents \union {"none"},
              turn : Turns \union {0}, review : {"no", "live", "expired"}]
AuthRows == [draft : Drafts \union {"none"}, content : Contents \union {"none"},
             session : Sessions \union {"none"}, used : BOOLEAN]
CallRows == [kind : {"none", "create", "update", "show", "delete", "send"},
             turn : Turns \union {0}, draft : Drafts \union {"none"},
             content : Contents \union {"none"}, got : Contents \union {"none"},
             pc : {"idle", "gated", "created", "fetching", "loaded", "fetched",
                   "erased", "granted", "matched", "issued", "sent"}]
TypeOK ==
    /\ ticket \in [Sessions -> [Lines -> 0..MaxLines]]
    /\ lines \in [Sessions -> [Lines -> 0..MaxLines]]
    /\ rpc \in [Sessions -> RpcRows] /\ queue \in [Sessions -> Lines \union {"none", Merged}]
    /\ turn \in [Turns -> TurnRows]
    /\ bound \subseteq {t \in Turns : turn[t].state \in {"running", "stopping"}}
    /\ snapshot \in [Turns -> {"none", "read", "failed"}]
    /\ newer \in [Turns -> Seq(TurnLines)] /\ \A t \in Turns : Len(newer[t]) <= 2
    /\ pending \in [Sessions -> DraftRows] /\ own \in [Sessions -> SUBSET Drafts]
    /\ auth \in [Turns -> AuthRows] /\ call \in [Calls -> CallRows]
    /\ gmail \in [Drafts -> Contents \union {"none", "gone"}] /\ edits \in 0..MaxEdits
    /\ heard \subseteq Sessions \X Contents \X Turns
    /\ sent \subseteq Sessions \X Contents \X Turns \X Contents
    /\ approvals \subseteq Turns

\* A turn is the owner's for one line that he submitted: tickets and turns
\* that were authorized never outnumber his passphrases, whatever the queue,
\* a correction or a turn of Hermes's own does between mint, hook and revoke
\* (origin._dispatch, consume_for_hook).
OneLineOneApproval == \A s \in Sessions :
    ticket[s]["go"] + Cardinality({t \in approvals : turn[t].session = s}) <= lines[s]["go"]

\* A send holds the approval of its turn from begin_send to the end of the call.
Holding(c) == call[c].kind = "send" /\ call[c].pc \in {"granted", "fetched", "matched", "issued", "sent"}

\* One approval serves one call of gmail_send_draft: calls that overlap never
\* both hold it, and none is left to take while one does (begin_send).
OneGrant == \A c \in Calls : Holding(c) =>
    /\ \A b \in Calls : Holding(b) /\ call[b].turn = call[c].turn => b = c
    /\ auth[call[c].turn] = NoAuth \/ auth[call[c].turn].used

\* The content that the gate lets go was read back in an earlier turn of the
\* same session and approved in this one, whatever was shown, edited or
\* interrupted in between (P8-D05, P8-D06).
SentReviewed == \A m \in sent :
    LET s == m[1] v == m[2] t == m[3] IN
    /\ t \in approvals /\ turn[t].line = "go"
    /\ \E u \in Turns : u < t /\ <<s, v, u>> \in heard

\* An approval that can still be used is for the reviewed draft of its session,
\* as it was reviewed: whoever presents a draft anew, in this turn or a later
\* one, takes older approvals away (present, clear_session, drop_pending).
ApprovalMatches == \A t \in Turns :
    LET a == auth[t] d == pending[a.session] IN
    a # NoAuth /\ ~a.used =>
      d = NoDraft \/ (d.review # "no" /\ d.draft = a.draft /\ d.content = a.content)

\* A correction that reached the table, or an interrupt, before the last
\* re-check stops the send (turn_changed; SD-G6).
CancelHolds ==
    [][\A c \in Calls : call[c].pc = "matched" /\ call'[c].pc = "issued" =>
         LET t == call[c].turn IN
         turn[t].state = "running" /\ newer[t] \in {<<>>, <<"go">>}]_vars

\* A reviewed draft waits for the owner: only a call that presents, sends or
\* deletes a draft, an interrupt or a restart takes it from the session, and
\* never the end of a turn (on_session_end_hook: "Clearing here made the next
\* turn not_reviewed").
ReviewKept ==
    [][\A s \in Sessions : Reviewed(s) /\ pending'[s].review = "no" =>
         \/ \E c \in Calls : call[c] # NoCall /\ Session(c) = s /\ call'[c] = NoCall
         \/ \E t \in Active(s) : turn[t].state = "running" /\ turn'[t].state = "stopping"
         \/ rpc' = [o \in Sessions |-> NoRpc] /\ bound' = {} /\ own'[s] = {}]_vars

-----------------------------------------------------------------------------
(* What makes the properties above inductive. *)

Submitted == \A s \in Sessions :
    /\ rpc[s].state # "none" => rpc[s].line \in Lines
    /\ \A line \in Lines : ticket[s][line] <= lines[s][line]

Entered(t) == turn[t].state # "none"
\* Turns begin in the order of their ids, and those of a session do not overlap.
TurnsInOrder == \A t, u \in Turns :
    /\ Entered(t) => turn[t].session \in Sessions /\ turn[t].line \in TurnLines
    /\ turn[t].state = "stopping" => snapshot[t] # "read"
    /\ u < t /\ Entered(t) => Entered(u)
    /\ Live(t) /\ Entered(u) /\ u # t /\ turn[u].session = turn[t].session
         => u < t /\ turn[u].state = "over"

ApprovedTurns == \A t \in approvals :
    turn[t].state \in {"running", "stopping", "over"} /\ turn[t].line = "go"

ReadBack(s, v, t) == \E u \in Turns : u < t /\ <<s, v, u>> \in heard

Reviews == \A s \in Sessions : LET d == pending[s] IN
    /\ d = NoDraft \/ (d.draft \in Drafts /\ d.content \in Contents /\ d.turn \in Turns)
    /\ d.review # "no" =>
         /\ d # NoDraft /\ <<s, d.content, d.turn>> \in heard
         /\ turn[d.turn].session = s /\ turn[d.turn].state = "over"

Auths == \A t \in Turns : auth[t] # NoAuth =>
    /\ t \in approvals /\ auth[t].session = turn[t].session
    /\ auth[t].content \in Contents /\ ReadBack(turn[t].session, auth[t].content, t)

CallsAlive == \A c \in Calls :
    \/ call[c] = NoCall
    \/ /\ call[c].turn \in Turns /\ turn[call[c].turn].state \in {"running", "stopping"}
       /\ call[c].draft \in Drafts /\ call[c].kind # "none" /\ call[c].pc # "idle"
       /\ call[c].pc = "fetched" /\ call[c].kind # "send" => call[c].content \in Contents

Grants == \A c \in Calls : Holding(c) =>
    /\ call[c].turn \in approvals /\ call[c].content \in Contents
    /\ ReadBack(Session(c), call[c].content, call[c].turn)
    /\ call[c].pc \in {"matched", "issued", "sent"} => call[c].got = call[c].content

IInv ==
    /\ TypeOK /\ Submitted /\ TurnsInOrder /\ ApprovedTurns /\ Reviews /\ Auths
    /\ CallsAlive /\ Grants /\ OneGrant /\ ApprovalMatches /\ SentReviewed
    /\ OneLineOneApproval

-----------------------------------------------------------------------------
\* The approval of a turn is that of the call that holds it, or waits for one.
Holders(t) == {c \in Calls : Holding(c) /\ call[c].pc # "sent" /\ call[c].turn = t}
Unused(t) == auth[t] # NoAuth /\ ~auth[t].used
Approvals == [t \in Turns |->
    {<<turn[t].session, call[c].content>> : c \in Holders(t)}
    \union (IF Unused(t) THEN {<<turn[t].session, auth[t].content>>} ELSE {})]

\* The gate implements one approval, one send.
Approval == INSTANCE SendApproval WITH
    Messages <- Sessions \X Contents,
    readBack <- {<<<<h[1], h[2]>>, h[3]>> : h \in heard},
    approval <- Approvals,
    spent <- approvals,
    sent <- {<<<<m[1], m[2]>>, m[3]>> : m \in sent}
ApprovalSpec == Approval!Spec
=============================================================================
