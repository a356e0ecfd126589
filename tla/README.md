# Zola: a TLA+ verification project

Zola is a personal assistant for one owner. A Windows client (C#) supervises a
gateway and helper processes; plugins of the gateway (Python) read mail and
calendar, keep a store of items worth telling, and forget what the owner asks
to have forgotten; an Android companion (Kotlin) hands the texts of the owner's
phone to the PC. This directory models the parts whose correctness depends on
orders of events that no test writes down.

    tlc -workers 2 -config <Run>.cfg <Module>     model-checks a run
    tlapm <Module>_proofs.tla                     checks the proofs of a module

`PROJECT.json` lists the components, the runs with their properties, the
mutants that show each property can fail, the source lines of every definition,
the findings, the hazards and the theorems.

## 1. Inventory

### Phone companion (android-companion)

*State.* `PcMemory` for every PC: pairing, and for each id space (sms, mms) the
cursor, the highest id seen, the pending seed, revisions, fingerprints and a list
of slots; all of it saved before a frame is sent. The socket and the payloads
built last are lost with the process. *Operations.* `onOpen`, `onMessage` (bind,
ok, ping, ack), `onClosing`, `onProviderChanged`, `tick`, `boot`; they run one at
a time on one worker. *Interaction.* Frames to the PC, acks back; the message
provider changes under it at any time. *Hard.* Crash between save and send, resend
after a drop, a window of four, a query that returns at most fifty rows, revisions
of a text that was already acknowledged, rows that vanish or come back. *Correct
when* a text is settled only if the PC took it in, was told to forget it or said
that it will not have it, or its row is gone from the phone; the cursor passes
none that has neither a slot nor such an answer; a revision number is never used
for two contents; and a text gets its answer in the end, as long as the phone goes
on to scan (the conditions are in section 6).

Beside the engine: pairing with a code on screen, supersede of an old socket by
a new one, keepalive; the **code handle** (a code that arrives by text and is
redeemed on the PC); the **notice book** (notifications posted, removed,
posted again).

### PC phone intake and the item store (zola_phone, zola_workspace)

*State.* SQLite: `items`, `item_attempts`, `deliveries`, `loops`, tombstones,
cursors. Every operation is one `BEGIN IMMEDIATE` transaction.
*Callers.* The watcher process (inserts, binds matches), the ranker worker, the
hooks of a conversation turn, the speech RPCs of the client, the phone intake,
the hourly purge, and the owner's tools (acknowledge, dismiss, forget).
*Hard.* All of them run concurrently, each holds ids it read earlier, and any
may die between two of its calls; leases give back what a dead one held.
*Correct when* an item is in the hands of at most one ranker and one speaker, a
line that may have been heard is not spoken again, what was emptied or
forgotten does not come back, and nothing that has to go by a deadline stays.

### Proactive speech (client)

`ProactiveDeliveryCoordinator` polls, claims, plays and reports;
`ProactiveSpeechSession` holds the one delivery under way. *Hard:* the owner
speaks or types between any two of its steps, replies are lost or late, the
outcome has to be retried, the client dies. *Correct when* a line is heard at
most once, delivered is reported only of a line that was heard to its end, and
an interrupted line is never reported as delivered.

### Memory (zola_memory)

*State.* The notebook files `USER.md` and `MEMORY.md`; the memory store (SQLite)
with facts that index the notebook, the queue of turns, episodes, entities, a
generation that every erase raises, the lease of the consolidator; in the
process, a session's candidates and hold, marks of turns to drop, attempt
counts and the coalesced request of the runner.
*Operations.* The memory tool writes the notebook and is mirrored into the facts
(`on_memory_write`); the **file check** compares facts and files;
**consolidation** turns queued turns into episodes outside every lock;
**forget_memory** searches, asks, and erases from the proactive store, the
memory store and the notebook, one after another; `sync_turn` queues a turn or
drops it.
*Hard.* A consolidation waits for its model while a subject is erased; two
runners share a lease; a process dies between two stores; a turn is synced long
after the hold it fell under has ended. *Correct when* nothing that was erased
comes back in an episode, a turn is settled once, a turn about forgetting becomes
memory only if another one used up the mark it was to be dropped by, and what a
confirm answers agrees with what its erases did.

### Watcher process and watches (zola_workspace)

*State.* For each source a cursor, the calendar events seen, counts of messages
that cannot be read (all in the item store), and the open watches (`loops`). The
conversation half keeps in its process the open question, the watches it listed
and the people a pronoun may mean. *Operations.* A poll of Gmail by history, or by
a list when the history has expired; a poll of the calendar by sync token; each
new message or change is inserted, matched with the watches, told to end them, and
only then the cursor moves. `zola_loops` creates, lists and closes watches, asks
the owner what he meant and takes his next words for the answer. *Hard.* Every one
of these is a transaction of its own and the process may die between two; mail
comes while a list is read; the owner closes a watch or an item in between; the
address book changes between a question and its yes. *Correct when* the cursor
passes nothing that is not in the store but what Gmail refuses, and catches up
unless a message fails to be read in a way that no attempt counts; a matching
watch is bound and told, no watch ends in silence, and a yes does what was asked.

### Surfacing in a turn (zola_workspace/surface.py)

On the owner's first turn after a gap one hook puts items and lapsed watches into
the turn, and a hook after the model counts them as told. *Hard:* two sessions may
do so at once over one store, either hook may be refused half way, the turn may
die in between. *Correct when* what is counted as told was shown by the turn that
counts it, a turn that dies or is refused before the model leaves the gap open for
what is not counted, and a session is tainted before it reads retrieved mail. A
turn that ended closes the gap, also when it counted nothing (section 5), so not
everything comes again until it is counted.

### Send gate, origin tickets and draft tools (zola_workspace)

*State*, all of it in the memory of the serve process. `origin.py`: tickets by
session and line, turns bound to the owner. `send_gate.py`: the presented draft
of a session, its own drafts, the authorization and the row snapshot of a turn.
*Operations.* The wrap around `prompt.submit` mints and revokes tickets; the
hooks `pre_llm_call`, `post_llm_call`, `on_session_end`, `agent_loop_stopped`
take tickets, authorize, review and clear; the tools `gmail_draft` and
`gmail_send_draft` present, delete and send.
*Hard.* Tool calls are threads that wait for Gmail between any two of their
steps; the owner corrects, interrupts or edits meanwhile; a line may start a
turn, wait in a queue, merge with another or never start one; turns may end with
no reply. *Correct when* a message leaves only when the owner approved, in this
turn, what was read back to him in an earlier one, and one approval sends once.

### Taint of a session (zola_workspace/taint.py, guards.py)

*State.* `taint.sqlite`, the ids of sessions that were given content of mail,
calendar, drive or contacts; Hermes' `state.db`, where a session names its
parent; the record of the turn. *Operations.* A tool marks the session before it
returns content (`mark_then_frame`); the hook before the model marks it again by
its present id; the guard holds a save to the owner's own words
(`evaluate_memory_taint`); a consolidation asks for the source to be named
(`_needs_workspace_attribution`). *Hard:* compression may go on under a new
session id, in the middle of a turn too, so that record, task, guard and queued
row name different ids; what joins them is a walk over a database that may be
locked. *Correct when* nothing becomes memory from a context that holds content,
but in the owner's words or with its source.

### Windows client

**Supervision** (restart budget and backoff of gateway and helpers, stop),
**chat socket and request broker** (requests of the server that wait for the
owner, over reconnects), **voice capture** (who may open the microphone and
when it must be closed). Window, presence and rendering keep no protocol.

Not modelled on principle: drawing and animation, Google API plumbing, pure
text functions (code recognition, phrase building, calculator), encodings and
signatures, Android screens. `PROJECT.json` gives the reason for each.

## 2. Plan

The order is by what would hurt most: first lost or resurrected data, then
speech and sends, then the rest.

| step | module | composes | state |
|---|---|---|---|
| 1 | `PhoneDelivery`, abstract `TextIntake` | engine, link, intake | done, refinement proved |
| 2 | `ProactiveItem` | store with all its callers | done, safety proved |
| 3 | `SpeechDelivery` | client over `ProactiveItem` | done, safety proved |
| 4 | `SendGate`, abstract `SendApproval` | tickets, hooks, tools, Gmail | done, refinement proved |
| 5 | `Memory` | notebook, facts, turns, episodes, consolidators | done, safety proved |
| 6 | `Forget` | conversation, proactive store, memory store, notebook | done, safety proved |
| 7 | `Watcher` | Gmail, calendar, item store, watches | done, safety proved |
| 8 | `Watch` | conversation, watches, address book | done, safety proved |
| 9 | `Surface` | hooks of two sessions over the item store | done, safety proved |
| 10 | `Taint` | guards of memory, consolidation, Hermes' sessions | done, safety proved |
| 11 | `VoiceCapture` | capture, playback, microphone | left |
| 12 | `PhoneLink` | pairing, supersede, sequence numbers | left |
| 13 | `RequestBroker`, `Supervision` | server requests, child processes | left |
| 14 | `NoticeBook`, `CodeHandle` | notices, codes | left |

Theorems left: an abstract specification of an item's delivery for
`SpeechDelivery` to implement, and the refinement of the modules still to come.

## 3. Modules, and how they correspond to the code

`TextIntake` ← implemented by `PhoneDelivery` ← proofs in `PhoneDelivery_proofs`;
`ProactiveItem` ← extended by `SpeechDelivery` and, for TLC, by `MCProactiveItem`,
proofs of both in `SpeechDelivery_proofs`, the client's on top of the store's;
`SendApproval` ← implemented by `SendGate` ←
`MCSendGate` for TLC, proofs in `SendGate_proofs`. `Memory`, `Forget`, `Watcher`,
`Watch`, `Surface` and `Taint` stand alone, each with an `MC` module that chooses
its constants; `Memory_proofs`, `Forget_proofs`, `Watcher_proofs` and `Taint_proofs`
extend one of them each. `SurfaceWatch_proofs` extends both modules of the owner's
turn, which share no variable; `Watch` names its variables and its specification
apart from those of `Surface` for that. They meet in the code at the item store
and the memory store; each takes what the others do there as actions that may
happen at any time (`Arrive`, `CloseItem`, `Speak`), which is more than they do.

In every module a definition whose comment starts with `(mutant)` or `Mutant:` is
no part of the specification. It is a plausible bug of the definition after it,
kept to show that the property named beside it in `PROJECT.json` can fail.

### PhoneDelivery and TextIntake

One id space of the engine (sms and mms run the same code), one PC.

| model | code |
|---|---|
| `cursor`, `high`, `stopped`, `pending`, `rev`, `hash`, `slot`, `deleted` | `PcMemory` and `SlotState`, saved before each frame |
| `work` | what is left of the handler that runs; a handler starts only when it is `Idle` |
| `dirty`, `opened`, `body` in a slot | process memory of the engine |
| `row`, `top` | the phone's message provider (external) |
| `item`, `tomb`, `purged` | `ingest_phone_item`'s rows and tombstones |
| `refused` (history) | the texts answered with "rejected" |
| `acceptBind`, `acceptOk`, `onOpen`, `tick`, `onPing`, `onAck`, `onProviderChanged`, `boot` | the handlers of `CompanionEngine.kt` |
| `Touch` | a change of the provider that is about other rows, which starts a scan as well |
| `seedStep`, `scanStep`, `admitStep`, `drainStep`, `resendStep`, `tickStep` | one text of the handler's walk: save, then send |
| `ingest`, `pcReceive`, `pcRefuse`, `pcLocked`, `pcDies` | `runtime.py` with the outcomes of the transaction: taken in, rejected by a check of the payload, locked |

The step inside a handler is one text because the process may die, or an answer
come, between two texts, and nothing else can interrupt it (one worker thread).
Time is facts: `ripe` says that a slot's retry bound has passed. Frames are kept
in order on one connection; signatures, keepalive and pairing are not modelled.

### ProactiveItem

The store gives each operation one `BEGIN IMMEDIATE` transaction, so each is one
action, recovery and normalisation inside it included. Its callers (watcher,
ranker, turn hooks, speech RPCs, owner's tools, purge) are threads and processes
that keep ids and come late; the model therefore lets any caller use any attempt
id that was ever issued. A row keeps the columns the operations read, and the
clock is kept as facts: a lease is `live`, a surface attempt `fresh`, an
injection `rested`, a row has an `age`; clock actions change them.

### SpeechDelivery

`SpeechDelivery` extends `ProactiveItem` with the client: `client` holds the
fields of `ProactiveDeliveryCoordinator` by name, `calls` the RPCs of
`ChatSpeechGateway`, `audio` the line in `voice.tts` and its player. Every
handler that runs under the reservation lock is one action, and every RPC is
three: sent, carried out, answered or given up. A given-up call may still be
carried out. *Assumed:* a line that was sent is played or lost before a later
poll claims another (polls are 20 s apart, `Poll`).

### SendGate and SendApproval

| model | code |
|---|---|
| `ticket`, `bound` | `origin._pending`, `origin._bound` |
| `mint`, `Dispatched`, `KeepTicket` | `_dispatch`: mint, handler, keep or revoke |
| `Handler*`, `Drain`, `Synthetic`, `RowFlushed` | Hermes: what `prompt.submit` does with a line, the queue, turns nobody typed, user rows (external) |
| `pre_llm_call` | `pre_llm_call_hook`: ticket, then snapshot, then authorization |
| `post_llm_call`, `on_session_end`, `Interrupt` | the three ends of a turn |
| `pending`, `own`, `auth`, `snapshot` | `_pending`, `_own`, `_auths`, `_snapshots` |
| `create` ... `present`, `erase`, `erased` | the steps of `gmail_draft` around its HTTP requests |
| `begin_send` ... `send_done`, `send_fails` | the steps of `_send_impl` |
| `gmail`, `Edit`, `drafts_send` | the drafts at Gmail, the owner's edits (external) |

A content stands for the canonical form that is hashed. A reply that reads a
draft back repeats its content; for a body over 400 characters the code asks for
subject and recipients only, and such drafts are outside the model. A request
whose answer is lost is a write at Gmail followed by `draft_gives_up` or
`send_fails`. A turn older than 900 seconds loses its binding (`BoundExpires`);
that its record is gone as well, in the middle of a call, is not modelled.

`SendApproval` is the promise without the machinery: messages read back, one
approval per turn, sends. The refinement mapping lets the approval of a turn be
its unused authorization or, once a send took it, the content that send holds.

### Memory

| model | code |
|---|---|
| `file`, `fact`, `notice` | the notebook, the rows of `facts` by id, the memory tool's writes still to be mirrored |
| `recorded`, `erasing`, `wal` | the files the last check's digest is of, the erases of the notebook still to be retried, whether erased text may lie in the WAL |
| `turn`, `episode` | the queue of turns, the episodes with what they refer to |
| `current`, `lease` | the runners whose generation is the store's, the consolidator's lease |
| `open`, `running`, `wake`, `tries`, `job` | the process: an initialized provider, the runner under way, the coalesced request, attempts, what a runner has read |
| `written`, `gone`, `commits` | how many turns there were; history, which no action reads |
| `ToolAdd`, `ToolRemove`, `ToolReplace`, `on_memory_write` | the memory tool (external), then its mirror in `fact_index.py` |
| `run_file_check`, `Reconcile`, `Doomed` | `run_file_check`: skip, compare, erase what is gone, insert what is new |
| `erase_fact`, `forget_cascade`, `try_pending_sanitize` | the cascade over facts, turns and episodes, and its retry |
| `request_consolidate`, `run_consolidation`, `validate_episodes`, `_commit`, `discard`, `model_fails` | one runner: request and coalescing, lease, model call outside the lock, checks, commit, attempts |
| `write_pending`, `sync_turn`, `initialize`, `quiet_timer` | what queues turns and starts a runner |

A text is a model value, and a row is about the text whose terms it matches.
Every operation holds its connection's lock, so it is one action; only the model
call of a consolidation is outside, between the step that reads its rows and
the one that commits. *Assumed:* the generation and the ids behave as numbers
that are never reused, so the model compares sets of ids.

### Forget

| model | code |
|---|---|
| `cands`, `bound`, `asking`, `hold`, `heldTexts`, `drops`, `forgot` | `ForgetSessionState` |
| `meta` | `meta.forget_hold` in the memory store |
| `OwnersTurn`, `OtherTurn`, `TurnEnds`, `sync_turn` | the hooks of a turn, and `turn_disposition`: a mark goes with the first turn synced that has its text or contains it (`Within`) |
| `ahead` (history) | which turns were waiting for their sync when a later one began |
| `pre_tool_call_hook`, `origin_refused` | the token of a call, or its refusal |
| `search`, `confirm`, `confirm_refused` | the halves of `handle_forget_memory` up to the first erase |
| `_run_bound_proactive`, `erase_episodes`, `_delete_named_entities`, `_sweep_notebook` | the four erases of a confirm, in order |
| `take_forget_widen`, `memory_remove` | the yes to "forget them entirely?", the memory tool |

The provider's lock is held over a hook and over a whole tool call; between the
steps of a confirm only a writer of another database, a failure or a death can
come. The history variables (`talk`, `kept`, `due`, ...) are read by no action.
`due` is what a confirm owes: the rows of its targets, without the number of
someone else that is confirmed beside a contact, which the handler passes over
(`PassedOver`: `elif number_targets` comes after the branch of the contact).

### Watcher

Messages are numbered in order of arrival, so a history id and the count of mail
are one number; a change of an event is its stamp. One poll is under way at a
time and each of its transactions is one action (`insert_mail`, `_apply_event`,
`bind_open_loop_match`, `close_loop_from_match`, `save_calendar_event`,
`write_cursor`); `poll` holds what the process keeps between them, and a death
or a failed read loses it (`CutShort`). A message may be *refused* (400, 403, no
record: `note_watcher_reject` counts its attempts up to the cap) or *garbled* (an
answer that does not parse or decode, a status of no class: `read_uncounted` holds
the poll and counts nothing). The owner's side (`OpenLoop`,
`CloseItem`, `EndLoop`) and Google's (`Arrive`, `Leave`, `HistoryExpires`,
`MailAges`, `Change`, `TokensExpire`) move at any time. *Assumed:* the margin of
`_recovery_cutoff_ms` is kept: a poll does not take longer than the margin.

### Watch

A sentence is the record of what the functions that read it find in it: an ask,
a lifetime, a channel, groups, an answer, a name, a number. `loops` are the rows,
`token` the open question (`_confirms`), `listed` and `people` what a number or a
pronoun may refer to. `create_loop` and its parts (`number_watch`,
`person_watch`, `_commit_person_plan`, `_apply_confirmation`) are one action per
outcome; so are `close_listed` and `_close_by_reference`. Between the calls of a
turn the address book may change (`EditBook`), an item with a watch may be told
(`note_session_person`), a watch may be satisfied, lapse or be forgotten, and
the process may restart.

### Surface

`hook[s]` is a session's turn: before the model, at the model, after it. Each
transaction of `_pre_llm` and `_post_llm` is an action (`BeginTurn`,
`write_surface_marker`, `List`, `provisional_select`, `_mark`,
`note_lapse_attempt`, `_finish_text`, `confirm_surface_attempt`,
`mark_surface_confirmed`, ...), any of which may be refused or be the last of the
turn. Clocks are marks that time sets: `GapPasses`, `QuietPasses`, `WindowPasses`.
Items and lapsed watches are rows of two tables, so no id is both. Three variables
are history. `owed`: the items a sealed block told of anew that no turn counted
since. `missed`: the sessions whose turn ended without counting, because it was
refused or too late. `raced`: whether another session's hook was under way when
the gap last opened. `_pending_list` and `_pending_change` are the owner's tool; a
handle is good in the session that listed it.

### Taint

| model | code |
|---|---|
| `root`, `depth` | what `lineage_root` finds in `state.db`, and how many parents it passes |
| `marks` | `taint.sqlite` |
| `tip`, `turn` | the session of now; its turn with the task id and the `TurnRecord` |
| `pending`, `saved` | the turns queued for the consolidator; what was written last |
| `pre_llm_call_hook`, `remark`, `mark_then_frame` | the hook before the model, and a tool that returns content |
| `memory_add`, `skill_manage` | the guard over the memory tool (a batch) and over skills |
| `run_consolidation` | the instructions of the summarizer, which name the source or do not |
| `Rotate`, `NewSession`, `Resume`, `Restart` | what Hermes does with sessions (external) |

`content` (history) is the set of sessions whose context holds content, a child's
with its parent's. A database that is locked is a fault: the mark is then of the
raw ids, the check says "tainted", the hook gives up. Hermes compresses in place
by default; the lineage is for the mode that goes on under a child, which the
model lets happen at any step.

## 4. Runs

| run | bounds | states | what it shows |
|---|---|---|---|
| `delivery` | 2 texts, 2 contents, one may be deleted, forgotten, purged or rejected, window 1, batch 1, 1 fault | 5.9 million | no text settled without an answer or skipped, no revision reused, `TextIntake` implemented |
| `delivery_live` | 2 texts, a batch of 1, any classes, one may be rejected, 2 faults | 297 000 | a text gets its answer while scans go on, unless a whole batch below it is never sent |
| `item` | a mail or a calendar change, 2 attempts, 2 turns | 151 000 | claims match attempts, delivery has evidence, content never comes back, what is under way ends |
| `speech` | 1 item, 2 attempts, 1 fault | 580 000 | spoken once with one verdict, quiet after the owner's stamp, the hold ends |
| `send` | 1 draft, 2 contents, 2 turns, 2 calls, 1 edit | 1.7 million | the gate's properties below and `SendApproval` |
| `memory` | 1 text, 2 runners of one process, 1 turn, 4 fact ids, 1 try, 1 fault, 1 death | 1.8 million | no episode of an erased subject; a turn is settled once |
| `forget` | a contact, its number, a number of nobody, an episode, an entry; 2 turns of 3 messages, one inside another, 3 calls, a hold of 1 turn, 1 arrival, 1 fault, 1 death | 7.7 million | answers agree with the erases, talk of forgetting goes unless its mark is used up, the owner is asked first |
| `watcher` | 2 mails with a refused or a garbled one, or 1 event with 3 changes; a watch on each; 1 fault | 1.2 million | what is new is stored and matched, no watch ends in silence, the cursor catches up unless a garbled message holds it |
| `watch` | 2 contacts, 2 identifiers, 8 sentences, 3 turns, 2 rows, 1 edit of the book | 3.6 million | a yes is the proposal; a watch that made room left its cover to one that stays |
| `surface` | 2 sessions, 2 items, a lapse, 2 surface attempts, 1 delivery, 1 fault | 6.7 million | counted once and only if shown, what closes the gap over what is not counted, tainted first |
| `taint` | 4 session ids, a walk of at most 3, 2 queued turns, 1 fault | 2.5 million | what becomes memory with content in sight is in his words or says its source |

and one run that finds a comment contradicted (section 5).

*Why these bounds are enough.* Most hazards need one party to be late once and
another to act in between, so each run has two of what can be confused (texts,
contents, attempts, calls, turns, runners, sessions, watches) and one fault. A
window and a batch of one make both limits bite with two texts, in both runs of
the phone: one scan reads the lower text only, and a lower row that is never sent
leaves the higher one out. The liveness run has no deletion on the phone, which
may stop the id space (section 5), and no forgetting on the PC, which comes after
the answer. With two attempts a match, which makes a row eligible without a rank,
leaves room for two claims, so that a late caller meets its successor; the other
row of `item` was deleted before, and the store never joins two rows. Two turns
are what an approval needs, three what a question, its answer and a later yes
need. `Memory` needs one text only, because a row is about one text or none, but
four fact ids, so that a fact is erased, written again and erased while two
answers refer to what it was; `Forget` has one subject of each kind that the code
treats apart and a second number, of nobody, which a confirm passes over beside a
contact; two turns, for the mark of one to be used up by the other, of messages
that may be said twice and of which one contains another; and a hold of one turn
so that it expires within them. `ForgetCrash` has three turns. Larger instances
were run once and agreed: `SpeechDelivery` with two faults (3.1 million states)
and with three attempts (5.5 million), `SendGate` with two drafts and one call
(7.1 million).

`MCWatcher` starts with either the mailbox or the calendar at rest. The two share
no row, and no watch covers both, so a step of one does not enable or change a
step of the other, except that one poll runs at a time.

*Deadlock* is not checked for `PhoneDelivery`, `SpeechDelivery`, `SendGate`,
`Forget`, `Watch`, `Surface` and `Taint`: bounded faults, lines and turns run out, and the
system may then be at rest.

*Symmetry.* `MCSendGate` identifies states that differ by a permutation of calls
or of contents, `MCMemory` of the two runners, `MCSurface` of the sessions,
`MCTaint` of the session ids. They are only compared for equality in the code, and
these runs have no liveness property.

### What the properties say

`delivery`. `NothingLost`: the phone stops delivering a text only when the PC took it
in, was told to forget it or rejected it, or its row is gone; a rejection settles it
with nothing stored. `CursorSkipsNone`: what the cursor passes has a slot or such an
answer. `FreshContent`: under the revision that was settled the PC has content as
new as the phone noted. `Delivered` is under the hypotheses of section 6.

`send`. `OneLineOneApproval`: the tickets follow the owner's lines through queue,
merge and correction. `SentReviewed`: what passes the gate was read back in an
earlier turn and approved in this one. `CancelHolds`: a correction or an
interrupt before the last check stops the send.

`memory`. `NoEcho`: no episode is about a subject whose erase has committed,
though the model that wrote it was asked before. `TurnSettledOnce`: a turn ends
in one commit or one discard, whichever of two runners comes first.

`forget`. `AnswerMatchesErases`: "ok" leaves nothing of what was presented, but
entities and the numbers it passes over, and "nothing was changed" is said of no
confirm that erased anything. `ForgetTalkGoes`: a turn about forgetting is queued
for the consolidator only if an earlier turn, synced after it began, has its text
or one around it, and so used its mark up. Expiry, confirm, session switch, death
and late syncs are no exceptions. `AskedFirst`: a list with
several subjects is not erased from in the turn that showed it.

`watcher`. `NewIsStored`, `MatchBound`, `WatchEndsWithEvent`, `CursorCatchesUp`:
the promise of a poll, over deaths between any two of its transactions. The
exceptions are in the comment of each: mail Gmail refuses, older than the recovery
window, or archived before it was matched. `CursorCatchesUp` has a condition, not an
exception: while a message is there that fails uncounted and has to be read
(`HeldUp`), the cursor need not move. A refused message, an expired history and a
closed item are no such condition: the cap or the next poll gets over them.

`watch`. `YesIsTheProposal`: the watch a yes makes is the one the last question
described, also when the address book has changed, and it counts once, in the
next turn at the latest. `CoverStays`: a watch that made room for a wider one left
its channels and its lifetime to a watch that did not make room itself.

`surface`. `CountedWasShown` and `TaintedFirst` as above. `OwedKeepsGapOpen` names
who may close the gap over an item that a block told of, that was not counted
since and could be told: a turn that ended and whose marker stands, if it counted
nothing (`missed`) or the row was not its own, taken by another session or left
out of the block; and a turn with nothing to say that was under way when the gap
opened. A death, a seal, a release and a refusal before the model are not among
them. Each of these exceptions is reached in the run, and the property fails
without it.

`taint`. `KnownSource`: over any number of rotations between the mark and the
check, the guard, the record and the row see the mark by the root they share. The
exception is a mark whose walk failed, see section 5.

## 5. Findings

One run ends in a counterexample to what a comment of the code says.

- `forget_crash`: "a crash between the two databases finishes on the next ticket
  turn" (forget.py:1979). Nothing on the path of the tool records the forget that
  was cut in two, so the episodes stay and the next call does not look for them.

### Disagreements found while modelling, not kept as runs

The modules do what the code does; the properties name these cases as exceptions
or do not claim them.

*Phone.*
- `admit` (CompanionEngine.kt:431) raises the revision of an acknowledged slot
  without clearing `acked` and returns when the window is full: the drain and the
  comparison of hashes then skip it. PHASE10_BUILD_PLAN.md:494 has "a later
  completion is sent as a revision".
- `checkReset` (CompanionEngine.kt:927) takes a lower newest id for a new provider.
  Deleting the newest text does that too: the id space stops for good, with a count
  in the health frame and no way back.
- `onOpen` scans once, "so a text that arrived while the link was down is sent" (:211).
  A scan reads the lowest `QueryPlan.BATCH` rows above the cursor, and neither an ack
  nor the drain scans again: of more than a batch the rest waits for the next change
  of the provider, connection or boot. Rows that are never sent (outbound, spam,
  drafts, and slots that were acknowledged incomplete at their retry bound, which are
  not pruned) stay above the cursor and fill the batch: fifty of them keep every later
  text back for good (`Starved`).
- A text the PC answers "rejected" about (a payload too large, a bad field) is settled
  like one it took in (:551): nothing is stored and only `rejectedCount` tells. The
  properties count it as answered, not as held.
- An answer "locked" is no word the phone knows: the text waits in flight for the next
  connection, as does one whose frame was lost on a connection that stays up.
- `sendSeed` (:373) empties the pending seed before it admits the first row. A
  text that is downloaded late and is dated two days before the newest is set aside
  (:402).

*Item store and speech.*
- `_recover_speech_locked` (proactive_store.py:2843) ends a claim through its open
  attempt; `_forget_subject` redacts a row in flight and releases the attempt, and
  the row stays claimed (docstring at :2888).
- A match that is bound after the ranker answered "ignore" leaves the row
  suppressed (proactive_store.py:4274); DESIGN_DECISIONS.md:1721 has "A loop match
  stays eligible".
- `acknowledge` (:2160) does not ask whether the item is in flight, `dismiss` does.
- `ApplySegmentSample` (TtsPlaybackMonitor.cs:485): when the sampler is first to see
  that serve has died, the line it cut off counts as delivered (:563).

*Send gate.*
- `_send_impl` (gmail.py:1096) compares the draft and then posts its id: an edit in
  between leaves with the message (PHASE8_BUILD_PLAN.md:1111). `SentReviewed` is
  therefore about the comparison.
- Merging a second line into the queue leaves the first line's ticket alive until
  it expires. A turn that ends without a reply leaves its authorization in memory,
  where no later turn can use it.

*Memory and forget.*
- `retrieve.py:337` asks `is_suppressed` about episode ids; it looks up fact ids
  (forget.py:639), so no episode is held back (PHASE6_BUILD_PLAN.md:1097).
- The digest by which a file check is skipped is not renewed by mirrored writes
  (fact_index.py:301): a fact whose entry came and went stays until a forced check.
- The `finally` of a runner clears `_running` also when it is another runner's, so
  two consolidations may run in one process (PHASE6_BUILD_PLAN.md:738).
- A confirm of a contact together with the number of someone else passes the number
  over, and its `erased` list names it, and entities, all the same
  (`AnswerMatchesErases` excepts both); a failure of `_delete_named_entities` is silent.
- Marks are a set of texts, each used up by the first turn synced that has or contains
  it (`turn_disposition`). Of two turns about forgetting with the same words the second
  becomes memory; so does one whose words are inside an earlier turn that is synced
  after it began. And marks left by a hold drop later turns with the same or a
  containing text, whatever these are about.

*Watcher and watches.*
- A match that the store refuses because the item was closed meanwhile is "held"
  (watcher.py:221): the poll ends there, and so does every later one. The comment
  at :203 has "a refusal is a named WARN".
- `POISON_ATTEMPT_CAP` is there so that one message does not hold the poll for good.
  It bounds refused messages only. An answer that does not parse
  (background_read.py:62, a `ValueError`), a part that does not decode, or a status of
  no class (watcher.py:409) holds the account without a count: the cursor and all mail
  behind it wait until that message is deleted, or the history expires and the recovery
  no longer lists it. A recovery must read a listed message to learn its date, so one
  that is older than the cursor may hold it too.
- An item inserted by a poll that is cut before the match is not matched when the
  history expires in between; a message archived in between neither.
- `_apply_confirmation` (loops.py:673) never reads `token["armed"]`: the second
  create of a turn takes the "yeah" of the sentence that asked for it
  (P10-WATCH_Progress.md:245).
- `_covers` does not look at groups, and a shared identifier lets another person's
  watch close one. "Stop watching him" ends only the watch noted last (:741).

*Surfacing and taint.*
- `META_SPEECH_POST_NOTED` remembers one delivery (proactive_store.py:5035, "one
  note per evidenced attempt"): with two in the window, each is noted again after
  the other, turn by turn.
- A mark whose walk meets a locked `state.db` is of the raw id alone
  (taint.py:138). If that is a child itself, the next child, made before the hook
  marks again, is not tainted, although turn_context.py:257 has "post-compression tip inherits taint via lineage".
- A block that is cut to size may lose the line of a lapse that is marked as told.
  When the hooks of two sessions overlap, a marker without items overwrites the
  other's attempt (the last case of `OwedKeepsGapOpen`).
- `_post_llm` (surface.py:1203-1216) confirms the marker also when
  `confirm_surface_attempt` was refused as locked, or came past its 600 seconds and
  counted nothing, or when a row of the block has been taken by another session. The
  gap closes and those items wait for the next gap, as do the ones the cap left out.

## 6. Fairness

Safety runs assume none. `FairSpec` of `PhoneDelivery`: a handler that runs goes
on, the service boots, connects, the PC serves its socket, and a retry bound
passes in the end. `onOpen`, `onAck`, `onPing` and `tick` are strongly fair: they
are jobs of one first-in-first-out worker, so what is posted again and again is
run although another handler is running most of the time. Faults are bounded. No
fairness is put on `onProviderChanged`, for nothing makes the provider change, nor
on the end of a connection that lost a frame. `Delivered` has both as hypotheses:
scans never cease while paired (in practice the phone's other messages see to it,
`Touch`), and a connection that lost a frame ends. Without either, or without the
clause about a batch of rows that are never sent, TLC finds a text that waits for
ever. Nothing is assumed of the owner. `Fairness` of `ProactiveItem` (run `item`):
leases and rows age, and the purge runs hourly (the loop of the store and the
watcher's); nothing is assumed of ranker, client or owner, any of which may be
gone. `FairSpeech`: polls, calls and limits of the client pass, and a call that
waits is served or given up; the owner, the gates and the player owe nothing.
`Fairness` of `Watcher`: a poll that runs goes on (`Step`), the main loop comes to
Gmail again and again although calendar polls and lost grants come in between
(strong, `run_gmail`: the loop takes the sources in turn), the owner signs in
again when the grant is lost, and a watch expires in the end (`expires_at`, which
the purge applies). Faults are bounded; mail and changes need not come. Nothing
makes a garbled message readable or gone: `HeldUp` is a condition for that reason.

## 7. Proofs

Every theorem holds for all values of the constants that satisfy the assumption
of its module (natural numbers, a window and a batch of at least one, subsets of
the ids; for `Watcher` that a watch covers mail or events and not both).

**PhoneDelivery_proofs.** `IInv` adds to `TypeOK` what makes it inductive: a
revision number on the wire, at the PC or in an ack is at most the one the phone
saved (`Numbers`), a frame in flight and the handler's remaining work are about
texts that the phone knows (`SlotsKnown`, `WorkKnown`, `WireKnown`). One lemma
per handler step shows that `IInv` is kept; `Invariance`, `TypeCorrect`,
`NoTextLost` and `RevisionsSaved` (`PcNeverAhead`, a part of the invariant that no
run lists) follow. `LinkImplementsIntake` is the
refinement: with `Tracked` (the cursor passed only texts that are settled) each
step of the engine maps to a step of `TextIntake` or to a stutter.

The same module has two more invariants over `IInv`. `CursorSkipsNone` is not
inductive: it says nothing of the text that a later ack will let the cursor pass.
`MetInOrder` does: while a text of this PC's time has no slot and no answer, the
cursor is below it, no higher text has a slot, and a running scan that has a
higher text in its list has it too. It is kept because a query returns the lowest
ids first (`BatchLow`), a scan admits the lowest of its list first, and seeded
texts are older than the PC's time. `Fresh` adds to `FreshContent` the frames on
the wire and the payload kept in a slot: whichever carries the newest number
carries content as new as was noted with it. `CursorIsSafe` and `ContentIsFresh`
follow.

**SpeechDelivery_proofs**, first part: the item store. `IInv == TypeOK /\ Capped
/\ Good` says of every row
which columns go together: an item in flight has exactly the open attempt that
its state calls for, evidence goes with delivery, an emptied row has neither
body nor text. Recovery runs inside claims and inside the purge, so the invariant
is stated of tables and not of variables, and recovery is shown to keep it as an
operator on tables. The action properties `SpeechNeverRepeats` and
`NothingComesBack` follow from a relation `Follows` between a row and its
successor that every action satisfies. `Invariant`, `TypeCorrect`, `ClaimsMatch`
and `DeliveryEvidenced` are the invariants of the run `item`.

Second part: the client. `JInv` joins three parts. The store keeps its own `IInv`,
since each client call is carried out by steps of `ProactiveItem`. `SInv` is the
client's bookkeeping: at most one call of the chain from recovery to `voice.tts` is
waited for and it fits what is held (`Called`), the fields go together (`Holds`),
an attempt has one verdict and none while its hold is open, and after the owner
interrupts the hold is cancelled, so the line cannot be sent (`Sents`, `Held`).
`Linked` ties the two: once the client learned that a start is recorded, or sent
the line, the row is past the point of return, and no other attempt of that item
ever gets there. `SpokenOnce` needs `Linked`, because the store alone does not know
what was sent and the client alone forgets when it dies. `SInv` takes fields, calls
and history as parameters, so that a handler is followed one change at a time;
`Keeps` is what any such change may do, and recording a start is the only step that
begins an attempt (`StartServed`).

**SendGate_proofs.** `Parameters` says besides that the passphrase is a line and
that `"none"` and `"gone"` are no ids. `IInv` holds together three ages of an
approval. Before it: a reviewed draft was read back in a turn of its session that
is over (`Reviews`), and turns begin in the order of their ids and do not overlap
within a session (`TurnsInOrder`), so whatever is reviewed when a turn starts was
read back before it. While it waits: an authorization names a content that was
read back before its turn (`Auths`) and the draft under review
(`ApprovalMatches`). Once it is taken: the call holds that content until it ends,
and what it fetched equals it from the comparison on (`Grants`, `OneGrant`); its
turn is still under way (`CallsAlive`). No part is inductive alone: `SentReviewed`
needs `Grants`, that needs `Auths`, that needs `Reviews`. A step is described by
what it may do to each part of the state (`TurnsGo`, `AuthsGo`, `DraftsGo`,
`HoldsGo`, `TicketsGo`): `Kept` says that such a step keeps `IInv` and only
withdraws approvals in `SendApproval`, and just five steps need more
(`PreKeeps`, `PostKeeps`, `PresentKeeps`, `TakeKeeps`, `SendKeeps`).
`GateImplementsApproval` is the refinement, and the invariants and the action
properties of the run `send` follow; `OneApprovalOneCall`, `ApprovalIsForReviewed`
and `ReviewSurvivesTurn` are theorems only.

**Memory_proofs.** `IInv == TurnsApart /\ EpisodesBacked /\ AnswersBacked`. A turn
is in one place only: queued, committed once, or erased (`TurnsApart`); an episode
refers to facts and turns that an erase did not take (`EpisodesBacked`); and a
runner whose generation is still the store's holds an answer whose rows and facts
are all still there (`AnswersBacked`). The last is why `NoEcho` holds: whatever an
erase takes, it makes every runner's generation stale in the same transaction, so
a commit that passes `can_commit` has read nothing that is gone. `Erases` states
what a cascade, a file check or a mirrored write may do to rows and runners, and
one lemma per operation shows that it does no more. `TypeCorrect` adds to it, in
`TInv`, that an id is always left: a text has one fact, so the facts are no more
than the texts (`FewFacts`); the answer of a runner refers to one fact, so what
those refer to are no more than the runners (`FewReferred`); what waits for its
erase is a fact; and no two episodes are of one turn, so there is an episode id for
a runner that still has a turn in hand (`EpisodeIdIsLeft`, which counts the turns
that are left to others). It alone has a hypothesis, `Roomy`: texts and runners are finitely
many, and `MaxFacts` is at least twice the texts, for a file check inserts before
the ids of what it erased are free, and one for each runner. The code draws ids
without a bound, and the run has exactly as many as this.

**Watcher_proofs.** `IInv == Sound /\ MailInv /\ EventInv /\ WatchInv`. `Sound` is
`TypeOK` with the order of the numbers and the phase of a poll: which of its fields
mean something at which step. `MailInv`: what the cursor passed, and what the poll
in hand has ticked off, is handled (stored and matched, or excused as the property
says); the message in hand has every watch that waits for it bound or still to be
bound. `EventInv`: an event that was there at the first sync is saved before it can
count as new; what is saved or listed is what the calendar had; the item of an
event is of a change after the base. `WatchInv`: the watches in hand wait for the
change in hand, and a cancelled event's watches are seen. `World` says what any
step may do to mailbox, calendar, items and watches, so that most lemmas are about
it and not about an action. All four safety properties of the run follow.

**Taint_proofs.** `IInv` adds two facts to `KnownSource`. `TurnOfTip`: the ids a
turn may use (its task, its record) are of the tip's lineage and no deeper than
the tip, since only a rotation changes the tip within a turn and it goes one
deeper under the same root. `ContentSeen`: a walk from a session that holds content
raises, or ends at a root that is marked or that a mark missed. The first is why a
mark by the record's ids is one for the tip; the second is what a clean answer of
`is_tainted` contradicts. `SourceIsKnown` and `TypeCorrect` follow; the run checks
`KnownSource` only. `TypeOK` of `Taint` and the action property `SpeechMonotone`
of `ProactiveItem` (theorem `SpeechNeverRepeats`) are theorems that no run lists:
`SpokenOnce` of the run `speech` says more than the latter.

**Forget_proofs.** `IInv == Base /\ Words /\ Honest /\ Asks`, over `TypeOK` and
that what is called or asked belongs to a turn that has begun. `Words`
(`Unsynced`, `InOrder`, `Marked`): a turn that spoke of a forget and may still be
synced will be dropped by its own words or by a mark, whether its hold was
confirmed, expired, switched away from or lost, unless it was overtaken; without
it nothing relates a sync to the hold that ended before. A mark is a text that the
first turn synced with it, or around it, uses up; `Marked` therefore says of a
waiting turn that its text is still marked or that it was overtaken (`Dropped`),
and `InOrder` that whatever waits was waiting when each later turn began, so that
a turn synced out of its order is one that overtakes. `Honest` (`Erasing`,
`AnswerMatchesErases`): while a confirm runs, what its earlier erases were for is
gone from what is due, so that the answer at the end is about all of them. `Asks`:
when several subjects were shown and nothing is open to ask, or a confirm is at
work, the list is of an earlier turn. `AnswersMatchErases`, `SeveralAskedFirst`,
`ForgetTalkIsDropped` and `TypeCorrect` follow, with no hypothesis on what is
said.

**SurfaceWatch_proofs.** First part: `Surface`. `IInv == Typed /\ Numbering /\
Rested /\ TaintKept /\ Told`. `Numbering`: no two turns have one attempt number,
and a row that carries the number of a turn is in its block. `Rested`: a row
carries a number only while it was not told or has rested, so the loser of a race
finds nothing to count. `TaintKept`: the session is tainted once retrieved text is
about to be given to it. `Told` is about what is owed. Without a race a hook that
found every offerable row holds all that is owed and may be told, and one that
will move the clock without a block owes nothing (`Races`); what is owed was in
the store when it was listed, and does not rest (`Seen`, `OwedRests`); and a turn
that has counted leaves no row of its own that could still be told (`CountedAll`),
so that a confirmation that closes the gap over such a row is of a turn that
missed, or the row is not its own. `Forward` says what any step may do to what a
hook holds, so that most lemmas are about it and not about an action.
`TaintedBeforeShown`, `GapStaysForOwed`, `TypeCorrect` and the action property
`OnlyTheShownIsCounted` follow. That the latest of the deliveries exists
(`LatestExists`) is well-founded induction over a finite range.

Second part: `Watch`. `WInv == WatchTypeOK /\ Question /\ CoverStays`. `Question`:
an open question is the last that was asked, in this turn or, once armed, in the
turn before; no yes was taken for it; and its plan has what the answer to it uses
(`PlanFits`). It is what ties the token in the process to the history that
`YesIsTheProposal` is about. `CoverStays` is inductive with the types: what covers
is covered by what covers it (`CoversOn`), a watch keeps the channel and lifetime
it was made with (`CoverKept`), and the one that makes room is never the one it
makes room for. `YesDoesWhatWasAsked`, `CoverIsLeft` and `WatchTypeCorrect` follow.

**Model-checked only.** What this prover cannot reach: liveness under fairness
(`Delivered`, `Settles`, `HoldEnds`, `CursorCatchesUp`), `ENABLED`, and induction
over data. `CrashFinishes` is false and has no theorem. No module has a RECURSIVE
operator. Every other property of the runs is stated by a theorem.

## 8. Not modelled, and why

Besides the components that `PROJECT.json` lists as not modelled: operations of
the item store that nothing calls (`claim_speech`, `close_item`, `mark_eligible`,
`suppress`, `select_for_conversation`, `mark_loop_eligible`) and the eligibility
sweep, which finds no row; the expiry of phone tombstones after 30 days; the
wording, the order and the collapse of lines when items surface in a turn; the
ranker's model call and its backoff, the watcher's backoff and its health file,
which only decide when a step happens; the guards that match the text of a command
or a path; how a name is found in the address book and how a request is
phrased (`Watch` takes what the functions find); the prompt of a consolidation and
the grouping of turns into episodes, of which `Memory` keeps which turns and facts
an episode refers to; how candidates of a forget are ranked, and the retry of a
proactive erase that nothing records. How long a poll, a lease or a turn takes is
not modelled: time is the fact that a bound has passed. `PROJECT.json` gives the
same for each component, and the reason for each that is left out.
