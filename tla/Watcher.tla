------------------------------ MODULE Watcher ------------------------------
(***************************************************************************)
(* The watcher process (zola_workspace/watcher.py): it polls Gmail by      *)
(* history and one calendar by sync token, stores what is new as items of  *)
(* the proactive store, binds them to the open watches, and only then      *)
(* moves its cursor.  A poll that cannot finish is held: the cursor stays  *)
(* and the next poll repeats it.                                           *)
(*                                                                         *)
(* Google is outside: mail arrives, is archived, deleted and grows old,    *)
(* events change, history and sync tokens expire, reads fail.  The store   *)
(* is shared with the gateway, which opens and closes watches and items    *)
(* between two transactions of the watcher, and may hold the lock.         *)
(***************************************************************************)
EXTENDS Integers, FiniteSets

CONSTANTS
    M,          \* messages are 1..M in order of arrival: m has history id m
    Events,     \* events of the calendar
    Loops,      \* rows of the loops table
    Watched,    \* by loop: the messages of its thread, or its event
    PoisonCap,  \* POISON_ATTEMPT_CAP (5 in the code)
    MaxChanges, \* bound: changes of the calendar, each with its stamp
    MaxFaults   \* bound: failed reads, lock refusals and deaths together

Messages == 1..M
Stamps == 1..MaxChanges
\* The idempotency keys: a message id, or an event id with its "updated".
Keys == (Messages \X {0}) \cup (Events \X Stamps)
NoCursor == -1
Resync == -2      \* CALENDAR_RESYNC_MARKER

ASSUME Parameters ==
    /\ M \in Nat /\ MaxChanges \in Nat /\ MaxFaults \in Nat
    /\ PoisonCap \in Nat \ {0}
    /\ Events \cap Int = {}
    /\ Watched \in [Loops -> (SUBSET Messages) \cup (SUBSET Events)]

VARIABLES
    mailbox,  \* Gmail: n arrived, where each is, history served from, mail older than 7
              \* days; broken: it answers 400, 403 or no record; garbled: a body that does
              \* not parse or decode, or a status of no class
    calendar, \* Calendar: shown in the list, n changes, the events, oldest token still served
    signedIn, \* the OAuth grant stands; otherwise every poll is skipped
    items,    \* the items table, by idempotency key
    loops,    \* the loops table
    saved,    \* calendar_events: the "updated" stamp saved for an event, 0 for no row
    cursor,   \* the cursors table: Gmail history id, calendar sync token
    cut,      \* messages dated before the Gmail cursor was written, less the margin
    attempts, \* watcher_rejects: attempts of a message, capped
    poll,     \* the cycle that runs
    base,     \* history: the cursors the first sync of each source wrote
    passed,   \* history: messages a recovery passed because the store knew them
    faults    \* history: faults so far

google == <<mailbox, calendar, signedIn>>
store == <<items, loops, saved, cursor, cut, attempts>>
history == <<base, passed>>
vars == <<google, store, poll, history, faults>>

Sources == {"gmail", "calendar"}
Idle == [src |-> "gmail", at |-> "idle", mode |-> "baseline", todo |-> {}, more |-> FALSE,
         read |-> 0, key |-> <<>>, off |-> FALSE, due |-> {}, bound |-> {}]

\* what a page lists: a message, or an event with its stamp and whether it is cancelled
Listed == [id : Messages \cup Events, at : 0..MaxChanges, off : BOOLEAN]
Polls == [src : Sources, at : {"idle", "read", "list", "next", "evaluate", "bind", "close", "save"},
          mode : {"baseline", "history", "recovery", "incremental"}, todo : SUBSET Listed,
          more : BOOLEAN, read : Nat, key : Keys \cup {<<>>}, off : BOOLEAN,
          due : SUBSET Loops, bound : SUBSET Loops]
Boxes == [broken : SUBSET Messages, garbled : SUBSET Messages, n : 0..M, served : 0..M, old : 0..M,
          where : [Messages -> {"inbox", "moved", "gone"}]]
Calendars == [shown : BOOLEAN, n : 0..MaxChanges, served : 0..MaxChanges,
              event : [Events -> [at : 0..MaxChanges, off : BOOLEAN]]]

TypeOK ==
    /\ mailbox \in Boxes /\ calendar \in Calendars /\ signedIn \in BOOLEAN
    /\ items \in [Keys -> [st : {"none", "open", "closed"}, matched : BOOLEAN]]
    /\ loops \in [Loops -> [st : {"new", "open", "over"}, matched : BOOLEAN, since : Nat]]
    /\ saved \in [Events -> 0..MaxChanges]
    /\ cursor \in [gmail : {NoCursor} \cup 0..M, calendar : {NoCursor, Resync} \cup 0..MaxChanges]
    /\ cut \in 0..M /\ attempts \in [Messages -> 0..PoisonCap]
    /\ poll \in Polls
    /\ base \in [Sources -> {NoCursor} \cup Nat] /\ passed \subseteq Messages /\ faults \in 0..MaxFaults

\* The day the watcher first starts: the account and older watches are as they are.
Init ==
    /\ mailbox \in Boxes /\ mailbox.served <= mailbox.n /\ mailbox.old <= mailbox.n
    /\ calendar \in Calendars /\ calendar.served <= calendar.n
    /\ \A e \in Events : calendar.event[e].at <= calendar.n
    /\ signedIn = TRUE
    /\ items = [k \in Keys |-> [st |-> "none", matched |-> FALSE]]
    /\ loops \in [Loops -> {[st |-> st, matched |-> FALSE, since |-> 0] : st \in {"new", "over"}}]
    /\ saved = [e \in Events |-> 0]
    /\ cursor = [gmail |-> NoCursor, calendar |-> NoCursor] /\ cut = 0
    /\ attempts = [m \in Messages |-> 0]
    /\ poll = Idle /\ base = [s \in Sources |-> NoCursor] /\ passed = {} /\ faults = 0

-----------------------------------------------------------------------------
(* Google.  A history id and a sync token are served until they expire; the *)
(* watcher may have slept for weeks.                                        *)
Arrive ==
    /\ mailbox.n < M
    /\ mailbox' = [mailbox EXCEPT !.n = @ + 1]
    /\ UNCHANGED <<calendar, signedIn, store, poll, history, faults>>

\* The owner archives a message, or deletes it for good.
Leave(m, w) ==
    /\ m <= mailbox.n /\ mailbox.where[m] = "inbox"
    /\ mailbox' = [mailbox EXCEPT !.where[m] = w]
    /\ UNCHANGED <<calendar, signedIn, store, poll, history, faults>>

HistoryExpires ==
    /\ mailbox.served < mailbox.n
    /\ mailbox' = [mailbox EXCEPT !.served = mailbox.n]
    /\ UNCHANGED <<calendar, signedIn, store, poll, history, faults>>

\* newer_than:7d no longer lists it: GMAIL_RECOVERY_WINDOW_DAYS.
MailAges ==
    /\ mailbox.old < mailbox.n
    /\ mailbox' = [mailbox EXCEPT !.old = @ + 1]
    /\ UNCHANGED <<calendar, signedIn, store, poll, history, faults>>

\* An event is made, edited or cancelled; each change has a new "updated".
Change(e, off) ==
    /\ calendar.n < MaxChanges /\ ~calendar.event[e].off
    /\ off => calendar.event[e].at > 0
    /\ calendar' = [calendar EXCEPT !.n = @ + 1, !.event[e] = [at |-> calendar.n + 1, off |-> off]]
    /\ UNCHANGED <<mailbox, signedIn, store, poll, history, faults>>

TokensExpire ==
    /\ calendar.served < calendar.n
    /\ calendar' = [calendar EXCEPT !.served = calendar.n]
    /\ UNCHANGED <<mailbox, signedIn, store, poll, history, faults>>

Reconnect ==
    /\ ~signedIn /\ signedIn' = TRUE
    /\ UNCHANGED <<mailbox, calendar, store, poll, history, faults>>

-----------------------------------------------------------------------------
(* The gateway's side of the store.                                         *)
IsMail(l) == Watched[l] \subseteq Messages

\* A watch is made; its predicate only matches what happens after.
OpenLoop(l) ==
    /\ loops[l].st = "new"
    /\ loops' = [loops EXCEPT ![l] = [st |-> "open", matched |-> FALSE,
                                     since |-> IF IsMail(l) THEN mailbox.n ELSE calendar.n]]
    /\ UNCHANGED <<google, items, saved, cursor, cut, attempts, poll, history, faults>>

\* Closed by the owner, by a delivery, or expired by the purge.
EndLoop(l) ==
    /\ loops[l].st = "open"
    /\ loops' = [loops EXCEPT ![l].st = "over"]
    /\ UNCHANGED <<google, items, saved, cursor, cut, attempts, poll, history, faults>>

\* Dismissed or closed in a turn, or aged out by the purge.
CloseItem(k) ==
    /\ items[k].st = "open"
    /\ items' = [items EXCEPT ![k].st = "closed"]
    /\ UNCHANGED <<google, loops, saved, cursor, cut, attempts, poll, history, faults>>

-----------------------------------------------------------------------------
(* A poll and how it ends.                                                  *)
Start(src, mode, read) == poll' = [Idle EXCEPT !.src = src, !.at = "read", !.mode = mode, !.read = read]
Hold == poll' = Idle
Done(x) == poll' = [poll EXCEPT !.at = "next", !.todo = @ \ {x}, !.key = <<>>, !.off = FALSE,
                                !.due = {}, !.bound = {}]

\* _run_gmail: the cursor says whether this is the first sync.
run_gmail ==
    /\ poll.at = "idle" /\ signedIn
    /\ IF cursor.gmail = NoCursor THEN Start("gmail", "baseline", 0)
       ELSE Start("gmail", "history", cursor.gmail)
    /\ UNCHANGED <<google, store, history, faults>>

\* _run_calendar, _sync_calendar: only a calendar that is shown; an empty cursor stays a first sync until a token is written.
run_calendar ==
    /\ poll.at = "idle" /\ signedIn /\ calendar.shown
    /\ Start("calendar", CASE cursor.calendar = NoCursor -> "baseline"
                           [] cursor.calendar = Resync -> "recovery"
                           [] OTHER -> "incremental", 0)
    /\ UNCHANGED <<google, store, history, faults>>

\* getProfile: the history id of now.  Recovery takes it before it lists.
gmail_profile ==
    /\ poll.src = "gmail" /\ poll.at = "read" /\ poll.mode \in {"baseline", "recovery"}
    /\ poll' = [poll EXCEPT !.read = mailbox.n, !.at = IF poll.mode = "baseline" THEN "next" ELSE "list"]
    /\ UNCHANGED <<google, store, history, faults>>

\* Mutant: an expired history id writes the resync marker, as the calendar does.
gmail_history_Marker ==
    /\ poll.src = "gmail" /\ poll.at = "read" /\ poll.mode = "history"
    /\ IF cursor.gmail < mailbox.served
       THEN poll' = [poll EXCEPT !.mode = "recovery"] /\ cursor' = [cursor EXCEPT !.gmail = Resync]
       ELSE poll' = [poll EXCEPT !.at = "next", !.read = mailbox.n] /\ UNCHANGED cursor
    /\ UNCHANGED <<google, items, loops, saved, cut, attempts, history, faults>>

\* One page of history.list; the pages are read in order and the last one
\* reaches the present.  An expired start id turns the poll into a recovery.
gmail_history ==
    /\ poll.src = "gmail" /\ poll.at = "read" /\ poll.mode = "history"
    /\ IF cursor.gmail < mailbox.served
       THEN poll' = [poll EXCEPT !.mode = "recovery", !.todo = {}, !.more = FALSE]
       ELSE \E q \in poll.read..mailbox.n :
            /\ q = poll.read => q = mailbox.n
            /\ poll' = [poll EXCEPT !.at = "next", !.read = q, !.more = q < mailbox.n,
                          !.todo = {[id |-> m, at |-> 0, off |-> FALSE] : m \in (poll.read + 1)..q}]
    /\ UNCHANGED <<google, store, history, faults>>

\* messages.list of the last seven days in the inbox.
gmail_recovery_list ==
    /\ poll.at = "list"
    /\ poll' = [poll EXCEPT !.at = "next",
                  !.todo = {[id |-> m, at |-> 0, off |-> FALSE] :
                            m \in {k \in (mailbox.old + 1)..mailbox.n : mailbox.where[k] = "inbox"}}]
    /\ UNCHANGED <<google, store, history, faults>>

\* What a page lists is taken in its order: history forwards, the list newest first.
Turn(x) ==
    /\ poll.at = "next" /\ x \in poll.todo
    /\ poll.src = "gmail" =>
        \A y \in poll.todo : IF poll.mode = "history" THEN x.id <= y.id ELSE x.id >= y.id

\* Recovery passes what the store knows; it does not look at its watches again.
skip_known(x) ==
    /\ poll.src = "gmail" /\ Turn(x) /\ poll.mode = "recovery" /\ items[<<x.id, 0>>].st # "none"
    /\ passed' = passed \cup {x.id}
    /\ Done(x)
    /\ UNCHANGED <<google, store, base, faults>>

Wanted(x) ==
    /\ poll.src = "gmail" /\ Turn(x)
    /\ poll.mode = "recovery" => items[<<x.id, 0>>].st = "none"

Readable(m) == m \notin mailbox.broken \cup mailbox.garbled /\ mailbox.where[m] # "gone"

\* A message outside the inbox is finished.
skip_not_inbox(x) ==
    /\ Wanted(x) /\ Readable(x.id) /\ mailbox.where[x.id] = "moved"
    /\ Done(x)
    /\ UNCHANGED <<google, store, history, faults>>

\* Recovery leaves what is older than the last cursor.
skip_old(x) ==
    /\ Wanted(x) /\ poll.mode = "recovery" /\ x.id <= cut
    /\ Readable(x.id) /\ mailbox.where[x.id] = "inbox"
    /\ Done(x)
    /\ UNCHANGED <<google, store, history, faults>>

\* Mutant: what cannot be read is tried for ever.
Terminal_OnlyGone(m) == mailbox.where[m] = "gone"

\* A message that is gone is a terminal record at once; one that is refused
\* becomes one at the cap, and holds the poll until then.
Terminal(m) == mailbox.where[m] = "gone" \/ attempts[m] + 1 >= PoisonCap
note_watcher_reject(x) ==
    /\ Wanted(x)
    /\ mailbox.where[x.id] = "gone" \/ x.id \in mailbox.broken \ mailbox.garbled
    /\ attempts' = [attempts EXCEPT ![x.id] = IF @ < PoisonCap THEN @ + 1 ELSE @]
    /\ IF Terminal(x.id) THEN Done(x) ELSE Hold
    /\ UNCHANGED <<google, items, loops, saved, cursor, cut, history, faults>>

\* A body that does not parse, or a part that does not decode, raises past
\* _ingest_message to run_gmail, which holds the account as "unexpected"; a
\* status of no class is held as transient (_message_failure).  Neither counts.
read_uncounted(x) ==
    /\ Wanted(x) /\ x.id \in mailbox.garbled /\ mailbox.where[x.id] # "gone"
    /\ Hold
    /\ UNCHANGED <<google, store, history, faults>>

\* insert_item: a row that is there already is returned as it is.
Insert(k) == items' = [items EXCEPT ![k].st = IF @ = "none" THEN "open" ELSE @]
\* Mutant: a replayed message is not evaluated again.
insert_mail_OnlyNew(x) ==
    /\ Wanted(x) /\ Readable(x.id) /\ mailbox.where[x.id] = "inbox"
    /\ Insert(<<x.id, 0>>)
    /\ IF items[<<x.id, 0>>].st # "none" THEN Done(x)
       ELSE poll' = [poll EXCEPT !.at = "evaluate", !.key = <<x.id, 0>>]
    /\ UNCHANGED <<google, loops, saved, cursor, cut, attempts, history, faults>>

insert_mail(x) ==
    /\ Wanted(x) /\ Readable(x.id) /\ mailbox.where[x.id] = "inbox"
    /\ poll.mode = "recovery" => x.id > cut
    /\ Insert(<<x.id, 0>>)
    /\ poll' = [poll EXCEPT !.at = "evaluate", !.key = <<x.id, 0>>]
    /\ UNCHANGED <<google, loops, saved, cursor, cut, attempts, history, faults>>

-----------------------------------------------------------------------------
(* The calendar.                                                            *)
\* The first page of the sync: everything, or what changed since the token.
\* An expired token writes the marker and starts over as a recovery.
calendar_events ==
    /\ poll.src = "calendar" /\ poll.at = "read"
    /\ IF poll.mode = "incremental" /\ cursor.calendar < calendar.served
       THEN /\ cursor' = [cursor EXCEPT !.calendar = Resync]
            /\ poll' = [poll EXCEPT !.mode = "recovery"]
       ELSE /\ LET from == IF poll.mode = "incremental" THEN cursor.calendar ELSE 0
                   new == {e \in Events : calendar.event[e].at > from}
               IN  poll' = [poll EXCEPT !.at = "next", !.read = calendar.n,
                            !.todo = {[id |-> e, at |-> calendar.event[e].at,
                                       off |-> calendar.event[e].off] : e \in new}]
            /\ UNCHANGED cursor
    /\ UNCHANGED <<google, items, loops, saved, cut, attempts, history, faults>>

\* loops.evaluate: "after" compares with the time of the message or the change.
Matches(l, k, off) ==
    /\ loops[l].st = "open" /\ k[1] \in Watched[l]
    /\ IF k[1] \in Messages THEN k[1] > loops[l].since ELSE off /\ k[2] > loops[l].since

\* An item is a new event, or a change of a known one that a watch waits for.
ShouldInsert(x) ==
    /\ poll.mode # "baseline"
    /\ ~(poll.mode = "recovery" /\ saved[x.id] = 0)
    /\ \/ saved[x.id] = 0
       \/ saved[x.id] # x.at /\ \E l \in Loops : Matches(l, <<x.id, x.at>>, x.off)

_apply_event(x) ==
    /\ poll.src = "calendar" /\ Turn(x)
    /\ LET k == <<x.id, x.at>> IN
       /\ IF ShouldInsert(x) THEN Insert(k) ELSE UNCHANGED items
       /\ poll' = [poll EXCEPT !.key = k, !.off = x.off,
                    !.at = IF poll.mode # "baseline" /\ items'[k].st # "none" THEN "evaluate" ELSE "save"]
    /\ UNCHANGED <<google, loops, saved, cursor, cut, attempts, history, faults>>

-----------------------------------------------------------------------------
(* _finish_item: the watches of an item, each in its own transaction.       *)
_matching ==
    /\ poll.at = "evaluate"
    /\ poll' = [poll EXCEPT !.at = "bind", !.due = {l \in Loops : Matches(l, poll.key, poll.off)}]
    /\ UNCHANGED <<google, store, history, faults>>

\* Mutant: a refused match counts as bound.
bind_open_loop_match_Anyway(l) ==
    /\ poll.at = "bind" /\ l \in poll.due
    /\ poll' = [poll EXCEPT !.due = @ \ {l}, !.bound = @ \cup {l}]
    /\ IF loops[l].st = "open" /\ items[poll.key].st = "open"
       THEN /\ loops' = [loops EXCEPT ![l].matched = TRUE]
            /\ items' = [items EXCEPT ![poll.key].matched = TRUE]
       ELSE UNCHANGED <<items, loops>>
    /\ UNCHANGED <<google, saved, cursor, cut, attempts, history, faults>>

\* A watch that closed meanwhile is passed over; an item that did holds the poll.
bind_open_loop_match(l) ==
    /\ poll.at = "bind" /\ l \in poll.due
    /\ CASE loops[l].st # "open" ->
              poll' = [poll EXCEPT !.due = @ \ {l}] /\ UNCHANGED <<items, loops>>
         [] loops[l].st = "open" /\ items[poll.key].st # "open" ->
              Hold /\ UNCHANGED <<items, loops>>
         [] OTHER ->
              /\ loops' = [loops EXCEPT ![l].matched = TRUE]
              /\ items' = [items EXCEPT ![poll.key].matched = TRUE]
              /\ poll' = [poll EXCEPT !.due = @ \ {l}, !.bound = @ \cup {l}]
    /\ UNCHANGED <<google, saved, cursor, cut, attempts, history, faults>>

\* A mail is finished; a change goes on to close the watches it ends.
_finish_item ==
    /\ poll.at = "bind" /\ poll.due = {}
    /\ IF poll.src = "gmail" THEN \E x \in poll.todo : x.id = poll.key[1] /\ Done(x)
       ELSE poll' = [poll EXCEPT !.at = "close"]
    /\ UNCHANGED <<google, store, history, faults>>

\* Ended meanwhile, for this reason or for another: at most a warning.
close_loop_from_match(l) ==
    /\ poll.at = "close" /\ l \in poll.bound
    /\ loops' = [loops EXCEPT ![l].st = "over"]
    /\ poll' = [poll EXCEPT !.bound = @ \ {l}]
    /\ UNCHANGED <<google, items, saved, cursor, cut, attempts, history, faults>>

save_calendar_event ==
    /\ poll.at = "save" \/ (poll.at = "close" /\ poll.bound = {})
    /\ \E x \in poll.todo :
        /\ <<x.id, x.at>> = poll.key
        /\ saved' = [saved EXCEPT ![x.id] = x.at]
        /\ Done(x)
    /\ UNCHANGED <<google, items, loops, cursor, cut, attempts, history, faults>>

-----------------------------------------------------------------------------
(* The end of the page: the next one, or the cursor.                        *)
next_page ==
    /\ poll.at = "next" /\ poll.todo = {} /\ poll.more
    /\ poll' = [poll EXCEPT !.at = "read", !.more = FALSE]
    /\ UNCHANGED <<google, store, history, faults>>

\* Mutant: the history id that is written is the one of the end of the poll.
write_cursor_Now ==
    /\ poll.at = "next" /\ poll.todo = {} /\ ~poll.more
    /\ cursor' = [cursor EXCEPT ![poll.src] = IF poll.src = "gmail" THEN mailbox.n ELSE poll.read]
    /\ base' = [base EXCEPT ![poll.src] = IF poll.mode = "baseline" THEN poll.read ELSE @]
    /\ Hold
    /\ UNCHANGED <<google, items, loops, saved, cut, attempts, passed, faults>>

\* The write is younger than its read by less than the margin of 120 seconds.
write_cursor ==
    /\ poll.at = "next" /\ poll.todo = {} /\ ~poll.more
    /\ cursor' = [cursor EXCEPT ![poll.src] = poll.read]
    /\ base' = [base EXCEPT ![poll.src] = IF poll.mode = "baseline" THEN poll.read ELSE @]
    /\ IF poll.src = "gmail" THEN \E c \in cut..poll.read : cut' = c ELSE UNCHANGED cut
    /\ Hold
    /\ UNCHANGED <<google, items, loops, saved, attempts, passed, faults>>

-----------------------------------------------------------------------------
(* Faults.                                                                  *)
Fault == poll.at # "idle" /\ faults < MaxFaults /\ faults' = faults + 1 /\ Hold

\* The refresh token is refused: no poll runs until the owner signs in again.
grant_lost ==
    /\ Fault /\ poll.at \in {"read", "list", "next"}
    /\ signedIn' = FALSE
    /\ UNCHANGED <<mailbox, calendar, store, history>>

\* A read of Google fails for now (transport, 429, 5xx), another process holds
\* the database at a write, or this one dies: nothing but the poll is lost.
CutShort ==
    /\ Fault
    /\ UNCHANGED <<google, store, history>>

-----------------------------------------------------------------------------
Outside ==
    \/ Arrive \/ HistoryExpires \/ MailAges \/ TokensExpire \/ Reconnect
    \/ \E m \in Messages, w \in {"moved", "gone"} : Leave(m, w)
    \/ \E e \in Events, off \in BOOLEAN : Change(e, off)
    \/ \E l \in Loops : OpenLoop(l) \/ EndLoop(l)
    \/ \E k \in Keys : CloseItem(k)

Step ==
    \/ gmail_profile \/ gmail_history \/ gmail_recovery_list \/ calendar_events
    \/ \E x \in poll.todo : \/ skip_known(x) \/ skip_old(x) \/ skip_not_inbox(x)
                            \/ note_watcher_reject(x) \/ read_uncounted(x)
                            \/ insert_mail(x) \/ _apply_event(x)
    \/ _matching \/ _finish_item \/ save_calendar_event \/ next_page \/ write_cursor
    \/ \E l \in Loops : bind_open_loop_match(l) \/ close_loop_from_match(l)

Next ==
    \/ Outside \/ Step \/ run_gmail \/ run_calendar
    \/ grant_lost \/ CutShort

\* The process polls for ever and finishes what it began; the owner signs in
\* again; a watch expires in the end (its expires_at, applied by the purge).
Fairness ==
    /\ WF_vars(Step) /\ SF_vars(run_gmail) /\ WF_vars(Reconnect)
    /\ \A l \in Loops : WF_vars(EndLoop(l))

Spec == Init /\ [][Next]_vars /\ Fairness
-----------------------------------------------------------------------------
(* Properties.                                                              *)
Listable(m) == mailbox.where[m] = "inbox" /\ m > mailbox.old
Refused == mailbox.broken \ mailbox.garbled

\* Once the mail cursor has passed a message that came after the first sync
\* and is still in the inbox, the store has it, whatever failed or restarted on
\* the way and whether the cursor came by history or by recovery; except one
\* Gmail refuses, and one older than the recovery window (the order of
\* _run_gmail and _recover_gmail, the cutoff, and _message_failure).
\* And no item is made of an event change that was there when the calendar was
\* first synced, also when that sync was cut and began again or its token
\* expired later (the modes of _sync_calendar, should_insert).
NewIsStored ==
    /\ \A m \in Messages \ Refused :
         base["gmail"] < m /\ m <= cursor.gmail /\ Listable(m) => items[<<m, 0>>].st # "none"
    /\ \A e \in Events, a \in Stamps :
         items[<<e, a>>].st # "none" => base["calendar"] # NoCursor /\ a > base["calendar"]

\* A message the mail cursor has passed, still open in the store, is matched
\* with every open watch on its thread that is older than the message, also
\* when the poll was cut between the insert and the match; except one the
\* owner archived in between, and one a recovery passed as known (_finish_item on a replay).
MatchBound ==
    \A m \in Messages \ passed, l \in Loops :
        /\ base["gmail"] < m /\ m <= cursor.gmail
        /\ Listable(m) /\ items[<<m, 0>>].st = "open"
        /\ loops[l].st = "open" /\ m \in Watched[l] /\ loops[l].since < m
        => items[<<m, 0>>].matched /\ loops[l].matched

\* The watcher ends a watch only when a matched item tells of a change after
\* the watch was made: a death between the two leaves no watch closed in
\* silence (the order of _apply_event and _finish_item).  And when the
\* cancellation of an event is saved, so that it will not be looked at again, no
\* watch that waited for it stays open; except in a first sync and for an event
\* a recovery sees for the first time (_apply_event to its end).
WatchEndsWithEvent ==
    [][/\ \A l \in Loops : loops[l].st = "open" /\ loops'[l].st # "open" /\ poll' # poll =>
            \E k \in Keys : k[1] \in Watched[l] /\ k[2] > loops[l].since /\ items[k].matched
       /\ \A x \in poll.todo :
            /\ x.id \in Events /\ saved'[x.id] # saved[x.id] /\ x.off
            /\ poll.mode = "incremental" \/ (poll.mode = "recovery" /\ saved[x.id] # 0)
            => \A l \in Loops : x.id \in Watched[l] /\ loops[l].since < x.at => loops[l].st # "open"]_vars

\* The mail cursor always catches up with the mailbox again, unless it has to
\* read a message whose reading fails uncounted: a refused message, an expired
\* history and an item closed before its watch hold the polls up, but not for
\* ever.  The uncounted one does, and all mail behind it, until it is deleted.
\* By history it is one after the cursor; a recovery, which reads a message to
\* learn its date, has to read any that it lists (_message_failure,
\* POISON_ATTEMPT_CAP against _cycle_error).
HeldUp ==
    \E m \in mailbox.garbled \cap 1..mailbox.n :
        /\ cursor.gmail # NoCursor /\ mailbox.where[m] # "gone"
        /\ IF cursor.gmail < mailbox.served THEN Listable(m) ELSE cursor.gmail < m
CursorCatchesUp == []<>(cursor.gmail = mailbox.n \/ HeldUp)

=============================================================================
