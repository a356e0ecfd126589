--------------------------- MODULE PhoneDelivery ---------------------------
(***************************************************************************)
(* Delivery of texts from the phone's message provider to the PC's store:  *)
(* CompanionEngine.kt (one id space of it: sms or mms, which run the same  *)
(* code) and the intake half of zola_phone/runtime.py with                 *)
(* proactive_store.ingest_phone_item.                                      *)
(*                                                                         *)
(* The engine runs on one worker thread.  A handler that walks a list of   *)
(* texts saves and sends once per text, and the process can die, the link  *)
(* drop or the PC answer between two of them; `work` is what is left of    *)
(* the running handler, one step below takes one text off it, and a new    *)
(* handler starts only when it is Idle.                                    *)
(***************************************************************************)
EXTENDS Naturals, Sequences, FiniteSets

CONSTANTS
    LastId,     \* provider ids are 1..LastId, in order of arrival
    Window,     \* texts in flight at once (4 in the code)
    Batch,      \* QueryPlan.BATCH: rows one query returns (50 in the code)
    MaxVer,     \* bound: contents one row goes through
    MaxFaults,  \* bound: link drops, deaths, locked stores, failed signatures
    Signing,    \* outcomes of the keystore's sign: {TRUE} or BOOLEAN
    Classes,    \* the classes rows arrive in: {"in"} or {"in", "aside"}
    Deletable,  \* texts the owner may delete on the phone
    Forgettable,\* texts that may be forgotten or purged on the PC
    Refusable,  \* texts with a payload that may fail a check of the PC
    Endless,    \* whether other rows change, and links that lost a frame end, for ever
    CanLock     \* whether the PC's store can be locked when a text comes in

ASSUME Parameters ==
    /\ LastId \in Nat /\ Window \in Nat \ {0} /\ Batch \in Nat \ {0}
    /\ MaxVer \in Nat \ {0} /\ MaxFaults \in Nat
    /\ Signing \subseteq BOOLEAN /\ TRUE \in Signing
    /\ Classes \subseteq {"in", "aside"} /\ "in" \in Classes
    /\ Deletable \subseteq 1..LastId /\ Forgettable \subseteq 1..LastId
    /\ Refusable \subseteq 1..LastId
    /\ Endless \in BOOLEAN /\ CanLock \in BOOLEAN

Texts == 1..LastId

VARIABLES
    row, top,                   \* the phone's message provider
    paired, bound, base,        \* base: the cursor this PC was opened at
    cursor, high, stopped, pending, rev, hash, slot, deleted,   \* saved by the engine
    alive, dirty, opened, work, \* lost when the phone's process dies
    up, toPc, toPhone,          \* the socket
    item, tomb, purged,         \* the PC's store
    refused,                    \* history: texts the PC answered "rejected" about
    faults

provider == <<row, top>>
books == <<paired, bound, base, cursor, high, stopped, pending, rev, hash, slot, deleted>>
process == <<alive, dirty, opened, work>>
link == <<up, toPc, toPhone>>
store == <<item, tomb, purged, refused>>
vars == <<provider, books, process, link, store, faults>>

-----------------------------------------------------------------------------
(* Data *)

\* A row's ver changes with its content; ver 0 is no row.  "aside" rows are
\* those admit returns on before it makes a slot: outbound, spam, restored,
\* or dated more than two days behind the newest text sent.
NoRow == [ver |-> 0, whole |-> FALSE, class |-> "aside"]
Rows == [ver : 0..MaxVer, whole : BOOLEAN, class : {"in", "aside"}]

\* A slot that is not here is the blank one.  body is the content of the
\* payload built last, 0 when there is none (it is not saved); ripe says the
\* retry bound (ten minutes or twenty attempts) has passed.
Blank == [here |-> FALSE, comp |-> "incomplete", fly |-> FALSE, acked |-> FALSE,
          dead |-> FALSE, ripe |-> FALSE, body |-> 0]
Slots == [here : BOOLEAN, comp : {"incomplete", "complete", "exhausted"},
          fly : BOOLEAN, acked : BOOLEAN, dead : BOOLEAN, ripe : BOOLEAN, body : 0..MaxVer]

NoItem == [rev |-> 0, ver |-> 0]
Event(t, r, v) == [kind |-> "event", text |-> t, rev |-> r, ver |-> v]
Deletion(t, r) == [kind |-> "deleted", text |-> t, rev |-> r, ver |-> 0]
Ack(m) == [text |-> m.text, rev |-> m.rev]

Frames == [kind : {"event", "deleted"}, text : Texts, rev : 0..MaxVer, ver : 0..MaxVer]
Acks == [text : Texts, rev : 0..MaxVer]

Idle == [resend |-> {}, seed |-> {}, scan |-> FALSE, admit |-> {},
         tick |-> {}, todrain |-> FALSE, drain |-> {}]
Works == [resend : SUBSET Texts, seed : SUBSET Texts, scan : BOOLEAN, admit : SUBSET Texts,
          tick : SUBSET Texts, todrain : BOOLEAN, drain : SUBSET Texts]

Lowest(S) == CHOOSE t \in S : \A u \in S : t <= u
TakeLowest(S, n) == {t \in S : Cardinality({u \in S : u < t}) < n}

Present == {t \in Texts : row[t].ver > 0}
maxId == IF Present = {} THEN 0 ELSE CHOOSE t \in Present : \A u \in Present : u <= t

inFlight == {t \in Texts : slot[t].fly}
\* slots.count { it.inFlight && it.outcome == null }
Unacked == {t \in inFlight : ~slot[t].dead}
Waiting == {t \in Texts : LET s == slot[t] IN
    s.here /\ ~s.fly /\ ~s.acked /\ ~s.dead /\ s.comp # "incomplete"}

\* The PC has taken the text in, has been told to forget it, or has refused it.
Answered(t) == item[t].rev > 0 \/ t \in tomb \/ t \in refused

-----------------------------------------------------------------------------
(* The message provider.  A change wakes the observer of a live process.   *)

\* A row is read, a text is sent, or the other id space changes.
Touch ==
    /\ Endless /\ alive /\ ~dirty
    /\ dirty' = TRUE
    /\ UNCHANGED <<provider, books, alive, opened, work, link, store, faults>>

Arrive == \E w \in BOOLEAN, c \in Classes :
    /\ top < LastId
    /\ top' = top + 1
    /\ row' = [row EXCEPT ![top + 1] = [ver |-> 1, whole |-> w, class |-> c]]
    /\ dirty' = alive
    /\ UNCHANGED <<books, alive, opened, work, link, store, faults>>

\* Parts of an mms are downloaded, or a row is edited in place.
Change(t) == \E w \in BOOLEAN :
    /\ t \in Present /\ row[t].ver < MaxVer
    /\ row[t].whole => w
    /\ row' = [row EXCEPT ![t] = [ver |-> @.ver + 1, whole |-> w, class |-> @.class]]
    /\ dirty' = alive
    /\ UNCHANGED <<top, books, alive, opened, work, link, store, faults>>

Delete(t) ==
    /\ t \in Deletable /\ t \in Present
    /\ row' = [row EXCEPT ![t] = NoRow]
    /\ dirty' = alive
    /\ UNCHANGED <<top, books, alive, opened, work, link, store, faults>>

\* The watermark moved: t is now dated two days behind a text that was sent.
Backdate(t) ==
    /\ "aside" \in Classes /\ row[t].class = "in" /\ \E u \in Texts : u > t /\ slot[u].fly
    /\ row' = [row EXCEPT ![t].class = "aside"]
    /\ UNCHANGED <<top, books, process, link, store, faults>>

\* Ten minutes, or the twentieth attempt, on an incomplete slot.
Ripen(t) ==
    /\ slot[t].here /\ slot[t].comp = "incomplete" /\ ~slot[t].ripe
    /\ slot' = [slot EXCEPT ![t].ripe = TRUE]
    /\ UNCHANGED <<provider, paired, bound, base, cursor, high, stopped, pending, rev, hash,
                   deleted, process, link, store, faults>>

-----------------------------------------------------------------------------
(* Handlers of the engine.  Each starts when the worker is idle. *)

Ready == alive /\ work = Idle

\* Until it is paired the phone's provider changes only move the high water.
onProviderChanged ==
    /\ Ready /\ dirty
    /\ dirty' = FALSE
    /\ work' = [Idle EXCEPT !.scan = TRUE]
    /\ UNCHANGED <<provider, books, alive, opened, link, store, faults>>

\* acceptBind and openPc: this PC is opened at the current end of the provider,
\* with the rows of the seven-day window left to seed.
acceptBind ==
    /\ Ready /\ up /\ ~bound
    /\ bound' = TRUE
    /\ base' = maxId /\ cursor' = maxId
    /\ pending' = {t \in Present : row[t].class = "in"}
    /\ UNCHANGED <<provider, paired, high, stopped, rev, hash, slot, deleted, process, link,
                   store, faults>>

acceptOk ==
    /\ Ready /\ up /\ bound /\ ~paired
    /\ paired' = TRUE
    /\ work' = [Idle EXCEPT !.resend = inFlight, !.seed = pending \intersect Present]
    /\ UNCHANGED <<provider, bound, base, cursor, high, stopped, pending, rev, hash, slot,
                   deleted, alive, dirty, opened, link, store, faults>>

\* (mutant) a reconnect does not resend what was in flight
onOpen_NoResend ==
    /\ Ready /\ opened
    /\ opened' = FALSE
    /\ work' = IF paired THEN [Idle EXCEPT !.scan = TRUE, !.todrain = TRUE] ELSE Idle
    /\ UNCHANGED <<provider, books, alive, dirty, link, store, faults>>

onOpen ==
    /\ Ready /\ opened
    /\ opened' = FALSE
    /\ work' = IF paired
                 THEN [Idle EXCEPT !.resend = inFlight, !.scan = TRUE, !.todrain = TRUE]
                 ELSE Idle
    /\ UNCHANGED <<provider, books, alive, dirty, link, store, faults>>

tick ==
    LET due == {t \in Texts : LET s == slot[t] IN
            s.here /\ s.comp = "incomplete" /\ s.ripe /\ ~s.acked /\ ~s.dead}
    IN
    /\ Ready /\ bound /\ due # {}
    /\ work' = [Idle EXCEPT !.tick = due]
    /\ UNCHANGED <<provider, books, alive, dirty, opened, link, store, faults>>

\* A ping is a verified frame, and every verified frame drains; with nothing
\* to send, or no room, it changes nothing.
onPing ==
    /\ Ready /\ up /\ paired
    /\ Waiting # {} /\ Cardinality(Unacked) < Window
    /\ work' = [Idle EXCEPT !.todrain = TRUE]
    /\ UNCHANGED <<provider, books, alive, dirty, opened, link, store, faults>>

\* (mutant) acked is not asked for: a waiting slot below the cursor goes too
prune_Unacked(slots, at) == [t \in Texts |->
    IF slots[t].comp = "complete" /\ t <= at THEN Blank ELSE slots[t]]

\* slots.removeAll { acked && complete && at or below the cursor }
prune(slots, at) == [t \in Texts |->
    IF slots[t].acked /\ slots[t].comp = "complete" /\ t <= at THEN Blank ELSE slots[t]]

\* Every known word is an ack, "rejected" too: it is only counted besides.  The
\* ack of a revision that is not the slot's changes nothing.
onAck ==
    /\ Ready /\ paired /\ toPhone # <<>>
    /\ LET a == Head(toPhone)
           t == a.text
           hit == slot[t].here /\ (slot[t].dead \/ a.rev = rev[t])
           done == [slot EXCEPT ![t].fly = FALSE, ![t].acked = TRUE]
           hole == \E u \in Texts : u < t /\ done[u].fly
           at == IF slot[t].dead \/ hole \/ cursor > t THEN cursor ELSE t
       IN /\ slot' = IF hit THEN prune(done, at) ELSE slot
          /\ cursor' = IF hit THEN at ELSE cursor
          /\ deleted' = IF hit /\ slot[t].dead THEN deleted \union {t} ELSE deleted
    /\ toPhone' = Tail(toPhone)
    /\ work' = [Idle EXCEPT !.todrain = TRUE]
    /\ UNCHANGED <<provider, paired, bound, base, high, stopped, pending, rev, hash,
                   alive, dirty, opened, up, toPc, store, faults>>

-----------------------------------------------------------------------------
(* The steps of a handler that is under way. *)

\* (mutant) a sent text counts as acknowledged
dispatch_Optimistic(t, s, m) == \E signed \in Signing :
    /\ signed \/ faults < MaxFaults
    /\ faults' = IF signed THEN faults ELSE faults + 1
    /\ slot' = [slot EXCEPT ![t] = [s EXCEPT !.fly = signed, !.acked = signed]]
    /\ toPc' = IF signed /\ up THEN Append(toPc, m) ELSE toPc

\* dispatch: the slot is saved as in flight before the frame is signed and
\* sent.  A payload without its fields (body 0) the PC drops unread.
dispatch(t, s, m) == \E signed \in Signing :
    /\ signed \/ faults < MaxFaults
    /\ faults' = IF signed THEN faults ELSE faults + 1
    /\ slot' = [slot EXCEPT ![t] = [s EXCEPT !.fly = signed]]
    /\ toPc' = IF signed /\ up /\ (m.kind = "deleted" \/ m.ver > 0)
                 THEN Append(toPc, m) ELSE toPc

\* Rebuilds the payload from the row as it is now, under the slot's revision.
freshSend(t) ==
    IF t \in Present
      THEN /\ dispatch(t, [slot[t] EXCEPT !.body = row[t].ver], Event(t, rev[t], row[t].ver))
           /\ UNCHANGED deleted
      ELSE /\ dispatch(t, [slot[t] EXCEPT !.dead = TRUE], Deletion(t, rev[t]))
           /\ deleted' = deleted \union {t}

resendStep ==
    /\ alive /\ work.resend # {}
    /\ LET t == Lowest(work.resend) IN
          /\ freshSend(t)
          /\ work' = [work EXCEPT !.resend = @ \ {t}]
    /\ UNCHANGED <<provider, paired, bound, base, cursor, high, stopped, pending, rev, hash,
                   alive, dirty, opened, up, toPhone, store>>

\* admit returns before it touches the slot.
Passed(t, seeded) ==
    LET s == slot[t]
        same == rev[t] > 0 /\ hash[t] = row[t].ver
    IN \/ stopped \/ t \notin Present \/ row[t].class # "in"
       \/ ~seeded /\ ~s.here /\ t <= cursor /\ (rev[t] = 0 \/ same)
       \/ s.acked /\ same
       \/ s.fly /\ same

\* The slot admit leaves before it decides whether to send; an acknowledged
\* slot stays acknowledged.
Admitted(t) == [slot[t] EXCEPT
    !.here = TRUE, !.dead = FALSE, !.body = row[t].ver,
    !.comp = IF row[t].whole THEN "complete"
             ELSE IF slot[t].ripe THEN "exhausted" ELSE "incomplete"]

\* (mutant) every admission is a new revision
NextRev_Always(t) == rev[t] + 1

NextRev(t) == IF rev[t] = 0 \/ hash[t] = row[t].ver
                THEN (IF rev[t] = 0 THEN 1 ELSE rev[t]) ELSE rev[t] + 1

admit(t, seeded) ==
    IF Passed(t, seeded)
      THEN UNCHANGED <<rev, hash, slot, toPc, faults>>
      ELSE /\ rev' = [rev EXCEPT ![t] = NextRev(t)]
           /\ hash' = [hash EXCEPT ![t] = row[t].ver]
           /\ IF Admitted(t).comp = "incomplete" \/ Cardinality(Unacked) >= Window
                THEN slot' = [slot EXCEPT ![t] = Admitted(t)] /\ UNCHANGED <<toPc, faults>>
                ELSE dispatch(t, Admitted(t), Event(t, NextRev(t), row[t].ver))

\* sendSeed empties pending before it admits the first row.
seedStep ==
    /\ alive /\ work.resend = {} /\ work.seed # {}
    /\ pending' = {}
    /\ LET t == Lowest(work.seed) IN
          /\ admit(t, TRUE)
          /\ work' = [work EXCEPT !.seed = @ \ {t}]
    /\ UNCHANGED <<provider, paired, bound, base, cursor, high, stopped, deleted,
                   alive, dirty, opened, up, toPhone, store>>

\* (mutant) the query sorts _id DESC
batch_Newest(rows) == {t \in rows : Cardinality({u \in rows : u > t}) < Batch}

\* The query: lowest ids first, at most a batch of rows.
batch(rows) == TakeLowest(rows, Batch)

\* checkReset, then the query: rows above the cursor and those of the slots
\* that are not done.
scanStep ==
    LET halt == stopped \/ maxId < high
        also == {t \in Texts : slot[t].here /\
                   (slot[t].fly \/ ~slot[t].acked \/ slot[t].comp # "complete")}
        rows == {t \in Present : t > cursor \/ t \in TakeLowest(also, Batch)}
    IN
    /\ alive /\ work.resend = {} /\ work.seed = {} /\ work.scan
    /\ high' = IF maxId > high THEN maxId ELSE high
    /\ stopped' = halt
    /\ work' = [work EXCEPT !.scan = FALSE,
                  !.admit = IF paired /\ ~halt THEN batch(rows) ELSE {}]
    /\ UNCHANGED <<provider, paired, bound, base, cursor, pending, rev, hash, slot, deleted,
                   alive, dirty, opened, link, store, faults>>

\* A row that vanished since the query is one the query did not return.
admitStep ==
    /\ alive /\ work.admit # {}
    /\ LET t == Lowest(work.admit) IN
          /\ admit(t, FALSE)
          /\ work' = [work EXCEPT !.admit = @ \ {t}]
    /\ UNCHANGED <<provider, paired, bound, base, cursor, high, stopped, pending, deleted,
                   alive, dirty, opened, up, toPhone, store>>

\* What the tick exhausts it sends at once, with no regard to the window.
tickStep ==
    /\ alive /\ work.tick # {}
    /\ LET t == Lowest(work.tick) IN
          /\ dispatch(t, [slot[t] EXCEPT !.comp = "exhausted"], Event(t, rev[t], slot[t].body))
          /\ work' = [work EXCEPT !.tick = @ \ {t}]
    /\ UNCHANGED <<provider, paired, bound, base, cursor, high, stopped, pending, rev, hash,
                   deleted, alive, dirty, opened, up, toPhone, store>>

drainStart ==
    /\ alive /\ work = [Idle EXCEPT !.todrain = TRUE]
    /\ work' = [Idle EXCEPT !.drain = Waiting]
    /\ UNCHANGED <<provider, books, alive, dirty, opened, link, store, faults>>

drainStep ==
    /\ alive /\ work.drain # {}
    /\ LET t == Lowest(work.drain) IN
         IF Cardinality(Unacked) >= Window
           THEN work' = Idle /\ UNCHANGED <<slot, deleted, toPc, faults>>
           ELSE /\ work' = [work EXCEPT !.drain = @ \ {t}]
                /\ IF slot[t].body = 0
                     THEN freshSend(t)
                     ELSE dispatch(t, slot[t], Event(t, rev[t], slot[t].body)) /\ UNCHANGED deleted
    /\ UNCHANGED <<provider, paired, bound, base, cursor, high, stopped, pending, rev, hash,
                   alive, dirty, opened, up, toPhone, store>>

engineStep == resendStep \/ seedStep \/ scanStep \/ admitStep \/ tickStep \/ drainStart \/ drainStep

-----------------------------------------------------------------------------
(* The PC.  One transaction per frame, the ack after it. *)

\* (mutant) a higher revision replaces the number and keeps the old content
ingest_Stale(m) ==
    LET t == m.text
        kept == item[t]
    IN item' = IF m.kind = "deleted" \/ t \in tomb \/ (kept.rev > 0 /\ m.rev <= kept.rev)
                 THEN item
                 ELSE [item EXCEPT ![t] =
                        [rev |-> m.rev, ver |-> IF kept.rev > 0 THEN kept.ver ELSE m.ver]]

\* A payload that passes every check; pcRefuse is the other case.
ingest(m) ==
    LET t == m.text
        kept == item[t]
    IN item' = IF m.kind = "deleted" \/ t \in tomb \/ (kept.rev > 0 /\ m.rev <= kept.rev)
                 THEN item
                 ELSE [item EXCEPT ![t] =
                        [rev |-> m.rev, ver |-> IF t \in purged THEN kept.ver ELSE m.ver]]

pcReceive ==
    /\ up /\ toPc # <<>>
    /\ ingest(Head(toPc))
    /\ toPc' = Tail(toPc)
    /\ toPhone' = Append(toPhone, Ack(Head(toPc)))
    /\ UNCHANGED <<provider, books, process, up, tomb, purged, refused, faults>>

\* A field fails a check (of kind, time, size, attachment, ...), before any row or
\* tombstone is looked at: nothing is stored, and "rejected" is acknowledged.
pcRefuse ==
    /\ up /\ toPc # <<>> /\ Head(toPc).kind = "event" /\ Head(toPc).text \in Refusable
    /\ refused' = refused \union {Head(toPc).text}
    /\ toPc' = Tail(toPc)
    /\ toPhone' = Append(toPhone, Ack(Head(toPc)))
    /\ UNCHANGED <<provider, books, process, up, item, tomb, purged, faults>>

\* The store answers "locked": the ack carries no known word, so the phone
\* drops it, and the text stays in flight until the next connection.
pcLocked ==
    /\ CanLock /\ faults < MaxFaults /\ up /\ toPc # <<>>
    /\ toPc' = Tail(toPc)
    /\ faults' = faults + 1
    /\ UNCHANGED <<provider, books, process, up, toPhone, store>>

\* The PC dies after the commit and before the ack.
pcDies ==
    /\ faults < MaxFaults /\ up /\ toPc # <<>>
    /\ ingest(Head(toPc))
    /\ up' = FALSE /\ toPc' = <<>> /\ toPhone' = <<>>
    /\ faults' = faults + 1
    /\ UNCHANGED <<provider, books, process, tomb, purged, refused>>

\* forget: the row goes, a tombstone of its identity stays.
pcForget(t) ==
    /\ t \in Forgettable /\ item[t].rev > 0
    /\ item' = [item EXCEPT ![t] = NoItem]
    /\ tomb' = tomb \union {t} /\ purged' = purged \ {t}
    /\ UNCHANGED <<provider, books, process, link, refused, faults>>

\* The seven-day purge, a redaction or a close: the content goes, the row stays.
pcPurge(t) ==
    /\ t \in Forgettable /\ item[t].rev > 0 /\ t \notin purged
    /\ item' = [item EXCEPT ![t].ver = 0]
    /\ purged' = purged \union {t}
    /\ UNCHANGED <<provider, books, process, link, tomb, refused, faults>>

-----------------------------------------------------------------------------
(* The link and the phone's process. *)

\* A boot with no open socket connects, and onOpen is posted to the worker.
connect ==
    /\ alive /\ ~up
    /\ up' = TRUE /\ opened' = TRUE
    /\ UNCHANGED <<provider, books, alive, dirty, work, toPc, toPhone, store, faults>>

\* A text in flight since this connection opened, with nothing of it on its way:
\* the store was locked, or the frame was one the PC does not read.
Lost == up /\ ~opened /\ \E t \in inFlight :
    /\ t \notin work.resend
    /\ \A i \in DOMAIN toPc : toPc[i].text # t
    /\ \A i \in DOMAIN toPhone : toPhone[i].text # t

\* No connection lasts; the end of one that lost a frame is not counted.
linkDrop ==
    /\ up /\ (faults < MaxFaults \/ (Endless /\ Lost))
    /\ up' = FALSE /\ toPc' = <<>> /\ toPhone' = <<>>
    /\ faults' = IF Endless /\ Lost THEN faults ELSE faults + 1
    /\ UNCHANGED <<provider, books, process, store>>

phoneDies ==
    /\ alive /\ faults < MaxFaults
    /\ alive' = FALSE /\ dirty' = FALSE /\ opened' = FALSE /\ work' = Idle
    /\ up' = FALSE /\ toPc' = <<>> /\ toPhone' = <<>>
    /\ slot' = [t \in Texts |-> [slot[t] EXCEPT !.body = 0]]
    /\ faults' = faults + 1
    /\ UNCHANGED <<provider, paired, bound, base, cursor, high, stopped, pending, rev, hash,
                   deleted, store>>

boot ==
    /\ ~alive
    /\ alive' = TRUE
    /\ work' = [Idle EXCEPT !.scan = paired]
    /\ UNCHANGED <<provider, books, dirty, opened, link, store, faults>>

-----------------------------------------------------------------------------
Init ==
    /\ row = [t \in Texts |-> NoRow] /\ top = 0
    /\ paired = FALSE /\ bound = FALSE /\ base = 0
    /\ cursor = 0 /\ high = 0 /\ stopped = FALSE /\ pending = {} /\ deleted = {}
    /\ rev = [t \in Texts |-> 0] /\ hash = [t \in Texts |-> 0]
    /\ slot = [t \in Texts |-> Blank]
    /\ alive = TRUE /\ dirty = FALSE /\ opened = FALSE /\ work = Idle
    /\ up = FALSE /\ toPc = <<>> /\ toPhone = <<>>
    /\ item = [t \in Texts |-> NoItem] /\ tomb = {} /\ purged = {} /\ refused = {}
    /\ faults = 0

Handler == onProviderChanged \/ acceptBind \/ acceptOk \/ onOpen \/ tick \/ onPing \/ onAck

Next ==
    \/ Arrive \/ Touch
    \/ \E t \in Texts : Change(t) \/ Delete(t) \/ Backdate(t) \/ Ripen(t)
    \/ Handler
    \/ engineStep
    \/ pcReceive \/ pcRefuse \/ pcLocked \/ pcDies
    \/ \E t \in Texts : pcForget(t) \/ pcPurge(t)
    \/ connect \/ linkDrop \/ phoneDies \/ boot

Spec == Init /\ [][Next]_vars

\* The worker runs what is posted to it in the order of posting (strong: it may be
\* busy in between), the minute tick posts, the reconnect alarm fires, and the PC
\* reads its socket.
Fairness ==
    /\ WF_vars(engineStep)
    /\ SF_vars(onOpen) /\ SF_vars(onAck) /\ SF_vars(onPing) /\ SF_vars(tick)
    /\ WF_vars(connect) /\ WF_vars(boot) /\ WF_vars(pcReceive \/ pcRefuse)
    /\ \A t \in Texts : WF_vars(Ripen(t))

FairSpec == Spec /\ Fairness

-----------------------------------------------------------------------------
(* Properties *)

TypeOK ==
    /\ row \in [Texts -> Rows] /\ top \in 0..LastId
    /\ paired \in BOOLEAN /\ bound \in BOOLEAN
    /\ base \in 0..LastId /\ cursor \in 0..LastId /\ high \in 0..LastId
    /\ stopped \in BOOLEAN /\ pending \subseteq Texts /\ deleted \subseteq Texts
    /\ rev \in [Texts -> 0..MaxVer] /\ hash \in [Texts -> 0..MaxVer]
    /\ slot \in [Texts -> Slots]
    /\ alive \in BOOLEAN /\ dirty \in BOOLEAN /\ opened \in BOOLEAN /\ work \in Works
    /\ up \in BOOLEAN /\ toPc \in Seq(Frames) /\ toPhone \in Seq(Acks)
    /\ item \in [Texts -> [rev : 0..MaxVer, ver : 0..MaxVer]]
    /\ tomb \subseteq Texts /\ purged \subseteq Texts /\ refused \subseteq Texts
    /\ faults \in 0..MaxFaults

\* The phone no longer tracks a text it once gave a revision.
Settled(t) == rev[t] > 0 /\ (~slot[t].here \/ slot[t].acked)

\* A text is settled only when the PC took it in, was told to forget it or said
\* it will not have it, or its row vanished: whatever link, process or PC died on
\* the way (CompanionEngine.onAck and prune against Engine._ingest).
NothingLost == \A t \in Texts : Settled(t) => Answered(t) \/ t \in deleted

\* The cursor passes a text of this PC's time only if the text has a slot or the
\* PC took it in or refused it: a crash in a scan, or a full window, skips none
\* (CompanionEngine.scanAboveCursors, admit, onAck).
CursorSkipsNone == \A t \in Present :
    (bound /\ base < t /\ t <= cursor /\ row[t].class = "in") => slot[t].here \/ Answered(t)

\* The PC never holds a revision the phone has not saved, so a restarted
\* phone cannot give a used number to other content (dispatch saves first).
PcNeverAhead == \A t \in Texts : item[t].rev <= rev[t]

\* When the PC has the very revision the phone settled, it has content at
\* least as new as the phone fingerprinted for it, although a resend carries
\* today's body under the old number (freshPayload).
FreshContent == \A t \in Texts :
    (Settled(t) /\ ~slot[t].fly /\ item[t].rev = rev[t] /\ t \notin purged)
        => item[t].ver >= hash[t]

\* What NothingLost needs to be inductive: revisions count contents, a slot has
\* a revision, and every frame and ack on the wire is backed by what was saved.
Numbers == \A t \in Texts :
    /\ rev[t] <= hash[t]
    /\ row[t].ver > 0 => hash[t] <= row[t].ver
    /\ t > top => hash[t] = 0 /\ row[t].ver = 0
SlotsKnown == \A t \in Texts :
    /\ slot[t].here => rev[t] > 0
    /\ (slot[t].fly \/ slot[t].acked \/ slot[t].dead) => slot[t].here
    /\ slot[t].dead => t \in deleted
WorkKnown == \A t \in work.resend \union work.tick \union work.drain : slot[t].here
GoodFrames == {m \in Frames :
    /\ m.rev <= rev[m.text]
    /\ m.kind = "event" => m.rev > 0
    /\ m.kind = "deleted" => m.text \in deleted}
GoodAcks == {a \in Acks : Answered(a.text) \/ a.text \in deleted}
WireKnown == toPc \in Seq(GoodFrames) /\ toPhone \in Seq(GoodAcks)

IInv ==
    /\ TypeOK /\ Numbers /\ SlotsKnown /\ WorkKnown /\ WireKnown
    /\ PcNeverAhead /\ NothingLost

\* What the refinement needs besides: a text the engine stopped tracking is at
\* or below the cursor and in no list of the running handler, so that no
\* handler starts to track it again.
Tracked ==
    /\ paired => bound
    /\ (work.admit # {} \/ work.seed # {}) => paired
    /\ work.admit = {} \/ work.seed = {}
    /\ ~paired => \A t \in Texts : rev[t] = 0
    /\ \A t \in Texts : rev[t] > 0 /\ ~slot[t].here => t <= cursor
    /\ \A t \in work.admit : t > cursor \/ slot[t].here
    /\ \A t \in work.seed : rev[t] = 0

\* Refinement: the link implements TextIntake.
Intake == INSTANCE TextIntake WITH
    assigned <- rev,
    held <- [t \in Texts |-> item[t].rev],
    forgotten <- tomb,
    refused <- refused,
    withdrawn <- deleted,
    settled <- {t \in Texts : Settled(t)}
IntakeSpec == Intake!Spec

\* Rows the engine will never send and the query still returns: those set aside
\* above the cursor, and the exhausted ones, whose slots are never pruned.
Idlers == {t \in Present :
    \/ t > cursor /\ row[t].class = "aside"
    \/ slot[t].acked /\ ~slot[t].fly /\ slot[t].comp = "exhausted"}
Starved(t) == Cardinality({u \in Idlers : u < t}) >= Batch

\* A text that arrives once the PC is bound is taken in or refused by it, over
\* drops, deaths and locked stores, if scans never cease and a link that lost a
\* frame ends in time: else its row goes, the id space is stopped, or a whole
\* batch of rows below it is never sent.  One scan is not enough, although onOpen
\* says "a text that arrived while the link was down is sent": it reads one batch.
Delivered ==
    ([]<>(paired /\ work.scan) /\ (Lost ~> ~up)) => \A t \in Texts :
        \/ <>[](Starved(t) \/ stopped)
        \/ [](bound /\ top < t =>
               [](row[t].class = "in" => <>(Answered(t) \/ row[t].class # "in")))

=============================================================================
