--------------------------- MODULE ProactiveItem ---------------------------
(***************************************************************************)
(* The life of a mail or calendar item in zola_workspace/proactive_store:  *)
(* ranked by a background worker, matched to a watch, surfaced in a turn,  *)
(* spoken by the Windows client, acknowledged, dismissed, forgotten, and   *)
(* emptied by the hourly purge.                                            *)
(*                                                                         *)
(* The callers are other threads and processes that may be late, repeat    *)
(* themselves or die, so the store is given to any caller: each operation  *)
(* below is one transaction, with any attempt id that was ever issued.     *)
(* What the operations read of the clock is kept as facts that the clock   *)
(* actions change: whether a lease is live, a surface attempt fresh, an    *)
(* injection rested, and how old a row is.                                 *)
(***************************************************************************)
EXTENDS Naturals, FiniteSets

CONSTANTS
    N,           \* items are 1..N, in order of detection
    Mail,        \* the items that came by mail; the others are calendar changes
    Person,      \* the items a person watch covers
    OneShot,     \* whether that watch has lifetime "once"
    RankCap,     \* RANK_ATTEMPT_CAP (5 in the code)
    InjectCap,   \* SURFACE_REINJECT_CAP (2 in the code)
    MaxAttempts, \* bound: rows of item_attempts
    MaxTurns     \* bound: turns that surface items

ASSUME Parameters ==
    /\ N \in Nat /\ MaxAttempts \in Nat /\ MaxTurns \in Nat
    /\ RankCap \in Nat \ {0} /\ InjectCap \in Nat
    /\ Mail \subseteq 1..N /\ Person \subseteq 1..N /\ OneShot \in BOOLEAN

Items == 1..N
Attempts == 1..MaxAttempts
Turns == 1..MaxTurns

VARIABLES
    item,       \* the items table, by item
    attempt,    \* item_attempts, by attempt id
    deliveries, \* the attempts that have a row in the deliveries table
    issued,     \* attempt ids handed out
    turn,       \* turns that began
    watching    \* the person watch is open

vars == <<item, attempt, deliveries, issued, turn, watching>>

\* life: a row is unseen until it is inserted and gone once it is deleted.
\* body, text: those columns are not NULL.  acked: acknowledged_at is set.
\* surf: the turn of the provisional surface attempt, 0 for NULL; fresh: it is
\* inside its TTL.  age 0: may still be spoken; 2: past the seven days.
Rows == [life : {"unseen", "here", "gone"},
         proc : {"unranked", "ranked", "rank_failed"},
         elig : {"pending", "eligible", "suppressed", "expired"},
         conv : {"none", "selected", "possibly_surfaced", "acknowledged"},
         deliv : {"none", "claimed", "speech_started", "delivered", "delivery_uncertain"},
         content : {"available", "content_expired", "forgotten"},
         closed : {"no", "dismissed", "aged_out"},
         matched : BOOLEAN, body : BOOLEAN, text : BOOLEAN,
         fails : 0..RankCap, told : 0..InjectCap,
         surf : 0..MaxTurns, fresh : BOOLEAN, rested : BOOLEAN, age : 0..2]
Blank == [life |-> "unseen", proc |-> "unranked", elig |-> "pending", conv |-> "none",
          deliv |-> "none", content |-> "available", closed |-> "no",
          matched |-> FALSE, body |-> TRUE, text |-> TRUE, fails |-> 0, told |-> 0,
          surf |-> 0, fresh |-> FALSE, rested |-> TRUE, age |-> 0]

Gone == [Blank EXCEPT !.life = "gone", !.body = FALSE, !.text = FALSE]

\* live: the lease has not expired.
AttemptRows == [item : Items, purpose : {"rank", "speech"},
                status : {"open", "completed", "released", "uncertain"}, live : BOOLEAN]
NoAttempt == [item |-> 0, purpose |-> "none", status |-> "none", live |-> FALSE]

Here(i) == item[i].life = "here"
Open(i, p) == {a \in Attempts : /\ attempt[a].item = i /\ attempt[a].purpose = p
                                /\ attempt[a].status = "open"}
Live(i, p) == {a \in Open(i, p) : attempt[a].live}
First(S) == CHOOSE i \in S : \A j \in S : i <= j
Speaking == {"claimed", "speech_started"}
Started == {"speech_started", "delivered", "delivery_uncertain"}
inFlight == {"claimed", "speech_started", "delivery_uncertain"}

Become(i, r) == item' = [item EXCEPT ![i] = r]
Mark(a, s) == attempt' = [attempt EXCEPT ![a].status = s]
Issue == issued < MaxAttempts /\ issued' = issued + 1
Opened(att, i, p) ==
    [att EXCEPT ![issued + 1] = [item |-> i, purpose |-> p, status |-> "open", live |-> TRUE]]

-----------------------------------------------------------------------------
(* Arrival and the watch. *)

insert_item(i) ==
    /\ item[i].life = "unseen" /\ \A j \in Items : j < i => item[j].life # "unseen"
    /\ Become(i, [Blank EXCEPT !.life = "here"])
    /\ UNCHANGED <<attempt, deliveries, issued, turn, watching>>

\* A reply watch is bound to the one item that answers it; a person watch has
\* to be open still.
bind_open_loop_match(i) ==
    /\ Here(i) /\ item[i].closed = "no" /\ ~item[i].matched
    /\ i \in Person => watching
    /\ Become(i, [item[i] EXCEPT !.matched = TRUE,
                    !.elig = IF @ = "pending" THEN "eligible" ELSE @])
    /\ UNCHANGED <<attempt, deliveries, issued, turn, watching>>

insert_loop ==
    /\ ~watching /\ Person # {}
    /\ watching' = TRUE
    /\ UNCHANGED <<item, attempt, deliveries, issued, turn>>

\* Speech and acknowledgement close a one-shot watch that matches the item.
satisfyWatches(i) == watching' = (watching /\ ~(OneShot /\ i \in Person))

-----------------------------------------------------------------------------
(* Ranking. *)

Rankable(i) ==
    /\ Here(i) /\ item[i].closed = "no" /\ item[i].content = "available"
    /\ item[i].proc = "unranked"

rankReady == {i \in Mail : Rankable(i) /\ item[i].body /\ Live(i, "rank") = {}}

claim_next_rank ==
    /\ rankReady # {}
    /\ Issue
    /\ attempt' = Opened(attempt, First(rankReady), "rank")
    /\ UNCHANGED <<item, deliveries, turn, watching>>

\* (mutant) the row is not looked at again after the model call
complete_rank_Blind(a, label) ==
    LET i == attempt[a].item IN
    /\ i \in Items /\ Here(i) /\ a \in Live(i, "rank")
    /\ Become(i, [item[i] EXCEPT !.proc = "ranked", !.body = FALSE, !.text = TRUE,
                    !.elig = IF item[i].matched \/ label # "ignore" THEN "eligible"
                             ELSE "suppressed"])
    /\ Mark(a, "completed")
    /\ UNCHANGED <<deliveries, issued, turn, watching>>

\* The gist is a text column, and the body goes with it.
complete_rank(a, label) ==
    LET i == attempt[a].item IN
    /\ i \in Items /\ Rankable(i) /\ a \in Live(i, "rank")
    /\ Become(i, [item[i] EXCEPT !.proc = "ranked", !.body = FALSE, !.text = TRUE,
                    !.elig = IF item[i].matched \/ label # "ignore" THEN "eligible"
                             ELSE "suppressed"])
    /\ Mark(a, "completed")
    /\ UNCHANGED <<deliveries, issued, turn, watching>>

\* (mutant) one failure too many
fail_rank_Late(a) ==
    LET i == attempt[a].item
        last == item[i].fails >= RankCap
    IN
    /\ i \in Items /\ Rankable(i) /\ a \in Live(i, "rank")
    /\ Become(i, [item[i] EXCEPT !.fails = @ + 1,
                    !.proc = IF last THEN "rank_failed" ELSE @,
                    !.body = IF last THEN FALSE ELSE @])
    /\ Mark(a, "released")
    /\ UNCHANGED <<deliveries, issued, turn, watching>>

fail_rank(a) ==
    LET i == attempt[a].item
        last == item[i].fails + 1 >= RankCap
    IN
    /\ i \in Items /\ Rankable(i) /\ a \in Live(i, "rank")
    /\ Become(i, [item[i] EXCEPT !.fails = @ + 1,
                    !.proc = IF last THEN "rank_failed" ELSE @,
                    !.body = IF last THEN FALSE ELSE @])
    /\ Mark(a, "released")
    /\ UNCHANGED <<deliveries, issued, turn, watching>>

release_rank_transient(a) ==
    /\ attempt[a].purpose = "rank" /\ attempt[a].status = "open"
    /\ Mark(a, "released")
    /\ UNCHANGED <<item, deliveries, issued, turn, watching>>

rank_calendar(i) ==
    /\ i \notin Mail /\ Rankable(i)
    /\ Become(i, [item[i] EXCEPT !.proc = "ranked", !.elig = "eligible"])
    /\ UNCHANGED <<attempt, deliveries, issued, turn, watching>>

-----------------------------------------------------------------------------
(* Speech. *)

\* (mutant) an expired claim and an expired line are both given back
recoverItems_Reclaim ==
    LET due(i) == \E a \in Open(i, "speech") : ~attempt[a].live
    IN [i \in Items |->
          IF due(i) /\ item[i].deliv \in Speaking THEN [item[i] EXCEPT !.deliv = "none"]
          ELSE item[i]]

\* (mutant) only claims are recovered
recoverItems_Claims ==
    LET due(i) == \E a \in Open(i, "speech") : ~attempt[a].live
    IN [i \in Items |->
          IF due(i) /\ item[i].deliv = "claimed" THEN [item[i] EXCEPT !.deliv = "none"]
          ELSE item[i]]

\* _recover_speech_locked: an expired claim returns to none, an expired line
\* that had started becomes uncertain.
recoverItems ==
    LET due(i) == \E a \in Open(i, "speech") : ~attempt[a].live
    IN [i \in Items |->
          IF due(i) /\ item[i].deliv = "claimed" THEN [item[i] EXCEPT !.deliv = "none"]
          ELSE IF due(i) /\ item[i].deliv = "speech_started"
            THEN [item[i] EXCEPT !.deliv = "delivery_uncertain"]
          ELSE item[i]]

recoverAttempts == [a \in Attempts |->
    IF attempt[a].purpose # "speech" \/ attempt[a].status # "open" \/ attempt[a].live
      THEN attempt[a]
    ELSE IF item[attempt[a].item].deliv = "claimed" THEN [attempt[a] EXCEPT !.status = "released"]
    ELSE IF item[attempt[a].item].deliv = "speech_started"
      THEN [attempt[a] EXCEPT !.status = "uncertain"]
    ELSE attempt[a]]

\* Startup of the client, and the start of every turn.
recover_speech ==
    /\ item' = recoverItems /\ attempt' = recoverAttempts
    /\ attempt' # attempt
    /\ UNCHANGED <<deliveries, issued, turn, watching>>

\* _speech_block_reason finds nothing against it, in the rows it.
Speakable(it, i) ==
    /\ it[i].life = "here" /\ it[i].matched /\ it[i].elig = "eligible" /\ it[i].deliv = "none"
    /\ it[i].closed = "no" /\ it[i].conv # "acknowledged" /\ it[i].content = "available"
    /\ ~(it[i].surf # 0 /\ it[i].fresh) /\ it[i].age = 0
    /\ ~(watching /\ i \in Person /\ \E j \in Person \ {i} :
            it[j].life = "here" /\ it[j].deliv \in Speaking)

\* Recovery is committed first, then the oldest speakable row is claimed.
speechReady == {i \in Items : Speakable(recoverItems, i)}
claim_next_speech ==
    /\ speechReady # {}
    /\ Issue
    /\ item' = [recoverItems EXCEPT ![First(speechReady)].deliv = "claimed"]
    /\ attempt' = Opened(recoverAttempts, First(speechReady), "speech")
    /\ UNCHANGED <<deliveries, turn, watching>>

Claimed(i, a) == Here(i) /\ item[i].deliv = "claimed" /\ a \in Open(i, "speech")
Spoken(i, a) == Here(i) /\ item[i].deliv = "speech_started" /\ a \in Open(i, "speech")

\* An expired lease that nothing recovered yet is renewed.
mark_speech_started(i, a) ==
    /\ Claimed(i, a)
    /\ Become(i, [item[i] EXCEPT !.deliv = "speech_started"])
    /\ attempt' = [attempt EXCEPT ![a].live = TRUE]
    /\ UNCHANGED <<deliveries, issued, turn, watching>>

\* A repeated or contradicting report changes nothing.
mark_delivered(i, a) ==
    /\ Spoken(i, a)
    /\ Become(i, [item[i] EXCEPT !.deliv = "delivered"])
    /\ Mark(a, "completed")
    /\ deliveries' = deliveries \union {a}
    /\ satisfyWatches(i)
    /\ UNCHANGED <<issued, turn>>

mark_delivery_uncertain(i, a) ==
    /\ Spoken(i, a)
    /\ Become(i, [item[i] EXCEPT !.deliv = "delivery_uncertain"])
    /\ Mark(a, "uncertain")
    /\ UNCHANGED <<deliveries, issued, turn, watching>>

release_speech_claim(i, a) ==
    /\ Claimed(i, a)
    /\ Become(i, [item[i] EXCEPT !.deliv = "none"])
    /\ Mark(a, "released")
    /\ UNCHANGED <<deliveries, issued, turn, watching>>

-----------------------------------------------------------------------------
(* Surfacing in a turn.  A turn's attempt id is the number of the turn. *)

begin_turn ==
    /\ turn < MaxTurns
    /\ turn' = turn + 1
    /\ UNCHANGED <<item, attempt, deliveries, issued, watching>>

Tellable(r) ==
    /\ r.life = "here" /\ r.closed = "no" /\ r.content = "available"
    /\ r.conv # "acknowledged" /\ r.told < InjectCap

provisional_select(i, t) ==
    LET r == item[i] IN
    /\ t \in 1..turn /\ Tellable(r)
    /\ \/ r.proc = "ranked" /\ r.elig = "eligible"
       \/ r.matched /\ r.proc # "rank_failed" /\ r.elig \notin {"suppressed", "expired"}
    /\ r.conv = "none" \/ r.rested
    /\ Become(i, [r EXCEPT !.surf = t, !.fresh = TRUE])
    /\ UNCHANGED <<attempt, deliveries, issued, turn, watching>>

Confirmable(r, t) ==
    /\ Tellable(r) /\ r.surf = t /\ r.fresh
    /\ \/ r.proc = "ranked" /\ r.elig = "eligible"
       \/ r.matched /\ r.elig \notin {"suppressed", "expired"}

confirm_surface_attempt(t) ==
    /\ \E i \in Items : Confirmable(item[i], t)
    /\ item' = [i \in Items |->
         IF Confirmable(item[i], t)
           THEN [item[i] EXCEPT !.conv = "selected", !.told = @ + 1, !.rested = FALSE,
                   !.surf = 0, !.fresh = FALSE]
           ELSE item[i]]
    /\ UNCHANGED <<attempt, deliveries, issued, turn, watching>>

release_surface_attempt(t) ==
    /\ \E i \in Items : Here(i) /\ item[i].surf = t
    /\ item' = [i \in Items |-> IF item[i].surf = t
                                  THEN [item[i] EXCEPT !.surf = 0, !.fresh = FALSE]
                                  ELSE item[i]]
    /\ UNCHANGED <<attempt, deliveries, issued, turn, watching>>

mark_possibly_surfaced(i) ==
    /\ Here(i) /\ item[i].conv = "selected"
    /\ Become(i, [item[i] EXCEPT !.conv = "possibly_surfaced"])
    /\ UNCHANGED <<attempt, deliveries, issued, turn, watching>>

-----------------------------------------------------------------------------
(* What the owner says. *)

acknowledge(i) ==
    /\ Here(i) /\ item[i].conv # "acknowledged" /\ item[i].closed = "no"
    /\ item[i].elig \notin {"suppressed", "expired"} /\ item[i].content = "available"
    /\ Become(i, [item[i] EXCEPT !.conv = "acknowledged"])
    /\ satisfyWatches(i)
    /\ UNCHANGED <<attempt, deliveries, issued, turn>>

\* The texts go at once; a body that is not ranked yet waits for the purge.
dismiss_item(i) ==
    /\ Here(i) /\ item[i].closed = "no" /\ item[i].deliv \notin Speaking
    /\ item[i].content = "available"
    /\ Become(i, [item[i] EXCEPT !.closed = "dismissed", !.text = FALSE])
    /\ UNCHANGED <<attempt, deliveries, issued, turn, watching>>

Redacted(r) == [r EXCEPT !.content = "forgotten", !.body = FALSE, !.text = FALSE]

\* (mutant) a line under way is deleted like any other row, its attempts not
forgetAttempts_Kept(S) == [a \in Attempts |->
    IF attempt[a].item \in S /\ item[attempt[a].item].deliv \notin inFlight
      THEN NoAttempt ELSE attempt[a]]

\* Rows that are not in flight lose their attempts; a redacted row's speech
\* attempts are released, its rank attempts stay.
forgetAttempts(S) == [a \in Attempts |->
    IF attempt[a].item \notin S THEN attempt[a]
    ELSE IF item[attempt[a].item].deliv \notin inFlight THEN NoAttempt
    ELSE IF attempt[a].purpose = "speech" /\ attempt[a].status \in {"open", "uncertain"}
      THEN [attempt[a] EXCEPT !.status = "released"]
    ELSE attempt[a]]

\* (mutant) the delivery rows of a deleted item are left behind
forgetDeliveries_Kept(S) == deliveries
forgetDeliveries(S) == {a \in deliveries :
    attempt[a].item \in S => item[attempt[a].item].deliv \in inFlight}

\* S: the rows of one subject.  A row in flight is redacted, the others go.
forget_subject(S) ==
    /\ S # {} /\ \A i \in S : Here(i)
    /\ item' = [i \in Items |->
         IF i \notin S THEN item[i]
         ELSE IF item[i].deliv \in inFlight THEN Redacted(item[i])
         ELSE Gone]
    /\ attempt' = forgetAttempts(S)
    /\ deliveries' = forgetDeliveries(S)
    /\ watching' = (watching /\ S \intersect Person = {})
    /\ UNCHANGED <<issued, turn>>

-----------------------------------------------------------------------------
(* The hourly purge. *)

\* A body is emptied after seven days, and an unranked row with it.
Unbodied(r) ==
    IF r.age # 2 \/ ~r.body THEN r
    ELSE IF r.proc = "unranked" /\ r.content = "available"
      THEN [r EXCEPT !.body = FALSE, !.content = "content_expired",
              !.elig = IF r.matched THEN "eligible" ELSE "expired"]
    ELSE IF r.proc # "unranked" THEN [r EXCEPT !.body = FALSE]
    ELSE r

Untexted(r) ==
    IF /\ r.content # "forgotten"
       /\ \/ r.age = 2
          \/ r.deliv = "delivered" /\ (r.conv = "acknowledged" \/ r.closed # "no")
      THEN [r EXCEPT !.text = FALSE]
      ELSE r

Emptied(r, mail) ==
    IF mail /\ r.content = "available" /\ ~r.body /\ ~r.text
      THEN [r EXCEPT !.content = "content_expired"]
      ELSE r

\* A matched row stays open while a loop that is still open names it.
AgedOut(r, kept) ==
    IF r.closed = "no" /\ r.age = 2 /\ r.deliv \notin Speaking /\ ~kept
      THEN [r EXCEPT !.closed = "aged_out"]
      ELSE r

Purged(r, mail, kept) ==
    IF r.life # "here" THEN r ELSE AgedOut(Emptied(Untexted(Unbodied(r)), mail), kept)

\* Recovery of speech and of rank leases, then one transaction over the rows.
\* kept: the matched rows that an open loop protects; old: deliveries past
\* thirty days; lapsed: the person watch is past its expiry.
purge_retention(kept, old, lapsed) ==
    /\ \A i \in kept : item[i].matched
    /\ \A a \in old : Here(attempt[a].item) /\ item[attempt[a].item].age = 2
    /\ item' = [i \in Items |-> Purged(recoverItems[i], i \in Mail, i \in kept)]
    /\ attempt' = [a \in Attempts |->
         IF /\ attempt[a].purpose = "rank" /\ attempt[a].status = "open" /\ ~attempt[a].live
           THEN [attempt[a] EXCEPT !.status = "released"]
           ELSE recoverAttempts[a]]
    /\ deliveries' = deliveries \ old
    /\ watching' = (watching /\ ~lapsed)
    /\ UNCHANGED <<issued, turn>>

-----------------------------------------------------------------------------
(* The clock. *)

LeaseExpires(a) ==
    /\ attempt[a].status = "open" /\ attempt[a].live
    /\ attempt' = [attempt EXCEPT ![a].live = FALSE]
    /\ UNCHANGED <<item, deliveries, issued, turn, watching>>

SurfaceLapses(i) ==
    /\ Here(i) /\ item[i].fresh
    /\ Become(i, [item[i] EXCEPT !.fresh = FALSE])
    /\ UNCHANGED <<attempt, deliveries, issued, turn, watching>>

Rests(i) ==
    /\ Here(i) /\ ~item[i].rested
    /\ Become(i, [item[i] EXCEPT !.rested = TRUE])
    /\ UNCHANGED <<attempt, deliveries, issued, turn, watching>>

\* A line is claimed in the first two hours and its lease is minutes.
Ages(i) ==
    /\ Here(i) /\ item[i].age < 2
    /\ item[i].age = 1 => Live(i, "speech") = {}
    /\ Become(i, [item[i] EXCEPT !.age = @ + 1])
    /\ UNCHANGED <<attempt, deliveries, issued, turn, watching>>

-----------------------------------------------------------------------------
Init ==
    /\ item = [i \in Items |-> Blank]
    /\ attempt = [a \in Attempts |-> NoAttempt]
    /\ deliveries = {} /\ issued = 0 /\ turn = 0 /\ watching = FALSE

Watcher == insert_loop \/ \E i \in Items : insert_item(i) \/ bind_open_loop_match(i)
Ranker ==
    \/ claim_next_rank
    \/ \E i \in Items : rank_calendar(i)
    \/ \E a \in Attempts :
         \/ \E label \in {"ignore", "normal"} : complete_rank(a, label)
         \/ fail_rank(a) \/ release_rank_transient(a)
Speech ==
    \/ recover_speech \/ claim_next_speech
    \/ \E i \in Items, a \in Attempts :
         \/ mark_speech_started(i, a) \/ mark_delivered(i, a)
         \/ mark_delivery_uncertain(i, a) \/ release_speech_claim(i, a)
Surface ==
    \/ begin_turn
    \/ \E t \in Turns : \/ \E i \in Items : provisional_select(i, t)
                        \/ confirm_surface_attempt(t) \/ release_surface_attempt(t)
    \/ \E i \in Items : mark_possibly_surfaced(i)
Owner ==
    \/ \E i \in Items : acknowledge(i) \/ dismiss_item(i)
    \/ \E S \in SUBSET Items : forget_subject(S)
Purge == \E kept \in SUBSET Items, old \in SUBSET deliveries, lapsed \in BOOLEAN :
    purge_retention(kept, old, lapsed)
Clock ==
    \/ \E a \in Attempts : LeaseExpires(a)
    \/ \E i \in Items : SurfaceLapses(i) \/ Rests(i) \/ Ages(i)

Next == Watcher \/ Ranker \/ Speech \/ Surface \/ Owner \/ Purge \/ Clock
Spec == Init /\ [][Next]_vars

\* Leases run out, days pass, and the purge runs every hour: nothing else is
\* owed, since the ranker, the client and the owner may stop for good.
Fairness ==
    /\ WF_vars(purge_retention({}, {}, FALSE))
    /\ \A a \in Attempts : WF_vars(LeaseExpires(a))
    /\ \A i \in Items : WF_vars(Ages(i))
FairSpec == Spec /\ Fairness

-----------------------------------------------------------------------------
\* Every variable keeps its type.
TypeOK ==
    /\ item \in [Items -> Rows]
    /\ attempt \in [Attempts -> AttemptRows \union {NoAttempt}]
    /\ deliveries \subseteq Attempts /\ issued \in 0..MaxAttempts
    /\ turn \in 0..MaxTurns /\ watching \in BOOLEAN

\* The delivery column and the attempts agree through every race of client,
\* recovery, purge and forget: an item is being spoken exactly when it has an
\* open speech attempt, never two, and a forgotten line has none.  Attempts of
\* deleted rows are deleted (mark_*, _recover_speech_locked, _forget_subject).
ClaimMatches ==
    /\ \A a \in Attempts : attempt[a].item \in Items => Here(attempt[a].item)
    /\ \A i \in Items : Here(i) =>
         /\ \A a, b \in Open(i, "speech") : a = b
         /\ Open(i, "speech") # {} <=>
              item[i].deliv \in Speaking /\ item[i].content # "forgotten"

\* Delivered means one attempt ended as completed and none other did, and the
\* deliveries table names only such attempts (mark_delivered; P9-D11).
EvidencedDelivery ==
    LET done(i) == {a \in Attempts : /\ attempt[a].item = i /\ attempt[a].purpose = "speech"
                                     /\ attempt[a].status = "completed"}
    IN
    /\ \A i \in Items : Here(i) =>
         /\ \A a, b \in done(i) : a = b
         /\ (item[i].deliv = "delivered") <=> (done(i) # {})
    /\ \A a \in deliveries : attempt[a].item \in Items /\ a \in done(attempt[a].item)

\* A line that may have been heard is never spoken again: once speech started
\* the row never returns to none or claimed, and delivered and uncertain are
\* final, whatever recovery, purge or a late caller does (P9-D06).
SpeechMonotone ==
    [][\A i \in Items :
         item[i].deliv \in Started /\ Here(i)' =>
            /\ item'[i].deliv \in Started
            /\ item[i].deliv # "speech_started" => item'[i].deliv = item[i].deliv]_vars

\* What was emptied is not filled again by a late completion: content that
\* expired or was forgotten stays so, a body does not come back, and the texts
\* of a forgotten or dismissed row stay deleted (complete_rank against forget,
\* dismiss and purge; P9-D07).
GoneStaysGone ==
    [][\A i \in Items : item[i].life # "unseen" =>
         /\ item'[i].life # "unseen"
         /\ item[i].life = "gone" => item'[i].life = "gone"
         /\ item[i].content # "available" /\ Here(i)' => item'[i].content # "available"
         /\ ~item[i].body => ~item'[i].body
         /\ item[i].content = "forgotten" \/ item[i].closed = "dismissed" =>
              ~item[i].text /\ ~item'[i].text]_vars

\* The same for every row whose line was not forgotten under way.
Settles == \A i \in Items :
    Here(i) /\ item[i].deliv \in Speaking ~>
        ~(Here(i) /\ item[i].deliv \in Speaking /\ item[i].content # "forgotten")

=============================================================================
