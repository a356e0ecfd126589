--------------------------- MODULE Watcher_proofs ---------------------------
(***************************************************************************)
(* Proofs about Watcher.                                                   *)
(***************************************************************************)
EXTENDS Watcher, TLAPS

-----------------------------------------------------------------------------
(* Types. *)
LEMMA Numerals == M \in Nat /\ MaxChanges \in Nat /\ PoisonCap \in Nat /\ PoisonCap > 0 /\ MaxFaults \in Nat
  BY Parameters

Parts == /\ mailbox \in Boxes /\ calendar \in Calendars /\ signedIn \in BOOLEAN
         /\ items \in [Keys -> [st : {"none", "open", "closed"}, matched : BOOLEAN]]
         /\ loops \in [Loops -> [st : {"new", "open", "over"}, matched : BOOLEAN, since : Nat]]

LEMMA BoxesMove ==
    ASSUME mailbox \in Boxes, Arrive \/ HistoryExpires \/ MailAges \/ \E m \in Messages, w \in {"moved", "gone"} : Leave(m, w)
    PROVE  mailbox' \in Boxes
<1>n. mailbox.n \in 0..M /\ mailbox.served \in 0..M /\ mailbox.old \in 0..M
      /\ mailbox.where \in [Messages -> {"inbox", "moved", "gone"}]
  BY DEF Boxes
<1>1. CASE Arrive
  <2>1. mailbox.n + 1 \in 0..M
    BY <1>1, <1>n, Numerals DEF Arrive
  <2>2. mailbox' = [mailbox EXCEPT !.n = mailbox.n + 1]
    BY <1>1 DEF Arrive
  <2> QED BY <2>1, <2>2 DEF Boxes
<1>2. CASE HistoryExpires
  BY <1>2, <1>n DEF HistoryExpires, Boxes
<1>3. CASE MailAges
  <2>1. mailbox.old + 1 \in 0..M
    BY <1>3, <1>n, Numerals DEF MailAges
  <2>2. mailbox' = [mailbox EXCEPT !.old = mailbox.old + 1]
    BY <1>3 DEF MailAges
  <2> QED BY <2>1, <2>2 DEF Boxes
<1>4. ASSUME NEW m \in Messages, NEW w \in {"moved", "gone"}, Leave(m, w) PROVE mailbox' \in Boxes
  <2>1. [mailbox.where EXCEPT ![m] = w] \in [Messages -> {"inbox", "moved", "gone"}]
    BY <1>n
  <2>2. mailbox' = [mailbox EXCEPT !.where = [mailbox.where EXCEPT ![m] = w]]
    BY <1>4 DEF Leave
  <2> QED BY <2>1, <2>2 DEF Boxes
<1> QED BY <1>1, <1>2, <1>3, <1>4

LEMMA CalendarMoves ==
    ASSUME calendar \in Calendars, TokensExpire \/ \E e \in Events, off \in BOOLEAN : Change(e, off)
    PROVE  calendar' \in Calendars
<1>n. calendar.n \in 0..MaxChanges /\ calendar.event \in [Events -> [at : 0..MaxChanges, off : BOOLEAN]]
  BY DEF Calendars
<1>1. CASE TokensExpire
  BY <1>1, <1>n DEF TokensExpire, Calendars
<1>2. ASSUME NEW e \in Events, NEW off \in BOOLEAN, Change(e, off) PROVE calendar' \in Calendars
  <2>1. calendar.n + 1 \in 0..MaxChanges
    <3>1. calendar.n < MaxChanges
      BY <1>2, Zenon DEF Change
    <3> QED BY <1>n, <3>1, Numerals
  <2>2. [calendar.event EXCEPT ![e] = [at |-> calendar.n + 1, off |-> off]] \in [Events -> [at : 0..MaxChanges, off : BOOLEAN]]
    <3>1. PICK k : k = calendar.n + 1
      OBVIOUS
    <3>2. [at |-> k, off |-> off] \in [at : 0..MaxChanges, off : BOOLEAN]
      BY <2>1, <3>1
    <3>3. [calendar.event EXCEPT ![e] = [at |-> k, off |-> off]] \in [Events -> [at : 0..MaxChanges, off : BOOLEAN]]
      BY <1>n, <3>2
    <3> QED BY <3>1, <3>3
  <2>3. calendar' = [calendar EXCEPT !.n = calendar.n + 1, !.event = [calendar.event EXCEPT ![e] = [at |-> calendar.n + 1, off |-> off]]]
    BY <1>2 DEF Change
  <2> QED BY <2>1, <2>2, <2>3 DEF Calendars
<1> QED BY <1>1, <1>2

LEMMA PollHolds == Hold => poll' \in Polls
<1>1. {} \in SUBSET Listed /\ {} \in SUBSET Loops /\ 0 \in Nat
  OBVIOUS
<1> QED BY <1>1 DEF Hold, Idle, Polls, Sources

LEMMA PollStarts ==
    ASSUME NEW src \in Sources, NEW mode \in {"baseline", "history", "recovery", "incremental"}, NEW read \in Nat,
           Start(src, mode, read)
    PROVE  poll' \in Polls
<1>1. Idle \in Polls
  BY DEF Idle, Polls, Sources
<1>2. poll' = [Idle EXCEPT !.src = src, !.at = "read", !.mode = mode, !.read = read]
  BY DEF Start
<1> HIDE DEF Idle
<1> QED BY <1>1, <1>2 DEF Polls

LEMMA PollDone == ASSUME poll \in Polls, NEW x, Done(x) PROVE poll' \in Polls
<1>1. poll' = [poll EXCEPT !.at = "next", !.todo = poll.todo \ {x}, !.key = <<>>, !.off = FALSE, !.due = {}, !.bound = {}]
  BY DEF Done
<1>2. poll.todo \ {x} \in SUBSET Listed
  BY DEF Polls
<1> QED BY <1>1, <1>2 DEF Polls

-----------------------------------------------------------------------------
(* What goes together in a poll. *)
Now(src) == IF src = "gmail" THEN mailbox.n ELSE calendar.n

Numbers ==
    /\ cursor.gmail <= mailbox.n /\ cut <= mailbox.n /\ (cut = 0 \/ cut <= cursor.gmail)
    /\ cursor.calendar <= calendar.n
    /\ \A e \in Events : calendar.event[e].at <= calendar.n
    /\ poll.read <= Now(poll.src)

MailPoll ==
    /\ poll.mode # "incremental" /\ poll.at \notin {"close", "save"}
    /\ \A x \in poll.todo : x.id \in Messages /\ x.id <= mailbox.n
    /\ poll.at \in {"evaluate", "bind"} => \E x \in poll.todo : poll.key = <<x.id, 0>>
    /\ poll.mode = "baseline" => /\ poll.todo = {} /\ poll.at \in {"idle", "read", "next"}
                                 /\ poll.at # "idle" => cursor.gmail = NoCursor
    /\ poll.mode = "history" => /\ poll.at # "list"
                                /\ cursor.gmail # NoCursor /\ cursor.gmail <= poll.read
    /\ poll.at \in {"read", "list"} => poll.todo = {}

EventPoll ==
    /\ poll.mode # "history" /\ poll.at \notin {"idle", "list"} /\ ~poll.more
    /\ \A x \in poll.todo : x.id \in Events /\ x.at \in Stamps /\ x.at <= poll.read
    /\ \A x, y \in poll.todo : x.id = y.id => x = y
    /\ poll.at \in {"evaluate", "bind", "close", "save"} =>
          \E x \in poll.todo : poll.key = <<x.id, x.at>> /\ poll.off = x.off
    /\ poll.mode = "baseline" => cursor.calendar = NoCursor /\ poll.at \in {"read", "next", "save"}
    /\ poll.mode # "baseline" => cursor.calendar # NoCursor
    /\ poll.mode = "incremental" => cursor.calendar \in 0..MaxChanges
    /\ poll.at = "read" => poll.todo = {}

Phase == IF poll.src = "gmail" THEN MailPoll ELSE EventPoll

Sound == TypeOK /\ Numbers /\ Phase

\* What everybody else may change of the world.
LEMMA OutsideSound == ASSUME Sound, Outside PROVE Sound'
<1> USE DEF Sound
<1>o. Outside => UNCHANGED <<cut, attempts, cursor, saved, poll, base, passed, faults>>
  BY DEF Outside, Arrive, Leave, HistoryExpires, MailAges, Change, TokensExpire, Reconnect, OpenLoop, EndLoop, CloseItem, store, history, google
<1>1. mailbox' \in Boxes /\ calendar' \in Calendars
  <2>1. mailbox \in Boxes /\ calendar \in Calendars
    BY DEF TypeOK
  <2>2. mailbox' = mailbox \/ Arrive \/ HistoryExpires \/ MailAges \/ \E m \in Messages, w \in {"moved", "gone"} : Leave(m, w)
    BY DEF Outside, Change, TokensExpire, Reconnect, OpenLoop, EndLoop, CloseItem, google
  <2>3. calendar' = calendar \/ TokensExpire \/ \E e \in Events, off \in BOOLEAN : Change(e, off)
    BY DEF Outside, Arrive, Leave, HistoryExpires, MailAges, Reconnect, OpenLoop, EndLoop, CloseItem, google
  <2> QED BY <2>1, <2>2, <2>3, BoxesMove, CalendarMoves
<1>n. /\ mailbox.n \in 0..M /\ mailbox.old \in 0..M /\ calendar.n \in 0..MaxChanges
      /\ \A e \in Events : calendar.event[e].at \in 0..MaxChanges
      /\ cursor.gmail \in {NoCursor} \cup 0..M /\ cut \in 0..M /\ poll.read \in Nat
      /\ cursor.calendar \in {NoCursor, Resync} \cup 0..MaxChanges
  BY DEF TypeOK, Boxes, Calendars, Polls
<1>2. /\ mailbox'.n \in 0..M /\ mailbox'.n >= mailbox.n
      /\ calendar'.n \in 0..MaxChanges /\ calendar'.n >= calendar.n
      /\ \A e \in Events : calendar'.event[e].at = calendar.event[e].at \/ calendar'.event[e].at = calendar'.n
  <2>1. /\ mailbox'.n \in 0..M /\ calendar'.n \in 0..MaxChanges
    BY <1>1 DEF Boxes, Calendars
  <2>2. CASE mailbox' = mailbox /\ calendar' = calendar
    BY <1>n, <2>2, Numerals
  <2>3. CASE Arrive
    <3>1. mailbox'.n = mailbox.n + 1 /\ calendar' = calendar
      BY <2>3 DEF Arrive, TypeOK, Boxes
    <3> QED BY <1>n, <2>1, <3>1, Numerals
  <2>4. CASE HistoryExpires \/ MailAges \/ \E m \in Messages, w \in {"moved", "gone"} : Leave(m, w)
    <3>1. mailbox'.n = mailbox.n /\ calendar' = calendar
      BY <2>4 DEF HistoryExpires, MailAges, Leave, TypeOK, Boxes
    <3> QED BY <1>n, <2>1, <3>1, Numerals
  <2>5. CASE TokensExpire
    <3>1. calendar'.n = calendar.n /\ mailbox' = mailbox /\ calendar'.event = calendar.event
      BY <2>5 DEF TokensExpire, TypeOK, Calendars
    <3> QED BY <1>n, <2>1, <3>1, Numerals
  <2>6. ASSUME NEW f \in Events, NEW off \in BOOLEAN, Change(f, off)
        PROVE  /\ calendar'.n = calendar.n + 1 /\ mailbox' = mailbox
               /\ \A e \in Events : calendar'.event[e].at = calendar.event[e].at \/ calendar'.event[e].at = calendar'.n
    <3>1. PICK k : k = calendar.n + 1
      OBVIOUS
    <3>2. calendar' = [calendar EXCEPT !.n = k, !.event = [calendar.event EXCEPT ![f] = [at |-> k, off |-> off]]]
          /\ mailbox' = mailbox
      BY <2>6, <3>1 DEF Change
    <3> QED BY <3>1, <3>2 DEF TypeOK, Calendars
  <2>7. CASE \E f \in Events, off \in BOOLEAN : Change(f, off)
    BY <1>n, <2>1, <2>6, <2>7, Numerals
  <2>8. \/ mailbox' = mailbox /\ calendar' = calendar
        \/ Arrive \/ HistoryExpires \/ MailAges \/ \E m \in Messages, w \in {"moved", "gone"} : Leave(m, w)
        \/ TokensExpire \/ \E f \in Events, off \in BOOLEAN : Change(f, off)
    BY DEF Outside, Reconnect, OpenLoop, EndLoop, CloseItem, google
  <2> QED BY <2>2, <2>3, <2>4, <2>5, <2>7, <2>8
<1>3. items' \in [Keys -> [st : {"none", "open", "closed"}, matched : BOOLEAN]]
  <2>1. items' = items \/ \E k \in Keys : CloseItem(k)
    BY DEF Outside, Arrive, Leave, HistoryExpires, MailAges, Change, TokensExpire, Reconnect, OpenLoop, EndLoop, store
  <2> QED BY <2>1 DEF CloseItem, TypeOK
<1>4. loops' \in [Loops -> [st : {"new", "open", "over"}, matched : BOOLEAN, since : Nat]]
  <2>1. loops' = loops \/ \E l \in Loops : OpenLoop(l) \/ EndLoop(l)
    BY DEF Outside, Arrive, Leave, HistoryExpires, MailAges, Change, TokensExpire, Reconnect, CloseItem, store
  <2>2. ASSUME NEW l \in Loops, OpenLoop(l) PROVE loops' \in [Loops -> [st : {"new", "open", "over"}, matched : BOOLEAN, since : Nat]]
    <3>1. PICK n \in Nat : n = IF IsMail(l) THEN mailbox.n ELSE calendar.n
      BY <1>n
    <3>2. loops' = [loops EXCEPT ![l] = [st |-> "open", matched |-> FALSE, since |-> n]]
      BY <2>2, <3>1 DEF OpenLoop
    <3> QED BY <3>2 DEF TypeOK
  <2>3. ASSUME NEW l \in Loops, EndLoop(l) PROVE loops' \in [Loops -> [st : {"new", "open", "over"}, matched : BOOLEAN, since : Nat]]
    BY <2>3 DEF EndLoop, TypeOK
  <2> QED BY <2>1, <2>2, <2>3 DEF TypeOK
<1>5. signedIn' \in BOOLEAN
  BY DEF TypeOK, Outside, Arrive, Leave, HistoryExpires, MailAges, Change, TokensExpire, Reconnect, OpenLoop, EndLoop, CloseItem, google
<1>6. TypeOK'
  BY <1>o, <1>1, <1>3, <1>4, <1>5 DEF TypeOK
<1>7. Numbers'
  <2>1. cursor.gmail <= mailbox'.n /\ cut <= mailbox'.n
    BY <1>n, <1>2, Numerals DEF Numbers, NoCursor
  <2>2. cursor.calendar <= calendar'.n
    BY <1>n, <1>2, Numerals DEF Numbers, NoCursor, Resync
  <2>3. ASSUME NEW e \in Events PROVE calendar'.event[e].at <= calendar'.n
    BY <1>n, <1>2, Numerals DEF Numbers
  <2>4. poll.read <= Now(poll.src)'
    BY <1>o, <1>n, <1>2, Numerals DEF Numbers, Now
  <2> QED BY <1>o, <2>1, <2>2, <2>3, <2>4 DEF Numbers, Now
<1>8. Phase'
  <2>1. CASE poll.src = "gmail"
    <3>1. \A x \in poll.todo : x.id \in Messages /\ x.id <= mailbox'.n
      <4>1. \A x \in poll.todo : x.id \in Messages /\ x.id <= mailbox.n
        BY <2>1 DEF Phase, MailPoll
      <4>2. \A m \in Messages : m \in Nat
        BY Numerals DEF Messages
      <4> QED BY <1>n, <1>2, <4>1, <4>2, Numerals
    <3> QED BY <1>o, <2>1, <3>1 DEF Phase, MailPoll
  <2>2. CASE poll.src # "gmail"
    BY <1>o, <2>2 DEF Phase, EventPoll
  <2> QED BY <2>1, <2>2
<1> QED BY <1>6, <1>7, <1>8

\* A step of the poll leaves Google alone, except for the grant.
LEMMA NumbersOf ==
    ASSUME TypeOK
    PROVE  /\ mailbox.n \in 0..M /\ mailbox.old \in 0..M /\ mailbox.served \in 0..M
           /\ calendar.n \in 0..MaxChanges /\ calendar.served \in 0..MaxChanges
           /\ \A e \in Events : calendar.event[e].at \in 0..MaxChanges
           /\ cursor.gmail \in {NoCursor} \cup 0..M /\ cut \in 0..M /\ poll.read \in Nat
           /\ cursor.calendar \in {NoCursor, Resync} \cup 0..MaxChanges
           /\ poll.todo \subseteq Listed /\ poll.due \subseteq Loops /\ poll.bound \subseteq Loops
           /\ poll.src \in Sources
           /\ \A x \in poll.todo : x.at \in 0..MaxChanges /\ x.off \in BOOLEAN /\ x.id \in Messages \cup Events
  BY DEF TypeOK, Boxes, Calendars, Polls, Listed

LEMMA Disjoint == \A e \in Events : e \notin Messages
  BY Parameters DEF Messages

\* The poll is given up, or was never under way.
LEMMA HoldSound ==
    ASSUME Sound, Hold, signedIn' \in BOOLEAN, faults' \in 0..MaxFaults, attempts' \in [Messages -> 0..PoisonCap],
           UNCHANGED <<mailbox, calendar, items, loops, saved, cursor, cut, base, passed>>
    PROVE  Sound'
<1>1. TypeOK'
  BY PollHolds DEF Sound, TypeOK
<1>2. /\ poll'.src = "gmail" /\ poll'.at = "idle" /\ poll'.mode = "baseline" /\ poll'.todo = {} /\ poll'.read = 0
  BY DEF Hold, Idle
<1>3. Numbers'
  BY <1>2, NumbersOf DEF Sound, Numbers, Now
<1>4. Phase'
  BY <1>2 DEF Phase, MailPoll
<1> QED BY <1>1, <1>3, <1>4 DEF Sound

LEMMA RunSound == ASSUME Sound, run_gmail \/ run_calendar PROVE Sound'
<1>1. UNCHANGED <<mailbox, calendar, items, loops, saved, cursor, cut, base, passed, signedIn, attempts, faults>>
  BY DEF run_gmail, run_calendar, google, store, history
<1>2. CASE run_gmail
  <2>1. PICK mode \in {"baseline", "history"}, n \in Nat :
            /\ Start("gmail", mode, n)
            /\ mode = "baseline" => n = 0 /\ cursor.gmail = NoCursor
            /\ mode = "history" => n = cursor.gmail /\ cursor.gmail # NoCursor
    <3>1. cursor.gmail # NoCursor => cursor.gmail \in Nat
      BY NumbersOf DEF Sound
    <3> QED BY <1>2, <3>1 DEF run_gmail
  <2>2. poll' \in Polls
    BY <2>1, PollStarts DEF Sources
  <2>3. poll'.src = "gmail" /\ poll'.at = "read" /\ poll'.mode = mode /\ poll'.todo = {} /\ poll'.read = n
    BY <2>1 DEF Start, Idle
  <2>4. TypeOK'
    BY <1>1, <2>2 DEF Sound, TypeOK
  <2>5. Numbers'
    BY <1>1, <2>1, <2>3, NumbersOf DEF Sound, Numbers, Now
  <2>6. Phase'
    BY <1>1, <2>1, <2>3 DEF Phase, MailPoll
  <2> QED BY <2>4, <2>5, <2>6 DEF Sound
<1>3. CASE run_calendar
  <2>1. PICK mode \in {"baseline", "recovery", "incremental"} :
            /\ Start("calendar", mode, 0)
            /\ mode = "baseline" => cursor.calendar = NoCursor
            /\ mode # "baseline" => cursor.calendar # NoCursor
            /\ mode = "incremental" => cursor.calendar \in 0..MaxChanges
    <3>1. cursor.calendar \in {NoCursor, Resync} \cup 0..MaxChanges
      BY NumbersOf DEF Sound
    <3>2. PICK mode : /\ mode = CASE cursor.calendar = NoCursor -> "baseline"
                                   [] cursor.calendar = Resync -> "recovery"
                                   [] OTHER -> "incremental"
                      /\ Start("calendar", mode, 0)
      BY <1>3 DEF run_calendar
    <3>3. NoCursor # Resync
      BY DEF NoCursor, Resync
    <3>4. CASE cursor.calendar = NoCursor
      BY <3>2, <3>3, <3>4
    <3>5. CASE cursor.calendar = Resync
      BY <3>2, <3>3, <3>5
    <3>6. CASE cursor.calendar \notin {NoCursor, Resync}
      BY <3>1, <3>2, <3>6
    <3> QED BY <3>4, <3>5, <3>6
  <2>2. poll' \in Polls
    BY <2>1, PollStarts DEF Sources
  <2>3. poll'.src = "calendar" /\ poll'.at = "read" /\ poll'.mode = mode /\ poll'.todo = {} /\ poll'.read = 0 /\ poll'.more = FALSE
    BY <2>1 DEF Start, Idle
  <2>4. TypeOK'
    BY <1>1, <2>2 DEF Sound, TypeOK
  <2>5. Numbers'
    BY <1>1, <2>3, NumbersOf DEF Sound, Numbers, Now
  <2>6. Phase'
    BY <1>1, <2>1, <2>3 DEF Phase, EventPoll
  <2> QED BY <2>4, <2>5, <2>6 DEF Sound
<1> QED BY <1>2, <1>3

\* What a read of the mailbox lists.
ListedMail(S) == {[id |-> m, at |-> 0, off |-> FALSE] : m \in S}
LEMMA MailListed ==
    ASSUME NEW S \in SUBSET Messages
    PROVE  ListedMail(S) \subseteq Listed /\ (\A x \in ListedMail(S) : x.id \in S) /\ \A m \in S : \E x \in ListedMail(S) : x.id = m
<1>1. 0 \in 0..MaxChanges
  BY Numerals
<1>2. ASSUME NEW m \in S PROVE \E x \in ListedMail(S) : x.id = m
  <2>1. PICK x : x = [id |-> m, at |-> 0, off |-> FALSE]
    OBVIOUS
  <2> QED BY <2>1 DEF ListedMail
<1>3. ASSUME NEW x \in ListedMail(S) PROVE x \in Listed /\ x.id \in S
  <2>1. PICK m \in S : x = [id |-> m, at |-> 0, off |-> FALSE]
    BY DEF ListedMail
  <2> QED BY <1>1, <2>1 DEF Listed
<1> QED BY <1>2, <1>3

LEMMA MailReadSound == ASSUME Sound, gmail_profile \/ gmail_history \/ gmail_recovery_list PROVE Sound'
<1> USE DEF Sound
<1>1. UNCHANGED <<mailbox, calendar, items, loops, saved, cursor, cut, base, passed, signedIn, attempts, faults>>
  BY DEF gmail_profile, gmail_history, gmail_recovery_list, google, store, history
<1>2. TypeOK /\ poll \in Polls
  BY DEF TypeOK
<1>3. CASE gmail_profile
  <2>1. PICK at \in {"next", "list"} : poll' = [poll EXCEPT !.read = mailbox.n, !.at = at]
                                       /\ (at = "next" <=> poll.mode = "baseline")
    BY <1>3 DEF gmail_profile
  <2>2. mailbox.n \in Nat
    BY NumbersOf
  <2>3. poll' \in Polls
    BY <1>2, <2>1, <2>2 DEF Polls
  <2>4. /\ poll'.src = "gmail" /\ poll'.at = at /\ poll'.read = mailbox.n /\ poll'.mode = poll.mode
        /\ poll'.todo = poll.todo
    BY <1>2, <1>3, <2>1 DEF gmail_profile, Polls
  <2>5. Phase'
    BY <1>1, <1>3, <2>1, <2>4 DEF Phase, MailPoll, gmail_profile
  <2>6. Numbers'
    BY <1>1, <2>4, NumbersOf DEF Numbers, Now
  <2>7. TypeOK'
    BY <1>1, <2>3 DEF TypeOK
  <2> QED BY <2>5, <2>6, <2>7
<1>4. CASE gmail_history /\ cursor.gmail < mailbox.served
  <2>1. poll' = [poll EXCEPT !.mode = "recovery", !.todo = {}, !.more = FALSE] /\ poll.at = "read"
    BY <1>4 DEF gmail_history
  <2>2. poll' \in Polls
    BY <1>2, <2>1 DEF Polls
  <2>3. /\ poll'.src = "gmail" /\ poll'.at = "read" /\ poll'.read = poll.read /\ poll'.mode = "recovery"
        /\ poll'.todo = {} /\ poll.src = "gmail"
    BY <1>2, <1>4, <2>1 DEF gmail_history, Polls
  <2>5. Phase'
    BY <1>1, <2>3 DEF Phase, MailPoll
  <2>6. Numbers'
    BY <1>1, <2>3, NumbersOf DEF Numbers, Now
  <2>7. TypeOK'
    BY <1>1, <2>2 DEF TypeOK
  <2> QED BY <2>5, <2>6, <2>7
<1>5. CASE gmail_history /\ ~(cursor.gmail < mailbox.served)
  <2>1. PICK q \in poll.read..mailbox.n :
            poll' = [poll EXCEPT !.at = "next", !.read = q, !.more = q < mailbox.n, !.todo = ListedMail((poll.read + 1)..q)]
    BY <1>5 DEF gmail_history, ListedMail
  <2>2. PICK more, todo : more = (q < mailbox.n) /\ todo = ListedMail((poll.read + 1)..q)
    OBVIOUS
  <2>0. more \in BOOLEAN
    BY <2>2
  <2>3. poll' = [poll EXCEPT !.at = "next", !.read = q, !.more = more, !.todo = todo]
    BY <2>1, <2>2
  <2>4. /\ (poll.read + 1)..q \subseteq Messages /\ q \in Nat /\ poll.read <= q /\ q <= mailbox.n
        /\ \A m \in (poll.read + 1)..q : m <= mailbox.n
    BY NumbersOf, Numerals DEF Messages
  <2>5. todo \subseteq Listed /\ \A x \in todo : x.id \in Messages /\ x.id <= mailbox.n
    BY <2>2, <2>4, MailListed
  <2>6. poll' \in Polls
    BY <1>2, <2>0, <2>3, <2>4, <2>5 DEF Polls
  <2>7. /\ poll'.src = "gmail" /\ poll'.at = "next" /\ poll'.read = q /\ poll'.mode = "history"
        /\ poll'.todo = todo /\ poll.src = "gmail" /\ poll.mode = "history"
    BY <1>2, <1>5, <2>3 DEF gmail_history, Polls
  <2>8. Phase'
    <3>1. cursor.gmail # NoCursor /\ cursor.gmail <= poll.read
      BY <2>7 DEF Phase, MailPoll
    <3>2. cursor.gmail <= q
      BY <3>1, <2>4, NumbersOf, Numerals DEF NoCursor
    <3> QED BY <1>1, <2>5, <2>7, <3>1, <3>2 DEF Phase, MailPoll
  <2>9. Numbers'
    BY <1>1, <2>4, <2>7, NumbersOf DEF Numbers, Now
  <2>10. TypeOK'
    BY <1>1, <2>6 DEF TypeOK
  <2> QED BY <2>8, <2>9, <2>10
<1>6. CASE gmail_recovery_list
  <2>1. PICK S : S = {k \in (mailbox.old + 1)..mailbox.n : mailbox.where[k] = "inbox"}
    OBVIOUS
  <2>2. PICK todo : todo = ListedMail(S)
    OBVIOUS
  <2>3. poll' = [poll EXCEPT !.at = "next", !.todo = todo] /\ poll.at = "list"
    BY <1>6, <2>1, <2>2 DEF gmail_recovery_list, ListedMail
  <2>4. S \subseteq Messages /\ \A m \in S : m <= mailbox.n
    BY <2>1, NumbersOf, Numerals DEF Messages
  <2>5. todo \subseteq Listed /\ \A x \in todo : x.id \in Messages /\ x.id <= mailbox.n
    BY <2>2, <2>4, MailListed
  <2>6. poll' \in Polls
    BY <1>2, <2>3, <2>5 DEF Polls
  <2>7. /\ poll'.src = poll.src /\ poll'.at = "next" /\ poll'.read = poll.read /\ poll'.mode = poll.mode
        /\ poll'.todo = todo /\ poll.src = "gmail"
    BY <1>2, <2>3, NumbersOf DEF Polls, Phase, EventPoll, Sources
  <2>8. Phase'
    BY <1>1, <2>3, <2>5, <2>7 DEF Phase, MailPoll
  <2>9. Numbers'
    BY <1>1, <2>7, NumbersOf DEF Numbers, Now
  <2>10. TypeOK'
    BY <1>1, <2>6 DEF TypeOK
  <2> QED BY <2>8, <2>9, <2>10
<1> QED BY <1>3, <1>4, <1>5, <1>6

\* A message is finished.
LEMMA DoneOf ==
    ASSUME poll \in Polls, NEW x, Done(x)
    PROVE  /\ poll' \in Polls /\ poll'.todo = poll.todo \ {x} /\ poll'.at = "next"
           /\ poll'.src = poll.src /\ poll'.mode = poll.mode /\ poll'.read = poll.read /\ poll'.more = poll.more
           /\ poll'.due = {} /\ poll'.bound = {}
<1>1. poll' \in Polls
  BY PollDone
<1> QED BY <1>1 DEF Done, Polls

LEMMA DoneSound ==
    ASSUME Sound, NEW x, Done(x), poll.at # "idle", poll.src = "gmail" => poll.mode # "baseline",
           poll.mode = "baseline" => poll.at \in {"next", "save"},
           items' \in [Keys -> [st : {"none", "open", "closed"}, matched : BOOLEAN]],
           saved' \in [Events -> 0..MaxChanges], attempts' \in [Messages -> 0..PoisonCap], passed' \subseteq Messages,
           UNCHANGED <<google, loops, cursor, cut, base, faults>>
    PROVE  Sound'
<1>d. /\ poll' \in Polls /\ poll'.todo = poll.todo \ {x} /\ poll'.at = "next"
      /\ poll'.src = poll.src /\ poll'.mode = poll.mode /\ poll'.read = poll.read /\ poll'.more = poll.more
  BY DoneOf DEF Sound, TypeOK
<1>1. TypeOK'
  BY <1>d DEF Sound, TypeOK, google
<1>2. Numbers'
  BY <1>d DEF Sound, Numbers, Now, google
<1>3. MailPoll => MailPoll'
  BY <1>d DEF MailPoll, google
<1>4. EventPoll => EventPoll'
  BY <1>d DEF EventPoll
<1> QED BY <1>d, <1>1, <1>2, <1>3, <1>4 DEF Sound, Phase

\* What Turn says of the poll.
LEMMA TurnOf ==
    ASSUME Sound, NEW x \in poll.todo, Turn(x)
    PROVE  /\ poll.at = "next" /\ poll \in Polls /\ x \in Listed
           /\ poll.src = "gmail" => x.id \in Messages /\ x.id <= mailbox.n /\ poll.mode \in {"history", "recovery"}
           /\ poll.src # "gmail" => poll.src = "calendar" /\ x.id \in Events /\ x.at \in Stamps
  BY NumbersOf DEF Sound, TypeOK, Turn, Phase, MailPoll, EventPoll, Polls, Sources

\* An item is stored if it is not there.
LEMMA InsertOf ==
    ASSUME TypeOK, NEW k \in Keys, Insert(k)
    PROVE  /\ items' \in [Keys -> [st : {"none", "open", "closed"}, matched : BOOLEAN]]
           /\ items'[k].st # "none"
           /\ \A i \in Keys : i # k => items'[i] = items[i]
           /\ items[k].st # "none" => items'[k] = items[k]
           /\ items'[k].matched = items[k].matched
<1>1. PICK st : st = IF items[k].st = "none" THEN "open" ELSE items[k].st
  OBVIOUS
<1>2. st \in {"open", "closed"}
  BY <1>1 DEF TypeOK
<1>3. items' = [items EXCEPT ![k] = [items[k] EXCEPT !.st = st]]
  BY <1>1 DEF Insert, TypeOK
<1> QED BY <1>1, <1>2, <1>3 DEF TypeOK

LEMMA MailSound ==
    ASSUME Sound, NEW x \in poll.todo,
           skip_known(x) \/ skip_old(x) \/ skip_not_inbox(x) \/ note_watcher_reject(x)
           \/ read_uncounted(x) \/ insert_mail(x)
    PROVE  Sound'
<1> USE DEF Sound
<1>0. /\ poll.at = "next" /\ poll.src = "gmail" /\ poll \in Polls /\ x.id \in Messages /\ Turn(x)
      /\ poll.mode \in {"history", "recovery"} /\ x \in Listed
  BY TurnOf DEF skip_known, skip_old, skip_not_inbox, note_watcher_reject, read_uncounted, insert_mail, Wanted
<1>t. TypeOK
  OBVIOUS
<1>1. CASE skip_known(x)
  <2>1. passed' \subseteq Messages
    BY <1>0, <1>1, <1>t DEF skip_known, TypeOK
  <2> QED BY <1>0, <1>1, <1>t, <2>1, DoneSound DEF skip_known, store, TypeOK
<1>2. CASE skip_old(x) \/ skip_not_inbox(x)
  BY <1>0, <1>2, <1>t, DoneSound DEF skip_old, skip_not_inbox, store, history, TypeOK
<1>3. CASE note_watcher_reject(x)
  <2>1. attempts' \in [Messages -> 0..PoisonCap]
    <3>1. \A m \in Messages : attempts[m] \in 0..PoisonCap
      BY <1>t DEF TypeOK
    <3>2. PICK n : n = IF attempts[x.id] < PoisonCap THEN attempts[x.id] + 1 ELSE attempts[x.id]
      OBVIOUS
    <3>3. n \in 0..PoisonCap
      BY <1>0, <3>1, <3>2, Numerals
    <3>4. attempts' = [attempts EXCEPT ![x.id] = n]
      BY <1>3, <3>2 DEF note_watcher_reject
    <3> QED BY <1>t, <3>3, <3>4 DEF TypeOK
  <2>2. CASE Done(x)
    BY <1>0, <1>3, <1>t, <2>1, <2>2, DoneSound DEF note_watcher_reject, history, TypeOK
  <2>3. CASE Hold
    BY <1>0, <1>3, <1>t, <2>1, <2>3, HoldSound DEF note_watcher_reject, history, TypeOK, google
  <2> QED BY <1>3, <2>2, <2>3 DEF note_watcher_reject
<1>4. CASE read_uncounted(x)
  BY <1>0, <1>4, <1>t, HoldSound DEF read_uncounted, google, store, history, TypeOK
<1>5. CASE insert_mail(x)
  <2>1. PICK k : k = <<x.id, 0>>
    OBVIOUS
  <2>2. k \in Keys
    BY <1>0, <2>1 DEF Keys
  <2>3. poll' = [poll EXCEPT !.at = "evaluate", !.key = k] /\ Insert(k)
    BY <1>5, <2>1 DEF insert_mail
  <2>4. poll' \in Polls
    BY <1>0, <2>2, <2>3 DEF Polls
  <2>5. /\ poll'.src = "gmail" /\ poll'.at = "evaluate" /\ poll'.todo = poll.todo /\ poll'.mode = poll.mode
        /\ poll'.read = poll.read /\ poll'.key = k
    BY <1>0, <2>3, <2>4 DEF Polls
  <2>6. UNCHANGED <<google, loops, saved, cursor, cut, attempts, base, passed, faults>>
    BY <1>5 DEF insert_mail, history
  <2>7. TypeOK'
    BY <1>t, <2>2, <2>3, <2>4, <2>6, InsertOf DEF TypeOK, google
  <2>8. Numbers'
    BY <1>0, <2>5, <2>6 DEF Numbers, Now, google
  <2>9. Phase'
    BY <1>0, <2>1, <2>5, <2>6, TurnOf DEF Phase, MailPoll, google
  <2> QED BY <2>7, <2>8, <2>9
<1> QED BY <1>1, <1>2, <1>3, <1>4, <1>5

\* What a sync of the calendar lists.
ListedEvents(S) == {[id |-> e, at |-> calendar.event[e].at, off |-> calendar.event[e].off] : e \in S}
LEMMA EventsListed ==
    ASSUME TypeOK, NEW S \in SUBSET Events
    PROVE  /\ ListedEvents(S) \subseteq Listed
           /\ \A x \in ListedEvents(S) : x.id \in S /\ x.at = calendar.event[x.id].at /\ x.off = calendar.event[x.id].off
           /\ \A x, y \in ListedEvents(S) : x.id = y.id => x = y
           /\ \A e \in S : \E x \in ListedEvents(S) : x.id = e
<1>1. \A e \in Events : calendar.event[e].at \in 0..MaxChanges /\ calendar.event[e].off \in BOOLEAN
  BY DEF TypeOK, Calendars
<1>2. ASSUME NEW e \in S PROVE \E x \in ListedEvents(S) : x.id = e
  <2>1. PICK x : x = [id |-> e, at |-> calendar.event[e].at, off |-> calendar.event[e].off]
    OBVIOUS
  <2> QED BY <2>1 DEF ListedEvents
<1>3. ASSUME NEW x \in ListedEvents(S)
      PROVE  /\ x \in Listed /\ x.id \in S /\ x.at = calendar.event[x.id].at /\ x.off = calendar.event[x.id].off
             /\ x = [id |-> x.id, at |-> calendar.event[x.id].at, off |-> calendar.event[x.id].off]
  <2>1. PICK e \in S : x = [id |-> e, at |-> calendar.event[e].at, off |-> calendar.event[e].off]
    BY DEF ListedEvents
  <2>2. PICK a, o : a = calendar.event[e].at /\ o = calendar.event[e].off
    OBVIOUS
  <2>3. x = [id |-> e, at |-> a, off |-> o]
    BY <2>1, <2>2
  <2>4. a \in 0..MaxChanges /\ o \in BOOLEAN /\ e \in Messages \cup Events
    BY <1>1, <2>2
  <2>5. x \in Listed /\ x.id = e
    BY <2>3, <2>4 DEF Listed
  <2> QED BY <2>1, <2>2, <2>3, <2>5
<1> QED BY <1>2, <1>3

\* What the calendar's read does.
SyncFrom == IF poll.mode = "incremental" THEN cursor.calendar ELSE 0
LEMMA CalendarRead ==
    ASSUME Sound, calendar_events
    PROVE  /\ UNCHANGED <<google, items, loops, saved, cut, attempts, history, faults>>
           /\ poll.src = "calendar" /\ poll.at = "read" /\ poll.todo = {} /\ ~poll.more
           /\ \/ /\ poll.mode = "incremental" /\ cursor' = [cursor EXCEPT !.calendar = Resync]
                 /\ poll' = [poll EXCEPT !.mode = "recovery"]
              \/ /\ cursor' = cursor
                 /\ poll' \in Polls /\ poll'.src = "calendar" /\ poll'.at = "next" /\ poll'.mode = poll.mode
                 /\ poll'.read = calendar.n /\ poll'.more = poll.more
                 /\ poll'.todo = ListedEvents({e \in Events : calendar.event[e].at > SyncFrom})
                 /\ SyncFrom \in 0..MaxChanges
<1> USE DEF Sound
<1>0. /\ UNCHANGED <<google, items, loops, saved, cut, attempts, history, faults>>
      /\ poll.src = "calendar" /\ poll.at = "read" /\ poll \in Polls
  BY DEF calendar_events, TypeOK
<1>1. poll.todo = {} /\ ~poll.more
  BY <1>0 DEF Phase, EventPoll
<1>2. CASE poll.mode = "incremental" /\ cursor.calendar < calendar.served
  BY <1>0, <1>1, <1>2 DEF calendar_events
<1>3. CASE ~(poll.mode = "incremental" /\ cursor.calendar < calendar.served)
  <2>1. PICK S, todo : /\ S = {e \in Events : calendar.event[e].at > SyncFrom}
                          /\ todo = ListedEvents(S)
    OBVIOUS
  <2>2. /\ cursor' = cursor
        /\ poll' = [poll EXCEPT !.at = "next", !.read = calendar.n, !.todo = todo]
    BY <1>3, <2>1 DEF calendar_events, ListedEvents, SyncFrom
  <2>3. todo \subseteq Listed
    BY <2>1, EventsListed
  <2>4. calendar.n \in Nat
    BY NumbersOf
  <2>5. poll' \in Polls
    BY <1>0, <2>2, <2>3, <2>4 DEF Polls
  <2>6. SyncFrom \in 0..MaxChanges
    BY <1>0, Numerals DEF SyncFrom, Phase, EventPoll
  <2>7. /\ poll'.src = "calendar" /\ poll'.at = "next" /\ poll'.mode = poll.mode
        /\ poll'.read = calendar.n /\ poll'.more = poll.more /\ poll'.todo = todo
    BY <1>0, <2>2, <2>5 DEF Polls
  <2> QED BY <1>0, <1>1, <2>1, <2>2, <2>5, <2>6, <2>7
<1> QED BY <1>2, <1>3

LEMMA CalendarReadSound == ASSUME Sound, calendar_events PROVE Sound'
<1> USE DEF Sound
<1>0. /\ UNCHANGED <<google, items, loops, saved, cut, attempts, history, faults>>
      /\ poll.src = "calendar" /\ poll.at = "read" /\ poll \in Polls /\ poll.todo = {} /\ ~poll.more
  BY CalendarRead DEF TypeOK
<1>1. CASE /\ poll.mode = "incremental" /\ cursor' = [cursor EXCEPT !.calendar = Resync]
           /\ poll' = [poll EXCEPT !.mode = "recovery"]
  <2>1. /\ poll' \in Polls /\ poll'.src = "calendar" /\ poll'.at = "read" /\ poll'.todo = {} /\ ~poll'.more
        /\ poll'.mode = "recovery" /\ poll'.read = poll.read
    BY <1>0, <1>1 DEF Polls
  <2>2. cursor' \in [gmail : {NoCursor} \cup 0..M, calendar : {NoCursor, Resync} \cup 0..MaxChanges]
        /\ cursor'.gmail = cursor.gmail /\ cursor'.calendar = Resync
    BY <1>1 DEF TypeOK
  <2>3. TypeOK'
    BY <1>0, <2>1, <2>2 DEF TypeOK, google, history
  <2>4. Numbers'
    BY <1>0, <2>1, <2>2, NumbersOf DEF Numbers, Now, google, Resync
  <2>5. Phase'
    BY <1>0, <2>1, <2>2 DEF Phase, EventPoll, Resync, NoCursor
  <2> QED BY <2>3, <2>4, <2>5
<1>2. CASE /\ cursor' = cursor
           /\ poll' \in Polls /\ poll'.src = "calendar" /\ poll'.at = "next" /\ poll'.mode = poll.mode
           /\ poll'.read = calendar.n /\ poll'.more = poll.more
           /\ poll'.todo = ListedEvents({e \in Events : calendar.event[e].at > SyncFrom})
           /\ SyncFrom \in 0..MaxChanges
  <2>1. PICK S \in SUBSET Events : S = {e \in Events : calendar.event[e].at > SyncFrom} /\ poll'.todo = ListedEvents(S)
    BY <1>2
  <2>2. \A e \in Events : calendar.event[e].at \in 0..MaxChanges /\ calendar.event[e].at <= calendar.n
    BY NumbersOf DEF Numbers
  <2>3. \A x \in poll'.todo : x.id \in Events /\ x.at \in Stamps /\ x.at <= calendar.n
    <3>1. ASSUME NEW x \in poll'.todo PROVE x.id \in Events /\ x.at \in Stamps /\ x.at <= calendar.n
      <4>1. x.id \in S /\ x.at = calendar.event[x.id].at
        BY <2>1, EventsListed
      <4>2. x.at > SyncFrom
        BY <2>1, <4>1
      <4> QED BY <1>2, <2>2, <4>1, <4>2, Numerals DEF Stamps
    <3> QED BY <3>1
  <2>4. \A x, y \in poll'.todo : x.id = y.id => x = y
    BY <2>1, EventsListed
  <2>5. TypeOK'
    BY <1>0, <1>2 DEF TypeOK, google, history
  <2>6. Numbers'
    BY <1>0, <1>2, NumbersOf DEF Numbers, Now, google
  <2>7. Phase'
    BY <1>0, <1>2, <2>3, <2>4 DEF Phase, EventPoll
  <2> QED BY <2>5, <2>6, <2>7
<1> QED BY <1>1, <1>2, CalendarRead

LEMMA ApplySound ==
    ASSUME Sound, NEW x \in poll.todo, _apply_event(x)
    PROVE  /\ Sound'
           /\ poll'.src = "calendar" /\ poll'.mode = poll.mode /\ poll'.todo = poll.todo /\ poll'.read = poll.read
           /\ poll'.key = <<x.id, x.at>> /\ poll'.off = x.off /\ <<x.id, x.at>> \in Keys
           /\ poll'.at = IF poll.mode # "baseline" /\ items'[<<x.id, x.at>>].st # "none" THEN "evaluate" ELSE "save"
           /\ poll'.due = poll.due /\ poll'.bound = poll.bound
<1> USE DEF Sound
<1>0. /\ poll.at = "next" /\ poll.src = "calendar" /\ poll \in Polls /\ x.id \in Events /\ x.at \in Stamps
      /\ x.off \in BOOLEAN /\ UNCHANGED <<google, loops, saved, cursor, cut, attempts, history, faults>>
  <2>1. Turn(x) /\ poll.src = "calendar"
    BY DEF _apply_event
  <2> QED BY <2>1, TurnOf, NumbersOf DEF _apply_event
<1>1. PICK k \in Keys : k = <<x.id, x.at>>
  BY <1>0 DEF Keys
<1>2. PICK at \in {"evaluate", "save"} :
          at = IF poll.mode # "baseline" /\ items'[k].st # "none" THEN "evaluate" ELSE "save"
  OBVIOUS
<1>3. poll' = [poll EXCEPT !.key = k, !.off = x.off, !.at = at]
  BY <1>1, <1>2 DEF _apply_event
<1>4. poll' \in Polls
  BY <1>0, <1>1, <1>2, <1>3 DEF Polls
<1>5. /\ poll'.src = "calendar" /\ poll'.mode = poll.mode /\ poll'.todo = poll.todo /\ poll'.read = poll.read
      /\ poll'.key = k /\ poll'.off = x.off /\ poll'.at = at /\ poll'.more = poll.more
      /\ poll'.due = poll.due /\ poll'.bound = poll.bound
  BY <1>0, <1>3 DEF Polls
<1>6. items' \in [Keys -> [st : {"none", "open", "closed"}, matched : BOOLEAN]]
  <2>1. Insert(k) \/ items' = items
    BY <1>1 DEF _apply_event
  <2> QED BY <1>1, <2>1, InsertOf DEF TypeOK
<1>7. TypeOK'
  BY <1>0, <1>4, <1>6 DEF TypeOK, google, history
<1>8. Numbers'
  BY <1>0, <1>5 DEF Numbers, Now, google
<1>9. Phase'
  <2>1. poll.mode = "baseline" => at = "save"
    BY <1>2
  <2> QED BY <1>0, <1>1, <1>2, <1>5, <2>1 DEF Phase, EventPoll
<1> QED BY <1>1, <1>2, <1>5, <1>7, <1>8, <1>9

\* A step that only moves the poll on within an item.
LEMMA ItemStepSound ==
    ASSUME Sound, poll.at \in {"evaluate", "bind", "close"},
           poll' \in Polls, poll'.src = poll.src, poll'.mode = poll.mode, poll'.todo = poll.todo,
           poll'.read = poll.read, poll'.key = poll.key, poll'.off = poll.off, poll'.more = poll.more,
           poll'.at \in {"bind", "close"}, poll.src = "gmail" => poll'.at = "bind",
           items' \in [Keys -> [st : {"none", "open", "closed"}, matched : BOOLEAN]],
           loops' \in [Loops -> [st : {"new", "open", "over"}, matched : BOOLEAN, since : Nat]],
           UNCHANGED <<google, saved, cursor, cut, attempts, history, faults>>
    PROVE  Sound'
<1>1. TypeOK'
  BY DEF Sound, TypeOK, google, history
<1>2. Numbers'
  BY DEF Sound, Numbers, Now, google
<1>3. MailPoll /\ poll.src = "gmail" => MailPoll'
  BY DEF MailPoll, google
<1>4. EventPoll => EventPoll'
  BY DEF EventPoll
<1> QED BY <1>1, <1>2, <1>3, <1>4 DEF Sound, Phase

\* What the steps within an item do.
LEMMA MatchingOf ==
    ASSUME Sound, _matching
    PROVE  /\ poll.at = "evaluate" /\ UNCHANGED <<google, store, history, faults>>
           /\ poll' \in Polls /\ poll'.src = poll.src /\ poll'.mode = poll.mode /\ poll'.todo = poll.todo
           /\ poll'.read = poll.read /\ poll'.key = poll.key /\ poll'.off = poll.off /\ poll'.more = poll.more
           /\ poll'.at = "bind" /\ poll'.due = {l \in Loops : Matches(l, poll.key, poll.off)} /\ poll'.bound = poll.bound
<1>1. PICK due \in SUBSET Loops : due = {l \in Loops : Matches(l, poll.key, poll.off)}
  OBVIOUS
<1>2. poll' = [poll EXCEPT !.at = "bind", !.due = due] /\ poll.at = "evaluate" /\ poll \in Polls
  BY <1>1 DEF _matching, Sound, TypeOK
<1>3. poll' \in Polls
  BY <1>2 DEF Polls
<1>4. UNCHANGED <<google, store, history, faults>>
  BY DEF _matching
<1> QED BY <1>1, <1>2, <1>3, <1>4 DEF Polls

\* A match: the two rows are marked.
Marked(k, l) == /\ loops' = [loops EXCEPT ![l].matched = TRUE]
                /\ items' = [items EXCEPT ![k].matched = TRUE]
LEMMA MarkedOf ==
    ASSUME TypeOK, NEW k \in Keys, NEW l \in Loops, Marked(k, l)
    PROVE  /\ items' \in [Keys -> [st : {"none", "open", "closed"}, matched : BOOLEAN]]
           /\ loops' \in [Loops -> [st : {"new", "open", "over"}, matched : BOOLEAN, since : Nat]]
           /\ \A i \in Keys : items'[i].st = items[i].st /\ (items'[i].matched <=> items[i].matched \/ i = k)
           /\ \A m \in Loops : /\ loops'[m].st = loops[m].st /\ loops'[m].since = loops[m].since
                               /\ loops'[m].matched <=> loops[m].matched \/ m = l
  BY DEF Marked, TypeOK

LEMMA BindOf ==
    ASSUME Sound, NEW l \in Loops, bind_open_loop_match(l)
    PROVE  /\ poll.at = "bind" /\ l \in poll.due /\ poll.key \in Keys
           /\ UNCHANGED <<google, saved, cursor, cut, attempts, history, faults>>
           /\ \/ Hold /\ items[poll.key].st # "open" /\ UNCHANGED <<items, loops>>
              \/ /\ poll' \in Polls /\ poll'.src = poll.src /\ poll'.mode = poll.mode /\ poll'.todo = poll.todo
                 /\ poll'.read = poll.read /\ poll'.key = poll.key /\ poll'.off = poll.off /\ poll'.more = poll.more
                 /\ poll'.at = "bind" /\ poll'.due = poll.due \ {l}
                 /\ \/ loops[l].st # "open" /\ poll'.bound = poll.bound /\ UNCHANGED <<items, loops>>
                    \/ /\ loops[l].st = "open" /\ items[poll.key].st = "open" /\ poll'.bound = poll.bound \cup {l}
                       /\ Marked(poll.key, l)
<1>0. /\ poll.at = "bind" /\ l \in poll.due /\ poll \in Polls
      /\ UNCHANGED <<google, saved, cursor, cut, attempts, history, faults>>
  BY DEF bind_open_loop_match, Sound, TypeOK
<1>1. poll.key \in Keys
  <2>1. CASE poll.src = "gmail"
    <3>1. PICK x \in poll.todo : poll.key = <<x.id, 0>> /\ x.id \in Messages
      BY <1>0, <2>1 DEF Sound, Phase, MailPoll
    <3> QED BY <3>1 DEF Keys
  <2>2. CASE poll.src # "gmail"
    <3>1. PICK x \in poll.todo : poll.key = <<x.id, x.at>> /\ x.id \in Events /\ x.at \in Stamps
      BY <1>0, <2>2 DEF Sound, Phase, EventPoll
    <3> QED BY <3>1 DEF Keys
  <2> QED BY <2>1, <2>2
<1>2. CASE loops[l].st # "open"
  <2>1. poll' = [poll EXCEPT !.due = poll.due \ {l}] /\ UNCHANGED <<items, loops>>
    BY <1>2 DEF bind_open_loop_match
  <2>2. poll' \in Polls
    BY <1>0, <2>1 DEF Polls
  <2> QED BY <1>0, <1>1, <1>2, <2>1, <2>2 DEF Polls
<1>3. CASE loops[l].st = "open" /\ items[poll.key].st # "open"
  BY <1>0, <1>1, <1>3 DEF bind_open_loop_match
<1>4. CASE loops[l].st = "open" /\ items[poll.key].st = "open"
  <2>1. /\ poll' = [poll EXCEPT !.due = poll.due \ {l}, !.bound = poll.bound \cup {l}]
        /\ Marked(poll.key, l)
    BY <1>4 DEF bind_open_loop_match, Marked
  <2>2. poll' \in Polls
    BY <1>0, <2>1 DEF Polls
  <2> QED BY <1>0, <1>1, <1>4, <2>1, <2>2 DEF Polls
<1> QED BY <1>2, <1>3, <1>4

LEMMA BindSound == ASSUME Sound, NEW l \in Loops, bind_open_loop_match(l) PROVE Sound'
<1>0. TypeOK
  BY DEF Sound
<1>1. CASE Hold
  <2>1. UNCHANGED <<google, saved, cursor, cut, attempts, history, faults>>
    BY BindOf
  <2>2. items' = items /\ loops' = loops
    <3>1. poll'.at = "idle" /\ "idle" # "bind"
      BY <1>1 DEF Hold, Idle
    <3> QED BY <3>1, BindOf
  <2> QED BY <1>0, <1>1, <2>1, <2>2, HoldSound DEF google, history, TypeOK
<1>2. CASE ~Hold
  <2>1. /\ items' \in [Keys -> [st : {"none", "open", "closed"}, matched : BOOLEAN]]
        /\ loops' \in [Loops -> [st : {"new", "open", "over"}, matched : BOOLEAN, since : Nat]]
    <3>1. UNCHANGED <<items, loops>> \/ (Marked(poll.key, l) /\ poll.key \in Keys)
      BY <1>2, BindOf
    <3>2. CASE UNCHANGED <<items, loops>>
      BY <1>0, <3>2 DEF TypeOK
    <3>3. CASE Marked(poll.key, l) /\ poll.key \in Keys
      BY <1>0, <3>3, MarkedOf
    <3> QED BY <3>1, <3>2, <3>3
  <2> QED BY <1>2, <2>1, BindOf, ItemStepSound
<1> QED BY <1>1, <1>2

LEMMA FinishSound == ASSUME Sound, _finish_item PROVE Sound'
<1>0. /\ poll.at = "bind" /\ poll \in Polls /\ UNCHANGED <<google, store, history, faults>>
  BY DEF _finish_item, Sound, TypeOK
<1>1. CASE poll.src = "gmail"
  <2>1. PICK x \in poll.todo : Done(x)
    BY <1>1 DEF _finish_item
  <2>2. poll.mode # "baseline"
    BY <1>0, <1>1 DEF Sound, Phase, MailPoll
  <2> QED BY <1>0, <1>1, <2>1, <2>2, DoneSound DEF Sound, TypeOK, store, history
<1>2. CASE poll.src # "gmail"
  <2>1. poll' = [poll EXCEPT !.at = "close"]
    BY <1>2 DEF _finish_item
  <2>2. poll' \in Polls
    BY <1>0, <2>1 DEF Polls
  <2>3. /\ poll'.src = poll.src /\ poll'.mode = poll.mode /\ poll'.todo = poll.todo
        /\ poll'.read = poll.read /\ poll'.key = poll.key /\ poll'.off = poll.off /\ poll'.more = poll.more
        /\ poll'.at = "close"
    BY <1>0, <2>1 DEF Polls
  <2> QED BY <1>0, <1>2, <2>2, <2>3, ItemStepSound DEF Sound, TypeOK, store
<1> QED BY <1>1, <1>2

LEMMA CloseOf ==
    ASSUME Sound, NEW l \in Loops, close_loop_from_match(l)
    PROVE  /\ poll.at = "close" /\ l \in poll.bound
           /\ UNCHANGED <<google, items, saved, cursor, cut, attempts, history, faults>>
           /\ poll' \in Polls /\ poll'.src = poll.src /\ poll'.mode = poll.mode /\ poll'.todo = poll.todo
           /\ poll'.read = poll.read /\ poll'.key = poll.key /\ poll'.off = poll.off /\ poll'.more = poll.more
           /\ poll'.at = "close" /\ poll'.due = poll.due /\ poll'.bound = poll.bound \ {l}
           /\ loops' \in [Loops -> [st : {"new", "open", "over"}, matched : BOOLEAN, since : Nat]]
           /\ \A m \in Loops : /\ loops'[m].st = IF m = l THEN "over" ELSE loops[m].st
                               /\ loops'[m].since = loops[m].since /\ loops'[m].matched = loops[m].matched
<1>0. /\ poll.at = "close" /\ l \in poll.bound /\ poll \in Polls
      /\ UNCHANGED <<google, items, saved, cursor, cut, attempts, history, faults>>
  BY DEF close_loop_from_match, Sound, TypeOK
<1>1. poll' = [poll EXCEPT !.bound = poll.bound \ {l}] /\ loops' = [loops EXCEPT ![l].st = "over"]
  BY DEF close_loop_from_match
<1>2. poll' \in Polls
  BY <1>0, <1>1 DEF Polls
<1>3. /\ loops' \in [Loops -> [st : {"new", "open", "over"}, matched : BOOLEAN, since : Nat]]
      /\ \A m \in Loops : /\ loops'[m].st = IF m = l THEN "over" ELSE loops[m].st
                          /\ loops'[m].since = loops[m].since /\ loops'[m].matched = loops[m].matched
  BY <1>1 DEF Sound, TypeOK
<1> QED BY <1>0, <1>1, <1>2, <1>3 DEF Polls

LEMMA CloseSound == ASSUME Sound, NEW l \in Loops, close_loop_from_match(l) PROVE Sound'
<1>1. poll.src # "gmail"
  BY CloseOf DEF Sound, Phase, MailPoll
<1> QED BY <1>1, CloseOf, ItemStepSound DEF Sound, TypeOK

LEMMA SaveOf ==
    ASSUME Sound, save_calendar_event
    PROVE  /\ poll.at = "save" \/ (poll.at = "close" /\ poll.bound = {})
           /\ poll.src = "calendar" /\ UNCHANGED <<google, items, loops, cursor, cut, attempts, history, faults>>
           /\ \E x \in poll.todo : /\ x.id \in Events /\ x.at \in Stamps /\ x.at <= poll.read
                                   /\ <<x.id, x.at>> = poll.key /\ poll.off = x.off
                                   /\ saved' = [saved EXCEPT ![x.id] = x.at] /\ Done(x)
<1>0. /\ poll.at = "save" \/ (poll.at = "close" /\ poll.bound = {})
      /\ UNCHANGED <<google, items, loops, cursor, cut, attempts, history, faults>>
  BY DEF save_calendar_event
<1>1. poll.src = "calendar" /\ EventPoll
  BY <1>0, NumbersOf DEF Sound, Phase, MailPoll, Sources
<1>2. PICK x \in poll.todo : <<x.id, x.at>> = poll.key /\ saved' = [saved EXCEPT ![x.id] = x.at] /\ Done(x)
  BY DEF save_calendar_event
<1>3. PICK y \in poll.todo : poll.key = <<y.id, y.at>> /\ poll.off = y.off
  BY <1>0, <1>1 DEF EventPoll
<1>4. x = y
  <2>1. x.id = y.id
    BY <1>2, <1>3
  <2> QED BY <1>1, <2>1 DEF EventPoll
<1> QED BY <1>0, <1>1, <1>2, <1>3, <1>4 DEF EventPoll

LEMMA SaveSound == ASSUME Sound, save_calendar_event PROVE Sound'
<1>1. PICK x \in poll.todo : /\ x.id \in Events /\ x.at \in Stamps
                             /\ saved' = [saved EXCEPT ![x.id] = x.at] /\ Done(x)
  BY SaveOf
<1>2. saved' \in [Events -> 0..MaxChanges]
  BY <1>1 DEF Sound, TypeOK, Stamps
<1>3. poll.mode = "baseline" => poll.at \in {"next", "save"}
  BY SaveOf DEF Sound, Phase, EventPoll
<1> QED BY <1>1, <1>2, <1>3, SaveOf, DoneSound DEF Sound, TypeOK, history

LEMMA PageSound == ASSUME Sound, next_page PROVE Sound'
<1>0. /\ poll.at = "next" /\ poll.todo = {} /\ poll.more /\ poll \in Polls /\ UNCHANGED <<google, store, history, faults>>
      /\ poll' = [poll EXCEPT !.at = "read", !.more = FALSE]
  BY DEF next_page, Sound, TypeOK
<1>1. /\ poll' \in Polls /\ poll'.src = poll.src /\ poll'.mode = poll.mode /\ poll'.todo = {}
      /\ poll'.read = poll.read /\ poll'.at = "read" /\ poll'.more = FALSE
  BY <1>0 DEF Polls
<1>2. TypeOK' /\ Numbers'
  BY <1>0, <1>1 DEF Sound, TypeOK, Numbers, Now, google, store, history
<1>3. poll.src = "gmail"
  BY <1>0 DEF Sound, Phase, EventPoll
<1>4. Phase'
  BY <1>0, <1>1, <1>3 DEF Sound, Phase, MailPoll, store
<1> QED BY <1>2, <1>4 DEF Sound

\* What the end of a poll writes.
LEMMA WriteOf ==
    ASSUME Sound, write_cursor
    PROVE  /\ poll.at = "next" /\ poll.todo = {} /\ Hold
           /\ UNCHANGED <<google, items, loops, saved, attempts, passed, faults>>
           /\ cursor'.gmail = IF poll.src = "gmail" THEN poll.read ELSE cursor.gmail
           /\ cursor'.calendar = IF poll.src = "gmail" THEN cursor.calendar ELSE poll.read
           /\ base'["gmail"] = IF poll.src = "gmail" /\ poll.mode = "baseline" THEN poll.read ELSE base["gmail"]
           /\ base'["calendar"] = IF poll.src # "gmail" /\ poll.mode = "baseline" THEN poll.read ELSE base["calendar"]
           /\ IF poll.src = "gmail" THEN cut' \in cut..poll.read ELSE cut' = cut
           /\ cursor' \in [gmail : {NoCursor} \cup 0..M, calendar : {NoCursor, Resync} \cup 0..MaxChanges]
           /\ base' \in [Sources -> {NoCursor} \cup Nat] /\ cut' \in 0..M
<1>0. /\ poll.at = "next" /\ poll.todo = {} /\ Hold
      /\ UNCHANGED <<google, items, loops, saved, attempts, passed, faults>>
      /\ poll.src \in {"gmail", "calendar"} /\ poll.read \in Nat
      /\ IF poll.src = "gmail" THEN cut' \in cut..poll.read ELSE cut' = cut
  BY NumbersOf DEF write_cursor, Sound, Sources
<1>1. cursor \in [gmail : {NoCursor} \cup 0..M, calendar : {NoCursor, Resync} \cup 0..MaxChanges]
      /\ base \in [Sources -> {NoCursor} \cup Nat]
  BY DEF Sound, TypeOK
<1>2. PICK b : b = IF poll.mode = "baseline" THEN poll.read ELSE base[poll.src]
  OBVIOUS
<1>3. b \in {NoCursor} \cup Nat
  BY <1>0, <1>1, <1>2 DEF Sources
<1>4. base' = [base EXCEPT ![poll.src] = b] /\ cursor' = [cursor EXCEPT ![poll.src] = poll.read]
  BY <1>2 DEF write_cursor
<1>5. poll.src = "gmail" => poll.read \in 0..M
  BY <1>0, NumbersOf, Numerals DEF Sound, Numbers, Now
<1>6. poll.src # "gmail" => poll.read \in 0..MaxChanges
  BY <1>0, NumbersOf, Numerals DEF Sound, Numbers, Now
<1>7. /\ base' \in [Sources -> {NoCursor} \cup Nat]
      /\ base'["gmail"] = IF poll.src = "gmail" /\ poll.mode = "baseline" THEN poll.read ELSE base["gmail"]
      /\ base'["calendar"] = IF poll.src # "gmail" /\ poll.mode = "baseline" THEN poll.read ELSE base["calendar"]
  BY <1>0, <1>1, <1>2, <1>3, <1>4 DEF Sources
<1>8. CASE poll.src = "gmail"
  <2>1. cursor' = [cursor EXCEPT !.gmail = poll.read]
    BY <1>4, <1>8
  <2>2. cut' \in 0..M
    BY <1>0, <1>5, <1>8, NumbersOf, Numerals DEF Sound
  <2> QED BY <1>0, <1>1, <1>5, <1>7, <1>8, <2>1, <2>2
<1>9. CASE poll.src # "gmail"
  <2>1. cursor' = [cursor EXCEPT !.calendar = poll.read]
    BY <1>0, <1>4, <1>9
  <2>2. cut' \in 0..M
    BY <1>0, <1>9, NumbersOf DEF Sound
  <2> QED BY <1>0, <1>1, <1>6, <1>7, <1>9, <2>1, <2>2
<1> QED BY <1>8, <1>9

LEMMA WriteSound == ASSUME Sound, write_cursor PROVE Sound'
<1>1. TypeOK'
  BY WriteOf, PollHolds DEF Sound, TypeOK, google
<1>2. /\ poll'.src = "gmail" /\ poll'.at = "idle" /\ poll'.mode = "baseline" /\ poll'.todo = {} /\ poll'.read = 0
  BY WriteOf DEF Hold, Idle
<1>3. Numbers'
  <2>0. mailbox' = mailbox /\ calendar' = calendar
    BY WriteOf DEF google
  <2>1. CASE poll.src = "gmail"
    <3>1. poll.read <= mailbox.n /\ cut' <= poll.read /\ cursor'.gmail = poll.read /\ cursor'.calendar = cursor.calendar
          /\ cut' \in 0..M
      BY <2>1, WriteOf, NumbersOf, Numerals DEF Sound, Numbers, Now
    <3> QED BY <1>2, <2>0, <3>1, NumbersOf, Numerals DEF Sound, Numbers, Now
  <2>2. CASE poll.src # "gmail"
    <3>1. poll.read <= calendar.n /\ cut' = cut /\ cursor'.gmail = cursor.gmail /\ cursor'.calendar = poll.read
      BY <2>2, WriteOf DEF Sound, Numbers, Now
    <3> QED BY <1>2, <2>0, <3>1, NumbersOf DEF Sound, Numbers, Now
  <2> QED BY <2>1, <2>2
<1>4. Phase'
  BY <1>2 DEF Phase, MailPoll
<1> QED BY <1>1, <1>3, <1>4 DEF Sound

LEMMA FaultSound == ASSUME Sound, grant_lost \/ CutShort PROVE Sound'
<1>1. Hold /\ faults' \in 0..MaxFaults /\ signedIn' \in BOOLEAN
  <2>1. Hold /\ faults' = faults + 1 /\ faults < MaxFaults
    BY DEF grant_lost, CutShort, Fault
  <2>2. signedIn' \in BOOLEAN
    BY DEF grant_lost, CutShort, Sound, TypeOK, google
  <2>3. faults \in 0..MaxFaults
    BY DEF Sound, TypeOK
  <2> QED BY <2>1, <2>2, <2>3, Numerals
<1>2. UNCHANGED <<mailbox, calendar, items, loops, saved, cursor, cut, attempts, base, passed>>
  BY DEF grant_lost, CutShort, google, store, history
<1>3. attempts' \in [Messages -> 0..PoisonCap]
  BY <1>2 DEF Sound, TypeOK
<1> QED BY <1>1, <1>2, <1>3, HoldSound

LEMMA SoundAtFirst == Init => Sound
<1> SUFFICES ASSUME Init PROVE Sound
  OBVIOUS
<1>1. Idle \in Polls
  BY DEF Idle, Polls, Sources
<1>2. poll = Idle
  BY DEF Init
<1>3. /\ poll.src = "gmail" /\ poll.at = "idle" /\ poll.mode = "baseline" /\ poll.todo = {} /\ poll.read = 0
  BY <1>2 DEF Idle
<1>4. TypeOK
  <2>1. loops \in [Loops -> [st : {"new", "open", "over"}, matched : BOOLEAN, since : Nat]]
    <3>1. \A st \in {"new", "over"} : [st |-> st, matched |-> FALSE, since |-> 0] \in [st : {"new", "open", "over"}, matched : BOOLEAN, since : Nat]
      OBVIOUS
    <3> QED BY <3>1 DEF Init
  <2>2. cursor \in [gmail : {NoCursor} \cup 0..M, calendar : {NoCursor, Resync} \cup 0..MaxChanges]
    BY DEF Init
  <2>3. /\ mailbox \in Boxes /\ calendar \in Calendars /\ signedIn \in BOOLEAN
        /\ items \in [Keys -> [st : {"none", "open", "closed"}, matched : BOOLEAN]]
        /\ saved \in [Events -> 0..MaxChanges] /\ cut \in 0..M /\ attempts \in [Messages -> 0..PoisonCap]
        /\ base \in [Sources -> {NoCursor} \cup Nat] /\ passed \subseteq Messages /\ faults \in 0..MaxFaults
    BY Numerals DEF Init
  <2> QED BY <1>1, <1>2, <2>1, <2>2, <2>3 DEF TypeOK
<1>5. Numbers
  BY <1>3, <1>4, NumbersOf DEF Init, Numbers, Now, NoCursor
<1>6. Phase
  BY <1>3 DEF Phase, MailPoll
<1> QED BY <1>4, <1>5, <1>6 DEF Sound

LEMMA SoundAsIs == ASSUME Sound, UNCHANGED vars PROVE Sound'
<1>1. UNCHANGED <<mailbox, calendar, signedIn, items, loops, saved, cursor, cut, attempts, poll, base, passed, faults>>
  BY DEF vars, google, store, history
<1>2. TypeOK' /\ Numbers'
  BY <1>1 DEF Sound, TypeOK, Numbers, Now
<1>3. Phase'
  BY <1>1 DEF Sound, Phase, MailPoll, EventPoll
<1> QED BY <1>2, <1>3 DEF Sound

LEMMA SoundStays == Sound /\ [Next]_vars => Sound'
<1> SUFFICES ASSUME Sound, [Next]_vars PROVE Sound'
  OBVIOUS
<1>1. CASE UNCHANGED vars
  BY <1>1, SoundAsIs
<1>2. CASE Outside
  BY <1>2, OutsideSound
<1>3. CASE run_gmail \/ run_calendar
  BY <1>3, RunSound
<1>4. CASE grant_lost \/ CutShort
  BY <1>4, FaultSound
<1>5. CASE Step
  <2>1. CASE gmail_profile \/ gmail_history \/ gmail_recovery_list
    BY <2>1, MailReadSound
  <2>2. CASE calendar_events
    BY <2>2, CalendarReadSound
  <2>3. ASSUME NEW x \in poll.todo,
               skip_known(x) \/ skip_old(x) \/ skip_not_inbox(x) \/ note_watcher_reject(x)
               \/ read_uncounted(x) \/ insert_mail(x)
        PROVE  Sound'
    BY <2>3, MailSound
  <2>4. ASSUME NEW x \in poll.todo, _apply_event(x) PROVE Sound'
    BY <2>4, ApplySound
  <2>5. CASE _matching
    BY <2>5, MatchingOf, ItemStepSound DEF Sound, TypeOK, store
  <2>6. CASE _finish_item
    BY <2>6, FinishSound
  <2>7. CASE save_calendar_event
    BY <2>7, SaveSound
  <2>8. CASE next_page
    BY <2>8, PageSound
  <2>9. CASE write_cursor
    BY <2>9, WriteSound
  <2>10. ASSUME NEW l \in Loops, bind_open_loop_match(l) PROVE Sound'
    BY <2>10, BindSound
  <2>11. ASSUME NEW l \in Loops, close_loop_from_match(l) PROVE Sound'
    BY <2>11, CloseSound
  <2> QED BY <1>5, <2>1, <2>2, <2>3, <2>4, <2>5, <2>6, <2>7, <2>8, <2>9, <2>10, <2>11 DEF Step
<1> QED BY <1>1, <1>2, <1>3, <1>4, <1>5 DEF Next

-----------------------------------------------------------------------------
(* What any step may do to the mailbox, the items and the watches. *)
ItemsGo == \A k \in Keys :
    /\ items[k].st # "none" => items'[k].st # "none" /\ (items'[k].st = "open" => items[k].st = "open")
    /\ items[k].matched => items'[k].matched
LoopsGo == \A l \in Loops :
    /\ loops[l].st # "new" => loops'[l].st # "new" /\ loops'[l].since = loops[l].since
    /\ loops'[l].st = "open" =>
         \/ loops[l].st = "open" /\ (loops[l].matched => loops'[l].matched)
         \/ loops[l].st = "new" /\ loops'[l].since = IF IsMail(l) THEN mailbox.n ELSE calendar.n
BoxGoes == /\ mailbox'.broken = mailbox.broken /\ mailbox'.garbled = mailbox.garbled
           /\ mailbox'.old >= mailbox.old
           /\ \A m \in Messages : mailbox'.where[m] = "inbox" => mailbox.where[m] = "inbox"
World == ItemsGo /\ LoopsGo /\ BoxGoes /\ passed \subseteq passed'

LEMMA SameItems == items' = items => ItemsGo
  BY DEF ItemsGo
LEMMA SameLoops == loops' = loops => LoopsGo
  BY DEF LoopsGo
LEMMA SameBox == TypeOK /\ mailbox' = mailbox => BoxGoes
  BY DEF BoxGoes, TypeOK, Boxes

LEMMA OutsideWorld == ASSUME Sound, Outside PROVE World /\ \A k \in Keys : items[k].st = "none" => items'[k].st = "none"
<1> USE DEF Sound
<1>1. BoxGoes
  <2>1. CASE mailbox' = mailbox
    BY <2>1, SameBox
  <2>2. CASE Arrive
    <3>1. mailbox'.broken = mailbox.broken /\ mailbox'.garbled = mailbox.garbled /\ mailbox'.old = mailbox.old /\ mailbox'.where = mailbox.where
      BY <2>2 DEF Arrive, TypeOK, Boxes
    <3> QED BY <3>1, NumbersOf, Numerals DEF BoxGoes
  <2>3. CASE HistoryExpires
    <3>1. mailbox'.broken = mailbox.broken /\ mailbox'.garbled = mailbox.garbled /\ mailbox'.old = mailbox.old /\ mailbox'.where = mailbox.where
      BY <2>3 DEF HistoryExpires, TypeOK, Boxes
    <3> QED BY <3>1, NumbersOf, Numerals DEF BoxGoes
  <2>4. CASE MailAges
    <3>1. mailbox'.broken = mailbox.broken /\ mailbox'.garbled = mailbox.garbled /\ mailbox'.old = mailbox.old + 1 /\ mailbox'.where = mailbox.where
      BY <2>4 DEF MailAges, TypeOK, Boxes
    <3> QED BY <3>1, NumbersOf, Numerals DEF BoxGoes
  <2>5. ASSUME NEW m \in Messages, NEW w \in {"moved", "gone"}, Leave(m, w) PROVE BoxGoes
    <3>1. mailbox' = [mailbox EXCEPT !.where = [mailbox.where EXCEPT ![m] = w]]
      BY <2>5 DEF Leave
    <3>2. /\ mailbox'.broken = mailbox.broken /\ mailbox'.garbled = mailbox.garbled /\ mailbox'.old = mailbox.old
          /\ mailbox'.where = [mailbox.where EXCEPT ![m] = w]
      BY <3>1 DEF TypeOK, Boxes
    <3>3. mailbox.where \in [Messages -> {"inbox", "moved", "gone"}]
      BY DEF TypeOK, Boxes
    <3> QED BY <3>2, <3>3, NumbersOf, Numerals DEF BoxGoes
  <2>6. mailbox' = mailbox \/ Arrive \/ HistoryExpires \/ MailAges \/ \E m \in Messages, w \in {"moved", "gone"} : Leave(m, w)
    BY DEF Outside, Change, TokensExpire, Reconnect, OpenLoop, EndLoop, CloseItem, google
  <2> QED BY <2>1, <2>2, <2>3, <2>4, <2>5, <2>6
<1>2. ItemsGo /\ \A k \in Keys : items[k].st = "none" => items'[k].st = "none"
  <2>1. CASE items' = items
    BY <2>1, SameItems
  <2>2. ASSUME NEW k \in Keys, CloseItem(k) PROVE ItemsGo /\ \A i \in Keys : items[i].st = "none" => items'[i].st = "none"
    BY <2>2 DEF ItemsGo, CloseItem, TypeOK
  <2>3. items' = items \/ \E k \in Keys : CloseItem(k)
    BY DEF Outside, Arrive, Leave, HistoryExpires, MailAges, Change, TokensExpire, Reconnect, OpenLoop, EndLoop, store
  <2> QED BY <2>1, <2>2, <2>3
<1>3. LoopsGo
  <2>1. CASE loops' = loops
    BY <2>1, SameLoops
  <2>2. ASSUME NEW l \in Loops, OpenLoop(l) PROVE LoopsGo
    <3>1. PICK n : n = IF IsMail(l) THEN mailbox.n ELSE calendar.n
      OBVIOUS
    <3>2. loops' = [loops EXCEPT ![l] = [st |-> "open", matched |-> FALSE, since |-> n]] /\ loops[l].st = "new"
      BY <2>2, <3>1 DEF OpenLoop
    <3>3. \A m \in Loops : IF m = l THEN loops'[m].st = "open" /\ loops'[m].since = n ELSE loops'[m] = loops[m]
      BY <3>2 DEF TypeOK
    <3> QED BY <3>1, <3>2, <3>3 DEF LoopsGo
  <2>3. ASSUME NEW l \in Loops, EndLoop(l) PROVE LoopsGo
    BY <2>3 DEF EndLoop, TypeOK, LoopsGo
  <2>4. loops' = loops \/ \E l \in Loops : OpenLoop(l) \/ EndLoop(l)
    BY DEF Outside, Arrive, Leave, HistoryExpires, MailAges, Change, TokensExpire, Reconnect, CloseItem, store
  <2> QED BY <2>1, <2>2, <2>3, <2>4
<1>4. passed' = passed
  BY DEF Outside, Arrive, Leave, HistoryExpires, MailAges, Change, TokensExpire, Reconnect, OpenLoop, EndLoop, CloseItem, history
<1> QED BY <1>1, <1>2, <1>3, <1>4 DEF World

LEMMA StepWorld == ASSUME Sound, [Next]_vars, ~Outside PROVE World
<1> USE DEF Sound
<1>1. CASE UNCHANGED vars
  BY <1>1, SameItems, SameLoops, SameBox DEF World, vars, store, google, history
<1>2. CASE \/ run_gmail \/ run_calendar \/ grant_lost \/ CutShort \/ gmail_profile \/ gmail_history
           \/ gmail_recovery_list \/ calendar_events \/ _matching \/ _finish_item \/ save_calendar_event
           \/ next_page \/ write_cursor
  <2>1. UNCHANGED <<items, loops, mailbox, passed>>
    BY <1>2 DEF run_gmail, run_calendar, grant_lost, CutShort, gmail_profile, gmail_history, gmail_recovery_list,
                calendar_events, _matching, _finish_item, save_calendar_event, next_page, write_cursor,
                store, google, history
  <2> QED BY <2>1, SameItems, SameLoops, SameBox DEF World
<1>3. ASSUME NEW x \in poll.todo, \/ skip_known(x) \/ skip_old(x) \/ skip_not_inbox(x)
                                   \/ note_watcher_reject(x) \/ read_uncounted(x)
      PROVE  World
  <2>1. UNCHANGED <<items, loops, mailbox>> /\ passed \subseteq passed'
    BY <1>3 DEF skip_known, skip_old, skip_not_inbox, note_watcher_reject, read_uncounted, store, google, history
  <2> QED BY <2>1, SameItems, SameLoops, SameBox DEF World
<1>4. ASSUME NEW k \in Keys, Insert(k) PROVE ItemsGo
  BY <1>4, InsertOf DEF ItemsGo
<1>5. ASSUME NEW x \in poll.todo, insert_mail(x) PROVE World
  <2>1. Insert(<<x.id, 0>>) /\ UNCHANGED <<loops, mailbox, passed>> /\ Turn(x) /\ poll.src = "gmail"
    BY <1>5 DEF insert_mail, google, history, Wanted
  <2>2. <<x.id, 0>> \in Keys
    BY <2>1, TurnOf DEF Keys
  <2> QED BY <1>4, <2>1, <2>2, SameLoops, SameBox DEF World
<1>6. ASSUME NEW x \in poll.todo, _apply_event(x) PROVE World
  <2>1. UNCHANGED <<loops, mailbox, passed>> /\ (items' = items \/ Insert(<<x.id, x.at>>))
    BY <1>6 DEF _apply_event, google, history
  <2>2. <<x.id, x.at>> \in Keys
    BY <1>6, ApplySound
  <2> QED BY <1>4, <2>1, <2>2, SameItems, SameLoops, SameBox DEF World
<1>7. ASSUME NEW l \in Loops, bind_open_loop_match(l) PROVE World
  <2>1. UNCHANGED <<mailbox, passed>>
    BY <1>7, BindOf DEF google, history
  <2>2. UNCHANGED <<items, loops>> \/ (Marked(poll.key, l) /\ poll.key \in Keys)
    BY <1>7, BindOf
  <2>3. CASE Marked(poll.key, l) /\ poll.key \in Keys
    <3>1. ItemsGo /\ LoopsGo
      BY <2>3, MarkedOf DEF ItemsGo, LoopsGo
    <3> QED BY <2>1, <3>1, SameBox DEF World
  <2> QED BY <2>1, <2>2, <2>3, SameItems, SameLoops, SameBox DEF World
<1>8. ASSUME NEW l \in Loops, close_loop_from_match(l) PROVE World
  <2>1. UNCHANGED <<mailbox, passed, items>>
    BY <1>8, CloseOf DEF google, history
  <2>2. LoopsGo
    BY <1>8, CloseOf DEF LoopsGo
  <2> QED BY <2>1, <2>2, SameItems, SameBox DEF World
<1> QED BY <1>1, <1>2, <1>3, <1>5, <1>6, <1>7, <1>8 DEF Next, Step

-----------------------------------------------------------------------------
(* Mail: what the cursor passed was stored and matched.                    *)
Waits(l, m) == loops[l].st = "open" /\ m \in Watched[l] /\ loops[l].since < m
Matched(l, m) == items[<<m, 0>>].matched /\ loops[l].matched

\* A message needs nothing more: it is not to be had, or it is in the store
\* and, while it is open, the watches that wait for it are matched; recovery does
\* not look again at those of a message it knows.
Handled(m) ==
    Listable(m) /\ m \notin Refused =>
        /\ items[<<m, 0>>].st # "none"
        /\ m \in passed \/ items[<<m, 0>>].st # "open" \/ \A l \in Loops : Waits(l, m) => Matched(l, m)

CursorHandled == \A m \in Messages : base["gmail"] < m /\ m <= cursor.gmail => Handled(m)

\* The poll has handled what it read and has no longer to do.
Listing == poll.at \in {"idle", "list"} \/ (poll.mode = "recovery" /\ poll.at = "read")
PollHandled ==
    poll.src = "gmail" /\ poll.mode # "baseline" /\ ~Listing =>
        \A m \in Messages : /\ base["gmail"] < m /\ m <= poll.read
                            /\ \A x \in poll.todo : x.id # m
                            => Handled(m)

\* Of the message in hand, the watches that are not due any more are matched.
InHand ==
    poll.src = "gmail" /\ poll.at \in {"evaluate", "bind"} =>
        \A m \in Messages : poll.key = <<m, 0>> =>
            /\ items[<<m, 0>>].st # "none"
            /\ poll.at = "bind" /\ items[<<m, 0>>].st = "open" =>
                   \A l \in Loops : Waits(l, m) /\ l \notin poll.due => Matched(l, m)

BrokenUnknown == \A m \in Messages : m \in mailbox.broken => items[<<m, 0>>].st = "none"

MailInv == CursorHandled /\ PollHandled /\ InHand /\ BrokenUnknown

LEMMA KeyOfMail == \A m \in Messages : <<m, 0>> \in Keys
  BY DEF Keys

LEMMA WaitsStays ==
    ASSUME Sound, World, NEW m \in Messages, m <= mailbox.n, NEW l \in Loops, Waits(l, m)'
    PROVE  Waits(l, m) /\ (Matched(l, m) => Matched(l, m)')
<1>1. loops'[l].st = "open" /\ m \in Watched[l] /\ loops'[l].since < m
  BY DEF Waits
<1>2. CASE loops[l].st = "new"
  <2>1. IsMail(l)
    <3>1. Watched[l] \subseteq Messages \/ Watched[l] \subseteq Events
      <4>1. Watched \in [Loops -> (SUBSET Messages) \cup (SUBSET Events)]
        BY Parameters
      <4>2. Watched[l] \in (SUBSET Messages) \cup (SUBSET Events)
        BY <4>1
      <4> QED BY <4>2
    <3> QED BY <1>1, <3>1, Disjoint DEF IsMail
  <2>2. loops'[l].since = mailbox.n
    BY <1>1, <1>2, <2>1 DEF World, LoopsGo
  <2>3. mailbox.n \in Nat /\ m \in Nat
    BY NumbersOf, Numerals DEF Sound, Messages
  <2> QED BY <1>1, <2>2, <2>3
<1>3. CASE loops[l].st # "new"
  <2>1. loops[l].st = "open" /\ loops'[l].since = loops[l].since /\ (loops[l].matched => loops'[l].matched)
    BY <1>1, <1>3 DEF World, LoopsGo
  <2>2. items[<<m, 0>>].matched => items'[<<m, 0>>].matched
    BY KeyOfMail DEF World, ItemsGo
  <2> QED BY <1>1, <2>1, <2>2 DEF Waits, Matched
<1> QED BY <1>2, <1>3

LEMMA HandledStays ==
    ASSUME Sound, Sound', World, NEW m \in Messages, m <= mailbox.n, Handled(m) PROVE Handled(m)'
<1> SUFFICES ASSUME Listable(m)', m \notin Refused'
             PROVE  /\ items'[<<m, 0>>].st # "none"
                    /\ m \in passed' \/ items'[<<m, 0>>].st # "open" \/ \A l \in Loops : Waits(l, m)' => Matched(l, m)'
  BY DEF Handled
<1>1. Listable(m) /\ m \notin Refused
  <2>1. mailbox.old \in Nat /\ m \in Nat
    BY NumbersOf, Numerals DEF Sound, Messages
  <2>2. mailbox'.old >= mailbox.old /\ m > mailbox'.old /\ mailbox'.where[m] = "inbox"
    BY DEF World, BoxGoes, Listable
  <2>3. mailbox'.old \in Nat
    BY DEF Sound, TypeOK, Boxes
  <2>4. m > mailbox.old
    BY <2>1, <2>2, <2>3
  <2> QED BY <2>2, <2>4 DEF World, BoxGoes, Listable, Refused
<1>2. /\ items[<<m, 0>>].st # "none"
      /\ m \in passed \/ items[<<m, 0>>].st # "open" \/ \A l \in Loops : Waits(l, m) => Matched(l, m)
  BY <1>1 DEF Handled
<1>3. items'[<<m, 0>>].st # "none" /\ (items'[<<m, 0>>].st = "open" => items[<<m, 0>>].st = "open")
  BY <1>2, KeyOfMail DEF World, ItemsGo
<1>4. m \in passed => m \in passed'
  BY DEF World
<1>5. \A l \in Loops : Waits(l, m)' => Waits(l, m) /\ (Matched(l, m) => Matched(l, m)')
  BY WaitsStays
<1> QED BY <1>2, <1>3, <1>4, <1>5

LEMMA CursorStays ==
    ASSUME Sound, Sound', World, CursorHandled, cursor'.gmail = cursor.gmail, base'["gmail"] = base["gmail"]
    PROVE  CursorHandled'
<1>1. ASSUME NEW m \in Messages, base["gmail"] < m, m <= cursor.gmail PROVE Handled(m)'
  <2>1. m <= mailbox.n
    <3>1. m \in Nat /\ mailbox.n \in Nat /\ cursor.gmail \in Int /\ cursor.gmail <= mailbox.n
      BY NumbersOf, Numerals DEF Sound, Messages, NoCursor, Numbers
    <3> QED BY <1>1, <3>1
  <2> QED BY <1>1, <2>1, HandledStays DEF CursorHandled
<1> QED BY <1>1 DEF CursorHandled

\* The poll is left alone.
LEMMA MailAsIs ==
    ASSUME Sound, Sound', World, MailInv, UNCHANGED <<poll, cursor, base>>,
           \A k \in Keys : items[k].st = "none" => items'[k].st = "none"
    PROVE  MailInv'
<1> USE DEF MailInv
<1>1. CursorHandled'
  BY CursorStays
<1>2. PollHandled'
  <2>1. CASE poll.src = "gmail"
    <3>1. \A m \in Messages : m <= poll.read => m <= mailbox.n
      BY <2>1, NumbersOf, Numerals DEF Sound, Messages, Numbers, Now
    <3> QED BY <3>1, HandledStays DEF PollHandled, Listing
  <2>2. CASE poll.src # "gmail"
    BY <2>2 DEF PollHandled
  <2> QED BY <2>1, <2>2
<1>3. InHand'
  <2>1. ASSUME poll.src = "gmail", poll.at \in {"evaluate", "bind"}, NEW m \in Messages, poll.key = <<m, 0>>
        PROVE  /\ items'[<<m, 0>>].st # "none"
               /\ poll.at = "bind" /\ items'[<<m, 0>>].st = "open" =>
                      \A l \in Loops : Waits(l, m)' /\ l \notin poll.due => Matched(l, m)'
    <3>1. m <= mailbox.n
      <4>1. PICK x \in poll.todo : poll.key = <<x.id, 0>> /\ x.id <= mailbox.n
        BY <2>1 DEF Sound, Phase, MailPoll
      <4> QED BY <2>1, <4>1
    <3>2. items[<<m, 0>>].st # "none"
      BY <2>1 DEF InHand
    <3>3. items'[<<m, 0>>].st # "none" /\ (items'[<<m, 0>>].st = "open" => items[<<m, 0>>].st = "open")
      BY <3>2, KeyOfMail DEF World, ItemsGo
    <3> QED BY <2>1, <3>1, <3>3, WaitsStays DEF InHand
  <2> QED BY <2>1 DEF InHand
<1>4. BrokenUnknown'
  BY KeyOfMail DEF BrokenUnknown, World, BoxGoes
<1> QED BY <1>1, <1>2, <1>3, <1>4

LEMMA MailNumbers ==
    ASSUME Sound
    PROVE  /\ \A m \in Messages : m \in Nat /\ m >= 1 /\ m <= M
           /\ mailbox.n \in Nat /\ mailbox.old \in Nat /\ poll.read \in Nat /\ cut \in Nat
           /\ cursor.gmail \in Int /\ cursor.gmail <= mailbox.n
           /\ base["gmail"] \in Int
           /\ poll.src = "gmail" => poll.read <= mailbox.n
<1>1. base["gmail"] \in Int
  BY DEF Sound, TypeOK, Sources, NoCursor
<1> QED BY <1>1, NumbersOf, Numerals DEF Sound, Messages, Numbers, NoCursor, Now

\* What is unknown and broken stays unknown.
LEMMA BrokenStays ==
    ASSUME Sound, World, BrokenUnknown,
           \A m \in Messages : m \in mailbox.broken /\ items[<<m, 0>>].st = "none" => items'[<<m, 0>>].st = "none"
    PROVE  BrokenUnknown'
  BY DEF BrokenUnknown, World, BoxGoes

\* A poll of the calendar, or none.
LEMMA NoMailPoll ==
    ASSUME Sound, Sound', World, MailInv, cursor'.gmail = cursor.gmail, base'["gmail"] = base["gmail"], BrokenUnknown',
           poll'.src = "gmail" => poll'.at = "idle" \/ poll'.at = "list" \/ (poll'.mode = "recovery" /\ poll'.at = "read")
                                   \/ (poll'.mode = "baseline" /\ poll'.at \notin {"evaluate", "bind"})
    PROVE  MailInv'
<1>1. CursorHandled'
  BY CursorStays DEF MailInv
<1>2. PollHandled' /\ InHand'
  BY DEF PollHandled, InHand, Listing
<1> QED BY <1>1, <1>2 DEF MailInv

LEMMA IdleKeepsMail ==
    ASSUME Sound, Sound', World, MailInv, Hold, UNCHANGED <<items, cursor, base>> PROVE MailInv'
<1>1. BrokenUnknown'
  BY BrokenStays DEF MailInv
<1>2. poll'.at = "idle"
  BY DEF Hold, Idle
<1> QED BY <1>1, <1>2, NoMailPoll

LEMMA RunKeepsMail == ASSUME Sound, Sound', World, MailInv, run_gmail \/ run_calendar PROVE MailInv'
<1>0. UNCHANGED <<items, cursor, base>>
  BY DEF run_gmail, run_calendar, store, history
<1>1. BrokenUnknown'
  BY <1>0, BrokenStays DEF MailInv
<1>2. CASE run_gmail /\ cursor.gmail # NoCursor
  <2>1. poll'.src = "gmail" /\ poll'.at = "read" /\ poll'.mode = "history" /\ poll'.read = cursor.gmail
    BY <1>2 DEF run_gmail, Start, Idle
  <2>2. CursorHandled'
    BY <1>0, CursorStays DEF MailInv
  <2>3. PollHandled' /\ InHand'
    BY <1>0, <2>1, <2>2 DEF PollHandled, InHand, CursorHandled
  <2> QED BY <1>1, <2>2, <2>3 DEF MailInv
<1>3. CASE run_gmail /\ cursor.gmail = NoCursor
  <2>1. poll'.at = "read" /\ poll'.mode = "baseline"
    BY <1>3 DEF run_gmail, Start, Idle
  <2> QED BY <1>0, <1>1, <2>1, NoMailPoll
<1>4. CASE run_calendar
  <2>1. poll'.src = "calendar"
    BY <1>4 DEF run_calendar, Start, Idle
  <2> QED BY <1>0, <1>1, <2>1, NoMailPoll
<1> QED BY <1>2, <1>3, <1>4

LEMMA ReadKeepsMail ==
    ASSUME Sound, Sound', World, MailInv, gmail_profile \/ gmail_history \/ gmail_recovery_list PROVE MailInv'
<1>0. UNCHANGED <<items, cursor, base, mailbox, loops, passed>> /\ poll \in Polls
  BY DEF gmail_profile, gmail_history, gmail_recovery_list, store, history, google, Sound, TypeOK
<1>1. BrokenUnknown'
  BY <1>0, BrokenStays DEF MailInv
<1>2. CursorHandled'
  BY <1>0, CursorStays DEF MailInv
<1>3. CASE gmail_profile
  <2>1. PICK at : poll' = [poll EXCEPT !.read = mailbox.n, !.at = at] /\ at = IF poll.mode = "baseline" THEN "next" ELSE "list"
    BY <1>3 DEF gmail_profile
  <2>2. poll'.at = at /\ poll'.mode = poll.mode
    BY <1>0, <2>1 DEF Polls
  <2> QED BY <1>0, <1>1, <2>1, <2>2, NoMailPoll
<1>4. CASE gmail_history /\ cursor.gmail < mailbox.served
  <2>1. poll' = [poll EXCEPT !.mode = "recovery", !.todo = {}, !.more = FALSE] /\ poll.at = "read"
    BY <1>4 DEF gmail_history
  <2>2. poll'.at = "read" /\ poll'.mode = "recovery"
    BY <1>0, <2>1 DEF Polls
  <2> QED BY <1>0, <1>1, <2>2, NoMailPoll
<1>5. CASE gmail_history /\ ~(cursor.gmail < mailbox.served)
  <2>1. PICK q, todo :
            /\ q \in poll.read..mailbox.n
            /\ todo = ListedMail((poll.read + 1)..q)
            /\ poll' = [poll EXCEPT !.at = "next", !.read = q, !.more = q < mailbox.n, !.todo = todo]
    BY <1>5 DEF gmail_history, ListedMail
  <2>2. poll.src = "gmail" /\ poll.at = "read" /\ poll.mode = "history" /\ poll.todo = {}
    BY <1>5 DEF gmail_history, Sound, Phase, MailPoll
  <2>3. poll'.at = "next" /\ poll'.read = q /\ poll'.todo = todo /\ poll'.src = "gmail" /\ poll'.mode = "history"
    BY <1>0, <2>1, <2>2 DEF Polls
  <2>4. ASSUME NEW m \in Messages, base["gmail"] < m, m <= q, \A x \in todo : x.id # m PROVE Handled(m)'
    <3>1. m \notin (poll.read + 1)..q
      <4>1. (poll.read + 1)..q \subseteq Messages
        <5>1. poll.read \in Nat /\ mailbox.n \in 0..M
          BY NumbersOf DEF Sound
        <5>2. q \in poll.read..mailbox.n
          BY <2>1
        <5> QED BY <5>1, <5>2, Numerals DEF Messages
      <4>2. PICK S \in SUBSET Messages : S = (poll.read + 1)..q
        BY <4>1
      <4>3. todo = ListedMail(S)
        BY <2>1, <4>2
      <4>4. m \notin S
        BY <2>4, <4>3, MailListed
      <4> QED BY <4>2, <4>4
    <3>2. m <= poll.read
      BY <2>4, <3>1, MailNumbers
    <3>3. Handled(m)
      BY <2>2, <2>4, <3>2 DEF MailInv, PollHandled, Listing
    <3>4. m <= mailbox.n
      BY <2>1, <2>4, MailNumbers
    <3> QED BY <3>3, <3>4, HandledStays
  <2>5. PollHandled' /\ InHand'
    BY <1>0, <2>3, <2>4 DEF PollHandled, InHand
  <2> QED BY <1>1, <1>2, <2>5 DEF MailInv
<1>6. CASE gmail_recovery_list
  <2>1. PICK S, todo : /\ S = {k \in (mailbox.old + 1)..mailbox.n : mailbox.where[k] = "inbox"}
                       /\ todo = ListedMail(S) /\ poll' = [poll EXCEPT !.at = "next", !.todo = todo]
    BY <1>6 DEF gmail_recovery_list, ListedMail
  <2>2. poll'.at = "next" /\ poll'.todo = todo /\ poll'.src = poll.src /\ poll'.mode = poll.mode /\ poll'.read = poll.read
    BY <1>0, <2>1 DEF Polls
  <2>3. S \subseteq Messages
    BY <2>1, NumbersOf, Numerals DEF Sound, Messages
  <2>4. ASSUME poll.src = "gmail", NEW m \in Messages, m <= poll.read, \A x \in todo : x.id # m PROVE Handled(m)'
    <3>1. m \notin S
      BY <2>1, <2>3, <2>4, MailListed
    <3>2. m \in 1..mailbox.n
      BY <2>4, MailNumbers
    <3>3. ~Listable(m)
      BY <2>1, <3>1, <3>2, MailNumbers DEF Listable
    <3> QED BY <1>0, <3>3 DEF Handled, Listable
  <2>5. PollHandled' /\ InHand'
    BY <1>0, <2>2, <2>4 DEF PollHandled, InHand
  <2> QED BY <1>1, <1>2, <2>5 DEF MailInv
<1> QED BY <1>3, <1>4, <1>5, <1>6

\* A step of a poll of the calendar.
LEMMA CalendarStepKeepsMail ==
    ASSUME Sound, Sound', World, MailInv, poll'.src # "gmail" \/ poll'.at = "idle",
           cursor'.gmail = cursor.gmail, base'["gmail"] = base["gmail"],
           \A m \in Messages : items'[<<m, 0>>].st = items[<<m, 0>>].st
    PROVE  MailInv'
<1>1. BrokenUnknown'
  BY BrokenStays DEF MailInv
<1> QED BY <1>1, NoMailPoll

\* A step of a poll of the mail that leaves its list as it is.
LEMMA PollGoesOn ==
    ASSUME Sound, Sound', World, MailInv, poll.src = "gmail", ~Listing, UNCHANGED <<cursor, base>>,
           poll'.src = poll.src, poll'.mode = poll.mode, poll'.todo = poll.todo, poll'.read = poll.read,
           BrokenUnknown', InHand'
    PROVE  MailInv'
<1>1. CursorHandled'
  BY CursorStays DEF MailInv
<1>2. ASSUME poll.mode # "baseline", NEW m \in Messages, base["gmail"] < m, m <= poll.read, \A x \in poll.todo : x.id # m
      PROVE  Handled(m)'
  <2>1. Handled(m)
    BY <1>2 DEF MailInv, PollHandled
  <2>2. m <= mailbox.n
    BY <1>2, MailNumbers
  <2> QED BY <2>1, <2>2, HandledStays
<1>3. PollHandled'
  BY <1>2 DEF PollHandled
<1> QED BY <1>1, <1>3 DEF MailInv

\* A message is ticked off.
LEMMA TickedOff ==
    ASSUME Sound, Sound', World, MailInv, poll.src = "gmail", poll.at \in {"next", "bind"}, NEW x \in poll.todo, Done(x),
           UNCHANGED <<cursor, base>>, BrokenUnknown', base["gmail"] < x.id => Handled(x.id)'
    PROVE  MailInv'
<1>1. CursorHandled'
  BY CursorStays DEF MailInv
<1>2. /\ poll'.todo = poll.todo \ {x} /\ poll'.at = "next" /\ poll'.src = poll.src /\ poll'.mode = poll.mode
      /\ poll'.read = poll.read
  BY DoneOf DEF Sound, TypeOK
<1>3. ASSUME poll.mode # "baseline", NEW m \in Messages, base["gmail"] < m, m <= poll.read,
             \A y \in poll.todo \ {x} : y.id # m
      PROVE  Handled(m)'
  <2>1. CASE m = x.id
    BY <1>3, <2>1
  <2>2. CASE m # x.id
    <3>1. Handled(m)
      BY <1>3, <2>2 DEF MailInv, PollHandled, Listing
    <3>2. m <= mailbox.n
      BY <1>3, MailNumbers
    <3> QED BY <3>1, <3>2, HandledStays
  <2> QED BY <2>1, <2>2
<1>4. PollHandled' /\ InHand'
  BY <1>2, <1>3 DEF PollHandled, InHand
<1> QED BY <1>1, <1>4 DEF MailInv

LEMMA MessageKeepsMail ==
    ASSUME Sound, Sound', World, MailInv, NEW x \in poll.todo,
           skip_known(x) \/ skip_old(x) \/ skip_not_inbox(x) \/ note_watcher_reject(x) \/ read_uncounted(x)
    PROVE  MailInv'
<1>0. /\ poll.at = "next" /\ poll.src = "gmail" /\ x.id \in Messages /\ UNCHANGED <<items, loops, mailbox, cursor, base>>
  <2>1. Turn(x) /\ poll.src = "gmail" /\ UNCHANGED <<items, loops, mailbox, cursor, base>>
    BY DEF skip_known, skip_old, skip_not_inbox, note_watcher_reject, read_uncounted, Wanted, store, google, history
  <2> QED BY <2>1, TurnOf
<1>b. BrokenUnknown'
  BY <1>0, BrokenStays DEF MailInv
<1>1. CASE skip_known(x)
  <2>1. items[<<x.id, 0>>].st # "none" /\ x.id \in passed' /\ Done(x)
    BY <1>1 DEF skip_known
  <2>2. Handled(x.id)'
    BY <1>0, <2>1 DEF Handled
  <2> QED BY <1>0, <1>b, <2>1, <2>2, TickedOff
<1>2. CASE skip_old(x)
  <2>1. x.id <= cut /\ Done(x)
    BY <1>2 DEF skip_old
  <2>2. x.id <= cursor.gmail
    BY <1>0, <2>1, MailNumbers DEF Sound, Numbers
  <2>3. x.id <= mailbox.n
    BY <1>0, <2>2, MailNumbers
  <2>4. base["gmail"] < x.id => Handled(x.id)'
    BY <1>0, <2>2, <2>3, HandledStays DEF MailInv, CursorHandled
  <2> QED BY <1>0, <1>b, <2>1, <2>4, TickedOff
<1>3. CASE skip_not_inbox(x)
  <2>1. mailbox.where[x.id] = "moved" /\ Done(x)
    BY <1>3 DEF skip_not_inbox
  <2>2. Handled(x.id)'
    BY <1>0, <2>1 DEF Handled, Listable
  <2> QED BY <1>0, <1>b, <2>1, <2>2, TickedOff
<1>4. CASE note_watcher_reject(x)
  <2>1. (mailbox.where[x.id] = "gone" \/ x.id \in Refused) /\ (Done(x) \/ Hold)
    BY <1>4 DEF note_watcher_reject, Refused
  <2>2. Handled(x.id)'
    BY <1>0, <2>1 DEF Handled, Listable, Refused
  <2> QED BY <1>0, <1>b, <2>1, <2>2, TickedOff, IdleKeepsMail
<1>5. CASE read_uncounted(x)
  BY <1>0, <1>b, <1>5, IdleKeepsMail DEF read_uncounted
<1> QED BY <1>1, <1>2, <1>3, <1>4, <1>5

LEMMA InsertKeepsMail ==
    ASSUME Sound, Sound', World, MailInv, NEW x \in poll.todo, insert_mail(x) PROVE MailInv'
<1>0. /\ poll.at = "next" /\ poll.src = "gmail" /\ x.id \in Messages /\ poll \in Polls
      /\ UNCHANGED <<cursor, base>> /\ Insert(<<x.id, 0>>) /\ x.id \notin mailbox.broken
  <2>1. Turn(x) /\ poll.src = "gmail" /\ UNCHANGED <<cursor, base>> /\ Insert(<<x.id, 0>>) /\ x.id \notin mailbox.broken
    BY DEF insert_mail, Readable, Wanted, history
  <2> QED BY <2>1, TurnOf
<1>1. PICK k \in Keys : k = <<x.id, 0>>
  BY <1>0, KeyOfMail
<1>2. poll' = [poll EXCEPT !.at = "evaluate", !.key = k]
  BY <1>1 DEF insert_mail
<1>3. /\ poll'.src = poll.src /\ poll'.at = "evaluate" /\ poll'.todo = poll.todo /\ poll'.mode = poll.mode
      /\ poll'.read = poll.read /\ poll'.key = k
  BY <1>0, <1>2 DEF Polls
<1>4. items'[k].st # "none" /\ \A i \in Keys : i # k => items'[i] = items[i]
  BY <1>0, <1>1, InsertOf DEF Sound
<1>5. BrokenUnknown'
  <2>1. \A m \in Messages : m \in mailbox.broken => <<m, 0>> # k
    BY <1>0, <1>1
  <2> QED BY <1>4, <2>1, KeyOfMail, BrokenStays DEF MailInv
<1>6. InHand'
  BY <1>3, <1>4 DEF InHand
<1> QED BY <1>0, <1>3, <1>5, <1>6, PollGoesOn DEF Listing

LEMMA MatchingKeepsMail == ASSUME Sound, Sound', World, MailInv, _matching, poll.src = "gmail" PROVE MailInv'
<1>1. UNCHANGED <<items, loops, cursor, base, mailbox>> /\ poll.at = "evaluate"
  BY MatchingOf DEF store, history, google
<1>2. BrokenUnknown'
  BY <1>1, BrokenStays DEF MailInv
<1>3. ASSUME NEW m \in Messages, poll.key = <<m, 0>>
      PROVE  items[<<m, 0>>].st # "none" /\ \A l \in Loops : Waits(l, m) => l \in poll'.due
  <2>1. items[<<m, 0>>].st # "none"
    BY <1>1, <1>3 DEF MailInv, InHand
  <2>2. ASSUME NEW l \in Loops, Waits(l, m) PROVE Matches(l, poll.key, poll.off)
    <3>1. m > loops[l].since
      BY <2>2, MailNumbers DEF Waits, Sound, TypeOK
    <3>2. poll.key[1] = m
      BY <1>3
    <3> QED BY <2>2, <3>1, <3>2 DEF Waits, Matches
  <2> QED BY <2>1, <2>2, MatchingOf
<1>4. InHand'
  BY <1>1, <1>3, MatchingOf DEF InHand, Waits
<1> QED BY <1>1, <1>2, <1>4, PollGoesOn, MatchingOf DEF Listing

LEMMA BindKeepsMail ==
    ASSUME Sound, Sound', World, MailInv, NEW l \in Loops, bind_open_loop_match(l), poll.src = "gmail" PROVE MailInv'
<1>0. UNCHANGED <<cursor, base>> /\ poll.at = "bind" /\ poll.key \in Keys
  BY BindOf DEF history
<1>1. CASE Hold
  <2>1. items' = items
    <3>1. poll'.at = "idle" /\ "idle" # "bind"
      BY <1>1 DEF Hold, Idle
    <3> QED BY <3>1, BindOf
  <2> QED BY <1>0, <1>1, <2>1, IdleKeepsMail
<1>2. CASE ~Hold
  <2>1. /\ poll'.src = poll.src /\ poll'.mode = poll.mode /\ poll'.todo = poll.todo /\ poll'.read = poll.read
        /\ poll'.key = poll.key /\ poll'.at = "bind" /\ poll'.due = poll.due \ {l}
    BY <1>2, BindOf
  <2>2. (loops[l].st # "open" /\ UNCHANGED <<items, loops>>) \/ Marked(poll.key, l)
    BY <1>2, BindOf
  <2>3. \A m \in Messages : items'[<<m, 0>>].st = items[<<m, 0>>].st
    BY <1>0, <2>2, MarkedOf, KeyOfMail DEF Sound
  <2>4. BrokenUnknown'
    BY <2>3, BrokenStays DEF MailInv
  <2>5. ASSUME NEW m \in Messages, poll.key = <<m, 0>>, items[<<m, 0>>].st = "open",
               NEW j \in Loops, Waits(j, m)', j \notin poll.due \ {l}
        PROVE  Matched(j, m)'
    <3>1. m <= mailbox.n
      <4>1. PICK x \in poll.todo : poll.key = <<x.id, 0>> /\ x.id <= mailbox.n
        BY <1>0 DEF Sound, Phase, MailPoll
      <4> QED BY <2>5, <4>1
    <3>2. Waits(j, m) /\ (Matched(j, m) => Matched(j, m)')
      BY <2>5, <3>1, WaitsStays
    <3>3. CASE j # l
      BY <1>0, <2>5, <3>2, <3>3 DEF MailInv, InHand
    <3>4. CASE j = l
      <4>1. Marked(poll.key, l)
        BY <2>2, <3>2, <3>4 DEF Waits
      <4> QED BY <1>0, <2>5, <3>4, <4>1, MarkedOf DEF Matched, Sound
    <3> QED BY <3>3, <3>4
  <2>6. InHand'
    BY <1>0, <2>1, <2>3, <2>5 DEF InHand, MailInv
  <2> QED BY <1>0, <2>1, <2>4, <2>6, PollGoesOn DEF Listing
<1> QED BY <1>1, <1>2

LEMMA FinishKeepsMail == ASSUME Sound, Sound', World, MailInv, _finish_item, poll.src = "gmail" PROVE MailInv'
<1>1. /\ poll.at = "bind" /\ poll.due = {} /\ UNCHANGED <<items, loops, cursor, base, mailbox>>
  BY DEF _finish_item, store, history, google
<1>2. PICK x \in poll.todo : x.id = poll.key[1] /\ Done(x)
  BY DEF _finish_item
<1>3. PICK y \in poll.todo : poll.key = <<y.id, 0>> /\ y.id \in Messages /\ y.id <= mailbox.n
  BY <1>1 DEF Sound, Phase, MailPoll
<1>4. x.id = y.id
  BY <1>2, <1>3
<1>5. Handled(y.id)
  BY <1>1, <1>3 DEF MailInv, InHand, Handled
<1>6. Handled(x.id)'
  BY <1>3, <1>4, <1>5, HandledStays
<1>7. BrokenUnknown'
  BY <1>1, BrokenStays DEF MailInv
<1> QED BY <1>1, <1>2, <1>6, <1>7, TickedOff

LEMMA WriteKeepsMail == ASSUME Sound, Sound', World, MailInv, write_cursor, poll.src = "gmail" PROVE MailInv'
<1>1. /\ poll.at = "next" /\ poll.todo = {} /\ items' = items /\ cursor'.gmail = poll.read
      /\ base'["gmail"] = IF poll.mode = "baseline" THEN poll.read ELSE base["gmail"]
  BY WriteOf
<1>2. BrokenUnknown'
  BY <1>1, BrokenStays DEF MailInv
<1>3. ASSUME NEW m \in Messages, base'["gmail"] < m, m <= poll.read PROVE Handled(m)'
  <2>1. poll.mode # "baseline"
    BY <1>1, <1>3, MailNumbers
  <2>2. Handled(m)
    BY <1>1, <1>3, <2>1 DEF MailInv, PollHandled, Listing
  <2>3. m <= mailbox.n
    BY <1>3, MailNumbers
  <2> QED BY <2>2, <2>3, HandledStays
<1>4. CursorHandled'
  BY <1>1, <1>3 DEF CursorHandled
<1>5. poll'.at = "idle"
  BY WriteOf DEF Hold, Idle
<1>6. PollHandled' /\ InHand'
  BY <1>5 DEF PollHandled, Listing, InHand
<1> QED BY <1>2, <1>4, <1>6 DEF MailInv

LEMMA PageKeepsMail == ASSUME Sound, Sound', World, MailInv, next_page PROVE MailInv'
<1>1. /\ poll.at = "next" /\ poll \in Polls /\ UNCHANGED <<items, cursor, base>>
      /\ poll' = [poll EXCEPT !.at = "read", !.more = FALSE]
  BY DEF next_page, store, history, Sound, TypeOK
<1>2. /\ poll'.src = poll.src /\ poll'.mode = poll.mode /\ poll'.todo = poll.todo /\ poll'.read = poll.read
      /\ poll'.at = "read"
  BY <1>1 DEF Polls
<1>3. BrokenUnknown'
  BY <1>1, BrokenStays DEF MailInv
<1>4. InHand'
  BY <1>2 DEF InHand
<1>5. CASE poll.src = "gmail"
  BY <1>1, <1>2, <1>3, <1>4, <1>5, PollGoesOn DEF Listing
<1>6. CASE poll.src # "gmail"
  BY <1>1, <1>2, <1>3, <1>6, NoMailPoll
<1> QED BY <1>5, <1>6

LEMMA MailAtFirst == Init => MailInv
<1> SUFFICES ASSUME Init PROVE MailInv
  OBVIOUS
<1>1. cursor.gmail = NoCursor /\ base["gmail"] = NoCursor /\ poll.at = "idle"
  BY DEF Init, Sources, Idle
<1>2. \A m \in Messages : items[<<m, 0>>].st = "none"
  BY KeyOfMail DEF Init
<1>3. CursorHandled
  BY <1>1, Numerals DEF CursorHandled, Messages, NoCursor
<1> QED BY <1>1, <1>2, <1>3 DEF MailInv, PollHandled, InHand, Listing, BrokenUnknown

LEMMA MailStays == Sound /\ MailInv /\ [Next]_vars => MailInv'
<1> SUFFICES ASSUME Sound, MailInv, [Next]_vars PROVE MailInv'
  OBVIOUS
<1>s. Sound'
  BY SoundStays
<1>1. CASE Outside
  <2>1. UNCHANGED <<poll, cursor, base>>
    BY <1>1 DEF Outside, Arrive, Leave, HistoryExpires, MailAges, Change, TokensExpire, Reconnect, OpenLoop, EndLoop,
                CloseItem, store, history
  <2> QED BY <1>s, <1>1, <2>1, OutsideWorld, MailAsIs
<1>2. CASE ~Outside
  <2>w. World
    BY <1>2, StepWorld
  <2>0. CASE UNCHANGED vars
    BY <1>s, <2>w, <2>0, MailAsIs DEF vars, store, history
  <2>1. CASE run_gmail \/ run_calendar
    BY <1>s, <2>w, <2>1, RunKeepsMail
  <2>2. CASE grant_lost \/ CutShort
    BY <1>s, <2>w, <2>2, IdleKeepsMail DEF grant_lost, CutShort, Fault, store, history
  <2>3. CASE gmail_profile \/ gmail_history \/ gmail_recovery_list
    BY <1>s, <2>w, <2>3, ReadKeepsMail
  <2>4. CASE calendar_events
    <3>1. UNCHANGED <<items, base>> /\ cursor'.gmail = cursor.gmail /\ poll'.src = "calendar"
      <4>1. UNCHANGED <<items, base>> /\ cursor \in [gmail : {NoCursor} \cup 0..M, calendar : {NoCursor, Resync} \cup 0..MaxChanges]
            /\ poll \in Polls /\ poll.src = "calendar"
        BY <2>4, CalendarRead DEF Sound, TypeOK, history
      <4>2. \/ cursor' = [cursor EXCEPT !.calendar = Resync] /\ poll' = [poll EXCEPT !.mode = "recovery"]
            \/ cursor' = cursor /\ poll'.src = "calendar"
        BY <2>4, CalendarRead
      <4> QED BY <4>1, <4>2 DEF Polls
    <3> QED BY <1>s, <2>w, <3>1, CalendarStepKeepsMail
  <2>5. ASSUME NEW x \in poll.todo,
               skip_known(x) \/ skip_old(x) \/ skip_not_inbox(x) \/ note_watcher_reject(x)
               \/ read_uncounted(x) \/ insert_mail(x)
        PROVE  MailInv'
    BY <1>s, <2>w, <2>5, MessageKeepsMail, InsertKeepsMail
  <2>6. ASSUME NEW x \in poll.todo, _apply_event(x) PROVE MailInv'
    <3>1. poll'.src = "calendar" /\ <<x.id, x.at>> \in Keys /\ UNCHANGED <<cursor, base>>
      BY <2>6, ApplySound DEF _apply_event, history
    <3>2. Insert(<<x.id, x.at>>) \/ items' = items
      BY <2>6 DEF _apply_event
    <3>3. \A m \in Messages : <<m, 0>> # <<x.id, x.at>>
      <4>1. Turn(x) /\ poll.src = "calendar"
        BY <2>6 DEF _apply_event
      <4>2. x.id \in Events
        BY <2>6, <4>1, TurnOf
      <4> QED BY <4>2, Disjoint
    <3>4. \A m \in Messages : items'[<<m, 0>>].st = items[<<m, 0>>].st
      <4>1. PICK k \in Keys : k = <<x.id, x.at>>
        BY <3>1
      <4> QED BY <3>2, <3>3, <4>1, KeyOfMail, InsertOf DEF Sound
    <3> QED BY <1>s, <2>w, <3>1, <3>4, CalendarStepKeepsMail
  <2>7. CASE _matching
    <3>1. CASE poll.src # "gmail"
      BY <1>s, <2>w, <2>7, <3>1, MatchingOf, CalendarStepKeepsMail DEF store, history
    <3> QED BY <1>s, <2>w, <2>7, <3>1, MatchingKeepsMail
  <2>8. CASE _finish_item
    <3>1. CASE poll.src # "gmail"
      <4>1. poll' = [poll EXCEPT !.at = "close"] /\ UNCHANGED <<items, cursor, base>> /\ poll \in Polls
        BY <2>8, <3>1 DEF _finish_item, store, history, Sound, TypeOK
      <4>2. poll'.src = poll.src
        BY <4>1 DEF Polls
      <4> QED BY <1>s, <2>w, <3>1, <4>1, <4>2, CalendarStepKeepsMail
    <3> QED BY <1>s, <2>w, <2>8, <3>1, FinishKeepsMail
  <2>9. CASE save_calendar_event
    <3>1. poll'.src = "calendar" /\ UNCHANGED <<items, cursor, base>>
      BY <2>9, SaveOf, DoneOf DEF Sound, TypeOK, history
    <3> QED BY <1>s, <2>w, <3>1, CalendarStepKeepsMail
  <2>10. CASE next_page
    BY <1>s, <2>w, <2>10, PageKeepsMail
  <2>11. CASE write_cursor
    <3>1. CASE poll.src # "gmail"
      <4>1. poll'.at = "idle" /\ items' = items /\ cursor'.gmail = cursor.gmail /\ base'["gmail"] = base["gmail"]
        BY <2>11, <3>1, WriteOf DEF Hold, Idle
      <4> QED BY <1>s, <2>w, <4>1, CalendarStepKeepsMail
    <3> QED BY <1>s, <2>w, <2>11, <3>1, WriteKeepsMail
  <2>12. ASSUME NEW l \in Loops, bind_open_loop_match(l) PROVE MailInv'
    <3>1. CASE poll.src # "gmail"
      <4>1. UNCHANGED <<cursor, base>> /\ poll.key \in Keys
        BY <2>12, BindOf DEF history
      <4>2. poll'.src # "gmail" \/ poll'.at = "idle"
        BY <2>12, <3>1, BindOf DEF Hold, Idle
      <4>3. UNCHANGED items \/ Marked(poll.key, l)
        BY <2>12, BindOf
      <4>4. \A m \in Messages : items'[<<m, 0>>].st = items[<<m, 0>>].st
        BY <4>1, <4>3, MarkedOf, KeyOfMail DEF Sound
      <4> QED BY <1>s, <2>w, <4>1, <4>2, <4>4, CalendarStepKeepsMail
    <3> QED BY <1>s, <2>w, <2>12, <3>1, BindKeepsMail
  <2>13. ASSUME NEW l \in Loops, close_loop_from_match(l) PROVE MailInv'
    <3>1. UNCHANGED <<items, cursor, base>> /\ poll.at = "close" /\ poll'.src = poll.src
      <4>1. poll' = [poll EXCEPT !.bound = poll.bound \ {l}] /\ poll \in Polls
        BY <2>13 DEF close_loop_from_match, Sound, TypeOK
      <4>2. poll'.src = poll.src
        BY <4>1 DEF Polls
      <4> QED BY <2>13, <4>2, CloseOf DEF history
    <3>2. poll.src # "gmail"
      BY <3>1 DEF Sound, Phase, MailPoll
    <3> QED BY <1>s, <2>w, <3>1, <3>2, CalendarStepKeepsMail
  <2> QED BY <1>2, <2>0, <2>1, <2>2, <2>3, <2>4, <2>5, <2>6, <2>7, <2>8, <2>9, <2>10, <2>11, <2>12, <2>13 DEF Next, Step
<1> QED BY <1>1, <1>2

-----------------------------------------------------------------------------
(* Calendar: no item of what the first sync found.                         *)
InSync == poll.src = "calendar" /\ poll.at # "read"

\* The first sync writes the two cursors together.
FirstSynced ==
    /\ base["calendar"] = NoCursor <=> cursor.calendar = NoCursor
    /\ base["calendar"] <= calendar.n

\* What has not changed since the first sync is saved as it is.
KnownSaved ==
    base["calendar"] # NoCursor =>
        \A e \in Events : 0 < calendar.event[e].at /\ calendar.event[e].at <= base["calendar"] => saved[e] = calendar.event[e].at

\* During it, it is saved or still listed.
SavedOrListed ==
    InSync /\ poll.mode = "baseline" =>
        \A e \in Events : 0 < calendar.event[e].at /\ calendar.event[e].at <= poll.read =>
            saved[e] = calendar.event[e].at \/ \E x \in poll.todo : x.id = e

\* What is listed is as the event is, or the event changed after the read.
ListedAsRead == InSync => \A x \in poll.todo : x.at = calendar.event[x.id].at \/ calendar.event[x.id].at > poll.read

\* A later sync reads past the first one, and lists nothing of it that is not saved.
ListedFresh ==
    InSync /\ poll.mode # "baseline" =>
        base["calendar"] <= poll.read /\ \A x \in poll.todo : x.at <= base["calendar"] => saved[x.id] = x.at

ItemsAfterBase == \A e \in Events, a \in Stamps :
    items[<<e, a>>].st # "none" => base["calendar"] # NoCursor /\ a > base["calendar"]

EventInv == FirstSynced /\ KnownSaved /\ SavedOrListed /\ ListedAsRead /\ ListedFresh /\ ItemsAfterBase

LEMMA KeyOfEvent == \A e \in Events, a \in Stamps : <<e, a>> \in Keys
  BY DEF Keys

LEMMA EventNumbers ==
    ASSUME Sound
    PROVE  /\ \A e \in Events : calendar.event[e].at \in Nat /\ calendar.event[e].at <= calendar.n
           /\ calendar.n \in Nat /\ poll.read \in Nat /\ base["calendar"] \in Int /\ base["calendar"] >= NoCursor
           /\ poll.src = "calendar" => poll.read <= calendar.n
           /\ \A a \in Stamps : a \in Nat /\ a > 0
           /\ \A e \in Events : saved[e] \in Nat
<1>1. base["calendar"] \in {NoCursor} \cup Nat
  BY DEF Sound, TypeOK, Sources
<1>2. \A e \in Events : saved[e] \in Nat
  BY Numerals DEF Sound, TypeOK
<1>3. \A e \in Events : calendar.event[e].at \in 0..MaxChanges /\ calendar.event[e].at <= calendar.n
  BY NumbersOf DEF Sound, Numbers
<1>4. calendar.n \in 0..MaxChanges /\ poll.read \in Nat
  BY NumbersOf DEF Sound
<1>5. poll.src = "calendar" => poll.read <= calendar.n
  BY DEF Sound, Numbers, Now
<1> QED BY <1>1, <1>2, <1>3, <1>4, <1>5, Numerals DEF NoCursor, Stamps

NoNewItem == \A e \in Events, a \in Stamps : items'[<<e, a>>].st # "none" => items[<<e, a>>].st # "none"
SamePoll == poll'.src = poll.src /\ poll'.mode = poll.mode /\ poll'.todo = poll.todo /\ poll'.read = poll.read

\* A step that does not touch the calendar's part.
LEMMA EventsAsIs ==
    ASSUME EventInv, NoNewItem, saved' = saved, calendar'.event = calendar.event, calendar'.n = calendar.n,
           cursor'.calendar = cursor.calendar, base'["calendar"] = base["calendar"],
           poll'.src = "gmail" \/ poll'.at = "read" \/ (SamePoll /\ poll.at # "read")
    PROVE  EventInv'
<1> USE DEF EventInv
<1>1. FirstSynced' /\ KnownSaved' /\ ItemsAfterBase'
  BY DEF FirstSynced, KnownSaved, ItemsAfterBase, NoNewItem
<1>2. CASE poll'.src = "gmail" \/ poll'.at = "read"
  <2>1. ~InSync'
    BY <1>2 DEF InSync
  <2> QED BY <1>1, <2>1 DEF SavedOrListed, ListedAsRead, ListedFresh
<1>3. CASE SamePoll /\ poll.at # "read"
  <2>1. InSync' => InSync
    BY <1>3 DEF InSync, SamePoll
  <2>2. SavedOrListed'
    BY <1>3, <2>1 DEF SavedOrListed, SamePoll
  <2>3. ListedAsRead'
    BY <1>3, <2>1 DEF ListedAsRead, SamePoll
  <2>4. ListedFresh'
    BY <1>3, <2>1 DEF ListedFresh, SamePoll
  <2> QED BY <1>1, <2>2, <2>3, <2>4
<1> QED BY <1>2, <1>3

LEMMA ChangeKeepsEvents ==
    ASSUME Sound, EventInv, NEW e \in Events, NEW off \in BOOLEAN, Change(e, off) PROVE EventInv'
<1> USE DEF EventInv
<1>1. /\ calendar'.n = calendar.n + 1
      /\ \A f \in Events : calendar'.event[f].at = IF f = e THEN calendar.n + 1 ELSE calendar.event[f].at
  <2>1. PICK n : n = calendar.n + 1
    OBVIOUS
  <2>2. PICK ev : ev = [calendar.event EXCEPT ![e] = [at |-> n, off |-> off]]
    OBVIOUS
  <2>3. calendar' = [calendar EXCEPT !.n = n, !.event = ev]
    BY <2>1, <2>2, Zenon DEF Change
  <2>4. calendar \in Calendars
    BY DEF Sound, TypeOK
  <2>5. calendar'.n = n /\ calendar'.event = ev
    BY <2>3, <2>4 DEF Calendars
  <2>6. \A f \in Events : ev[f].at = IF f = e THEN n ELSE calendar.event[f].at
    BY <2>2, <2>4 DEF Calendars
  <2> QED BY <2>1, <2>5, <2>6
<1>2. UNCHANGED <<items, saved, poll, cursor, base>>
  BY DEF Change, store, history
<1>3. calendar.n \in Nat /\ base["calendar"] \in Int /\ poll.read \in Nat /\ (poll.src = "calendar" => poll.read <= calendar.n)
  BY EventNumbers
<1>4. FirstSynced'
  BY <1>1, <1>2, <1>3 DEF FirstSynced
<1>5. KnownSaved'
  BY <1>1, <1>2, <1>3 DEF KnownSaved, FirstSynced
<1>6. SavedOrListed'
  BY <1>1, <1>2, <1>3 DEF SavedOrListed, InSync
<1>7. ListedAsRead'
  <2>1. ASSUME InSync, NEW x \in poll.todo
        PROVE  x.at = calendar'.event[x.id].at \/ calendar'.event[x.id].at > poll.read
    <3>1. x.id \in Events
      BY <2>1 DEF InSync, Sound, Phase, EventPoll
    <3> QED BY <1>1, <1>3, <2>1, <3>1 DEF ListedAsRead, InSync
  <2> QED BY <1>2, <2>1 DEF ListedAsRead, InSync
<1>8. ListedFresh' /\ ItemsAfterBase'
  BY <1>2 DEF ListedFresh, InSync, ItemsAfterBase
<1> QED BY <1>4, <1>5, <1>6, <1>7, <1>8

LEMMA SyncKeepsEvents == ASSUME Sound, EventInv, calendar_events PROVE EventInv'
<1> USE DEF EventInv
<1>0. /\ UNCHANGED <<items, saved, calendar, base>> /\ poll.src = "calendar" /\ poll.at = "read" /\ poll \in Polls
      /\ cursor \in [gmail : {NoCursor} \cup 0..M, calendar : {NoCursor, Resync} \cup 0..MaxChanges]
  BY CalendarRead DEF google, history, Sound, TypeOK
<1>1. CASE poll.mode = "incremental" /\ cursor' = [cursor EXCEPT !.calendar = Resync] /\ poll' = [poll EXCEPT !.mode = "recovery"]
  <2>1. poll'.at = "read" /\ cursor'.calendar = Resync
    BY <1>0, <1>1 DEF Polls
  <2>2. cursor.calendar # NoCursor
    BY <1>0, <1>1 DEF Sound, Phase, EventPoll
  <2>3. FirstSynced' /\ KnownSaved' /\ ItemsAfterBase'
    BY <1>0, <2>1, <2>2 DEF FirstSynced, KnownSaved, ItemsAfterBase, Resync, NoCursor
  <2> QED BY <2>1, <2>3 DEF InSync, SavedOrListed, ListedAsRead, ListedFresh
<1>2. CASE /\ cursor' = cursor /\ poll'.src = "calendar" /\ poll'.at = "next" /\ poll'.mode = poll.mode
           /\ poll'.read = calendar.n
           /\ poll'.todo = ListedEvents({e \in Events : calendar.event[e].at > SyncFrom}) /\ SyncFrom \in 0..MaxChanges
  <2>1. PICK S \in SUBSET Events : S = {e \in Events : calendar.event[e].at > SyncFrom} /\ poll'.todo = ListedEvents(S)
    BY <1>2
  <2>2. \A x \in poll'.todo : x.id \in S /\ x.at = calendar.event[x.id].at
    BY <2>1, EventsListed DEF Sound
  <2>3. FirstSynced' /\ KnownSaved' /\ ItemsAfterBase'
    BY <1>0, <1>2 DEF FirstSynced, KnownSaved, ItemsAfterBase
  <2>4. SavedOrListed'
    <3>1. ASSUME poll.mode = "baseline", NEW e \in Events, 0 < calendar.event[e].at PROVE \E x \in poll'.todo : x.id = e
      <4>1. e \in S
        BY <2>1, <3>1 DEF SyncFrom
      <4>2. PICK x \in ListedEvents(S) : x.id = e
        BY <4>1, EventsListed DEF Sound
      <4> QED BY <2>1, <4>2
    <3> QED BY <1>0, <1>2, <3>1 DEF SavedOrListed
  <2>5. ListedAsRead'
    BY <1>0, <2>2 DEF ListedAsRead
  <2>6. ListedFresh'
    <3>1. ASSUME poll.mode # "baseline" PROVE base["calendar"] # NoCursor
      BY <1>0, <3>1 DEF FirstSynced, Sound, Phase, EventPoll
    <3>2. ASSUME poll.mode # "baseline", NEW x \in poll'.todo, x.at <= base["calendar"] PROVE saved[x.id] = x.at
      <4>1. x.id \in Events /\ x.at = calendar.event[x.id].at
        BY <2>2
      <4>2. calendar.event[x.id].at > SyncFrom /\ SyncFrom >= 0 /\ SyncFrom \in Int
        BY <1>2, <2>1, <2>2
      <4>3. 0 < calendar.event[x.id].at
        BY <4>1, <4>2, EventNumbers
      <4> QED BY <3>1, <3>2, <4>1, <4>3 DEF KnownSaved
    <3> QED BY <1>0, <1>2, <3>2 DEF ListedFresh, FirstSynced
  <2> QED BY <2>3, <2>4, <2>5, <2>6
<1> QED BY <1>1, <1>2, CalendarRead

LEMMA ApplyKeepsEvents == ASSUME Sound, EventInv, NEW x \in poll.todo, _apply_event(x) PROVE EventInv'
<1>0. /\ poll.at = "next" /\ poll.src = "calendar" /\ x.id \in Events /\ x.at \in Stamps
      /\ UNCHANGED <<saved, calendar, cursor, base>>
  <2>1. Turn(x) /\ poll.src = "calendar"
    BY DEF _apply_event
  <2> QED BY <2>1, TurnOf DEF _apply_event, google, history
<1>1. PICK k \in Keys : k = <<x.id, x.at>>
  BY <1>0, KeyOfEvent
<1>2. CASE NoNewItem
  <2>1. SamePoll
    BY <1>0, ApplySound DEF SamePoll
  <2> QED BY <1>0, <1>2, <2>1, EventsAsIs
<1>3. CASE ~NoNewItem
  <2>1. ShouldInsert(x) /\ Insert(k)
    <3>1. items' # items
      BY <1>3 DEF NoNewItem
    <3> QED BY <1>1, <3>1 DEF _apply_event
  <2>2. poll.mode # "baseline" /\ saved[x.id] # x.at
    <3>1. x.at # 0 /\ saved[x.id] \in Nat
      BY <1>0, EventNumbers
    <3>2. poll.mode # "baseline" /\ (saved[x.id] = 0 \/ saved[x.id] # x.at)
      BY <2>1 DEF ShouldInsert
    <3> QED BY <3>1, <3>2
  <2>3. base["calendar"] # NoCursor
    BY <1>0, <2>2 DEF EventInv, FirstSynced, Sound, Phase, EventPoll
  <2>4. x.at > base["calendar"]
    <3>1. ~(x.at <= base["calendar"])
      BY <1>0, <2>2 DEF EventInv, ListedFresh, InSync
    <3> QED BY <1>0, <3>1, EventNumbers
  <2>5. ItemsAfterBase'
    <3>1. \A i \in Keys : i # k => items'[i] = items[i]
      BY <2>1, InsertOf DEF Sound
    <3>2. ASSUME NEW e \in Events, NEW a \in Stamps, items'[<<e, a>>].st # "none" PROVE a > base["calendar"]
      <4>1. CASE <<e, a>> = k
        BY <1>1, <2>4, <4>1
      <4>2. CASE <<e, a>> # k
        BY <3>1, <3>2, <4>2, KeyOfEvent DEF EventInv, ItemsAfterBase
      <4> QED BY <4>1, <4>2
    <3> QED BY <1>0, <2>3, <3>2 DEF ItemsAfterBase
  <2>6. SamePoll
    BY <1>0, ApplySound DEF SamePoll
  <2>7. InSync' => InSync
    BY <1>0 DEF InSync
  <2>8. SavedOrListed'
    BY <1>0, <2>6, <2>7 DEF EventInv, SavedOrListed, SamePoll
  <2>9. ListedAsRead' /\ ListedFresh'
    BY <1>0, <2>6, <2>7 DEF EventInv, ListedAsRead, ListedFresh, SamePoll
  <2>10. FirstSynced' /\ KnownSaved'
    BY <1>0 DEF EventInv, FirstSynced, KnownSaved
  <2> QED BY <2>5, <2>8, <2>9, <2>10 DEF EventInv
<1> QED BY <1>2, <1>3

LEMMA SaveKeepsEvents == ASSUME Sound, EventInv, save_calendar_event PROVE EventInv'
<1> USE DEF EventInv
<1>0. /\ poll.at \in {"save", "close"} /\ poll.src = "calendar" /\ UNCHANGED <<calendar, items, cursor, base>>
  BY SaveOf DEF google, history
<1>1. PICK x \in poll.todo : /\ x.id \in Events /\ x.at \in Stamps /\ x.at <= poll.read
                             /\ saved' = [saved EXCEPT ![x.id] = x.at] /\ Done(x)
  BY SaveOf
<1>2. /\ poll'.todo = poll.todo \ {x} /\ poll'.at = "next" /\ poll'.src = poll.src /\ poll'.mode = poll.mode
      /\ poll'.read = poll.read
  BY <1>1, DoneOf DEF Sound, TypeOK
<1>3. InSync /\ InSync'
  BY <1>0, <1>2 DEF InSync
<1>4. \A e \in Events : saved'[e] = IF e = x.id THEN x.at ELSE saved[e]
  BY <1>1 DEF Sound, TypeOK
<1>5. x.at = calendar.event[x.id].at \/ calendar.event[x.id].at > poll.read
  BY <1>3 DEF ListedAsRead
<1>6. FirstSynced' /\ ItemsAfterBase'
  BY <1>0 DEF FirstSynced, ItemsAfterBase
<1>7. KnownSaved'
  <2>1. ASSUME base["calendar"] # NoCursor, calendar.event[x.id].at <= base["calendar"] PROVE x.at = calendar.event[x.id].at
    <3>1. poll.mode # "baseline"
      BY <1>0, <2>1 DEF FirstSynced, Sound, Phase, EventPoll
    <3>2. base["calendar"] <= poll.read
      BY <1>3, <3>1 DEF ListedFresh
    <3> QED BY <1>1, <1>5, <2>1, <3>2, EventNumbers
  <2> QED BY <1>0, <1>4, <2>1 DEF KnownSaved
<1>8. SavedOrListed'
  <2>1. ASSUME poll.mode = "baseline", NEW e \in Events, 0 < calendar.event[e].at, calendar.event[e].at <= poll.read
        PROVE  saved'[e] = calendar.event[e].at \/ \E y \in poll.todo \ {x} : y.id = e
    <3>1. CASE e = x.id
      BY <1>1, <1>4, <1>5, <2>1, <3>1, EventNumbers
    <3>2. CASE e # x.id
      BY <1>3, <1>4, <2>1, <3>2 DEF SavedOrListed
    <3> QED BY <3>1, <3>2
  <2> QED BY <1>0, <1>2, <2>1 DEF SavedOrListed
<1>9. ListedAsRead'
  BY <1>0, <1>2, <1>3 DEF ListedAsRead
<1>10. ListedFresh'
  <2>1. ASSUME poll.mode # "baseline", NEW y \in poll.todo, y.at <= base["calendar"] PROVE saved'[y.id] = y.at
    <3>1. y.id \in Events /\ (y.id = x.id => y = x)
      BY <1>0, <1>1 DEF Sound, Phase, EventPoll
    <3> QED BY <1>3, <1>4, <2>1, <3>1 DEF ListedFresh
  <2> QED BY <1>0, <1>2, <1>3, <2>1 DEF ListedFresh
<1> QED BY <1>6, <1>7, <1>8, <1>9, <1>10

LEMMA WriteKeepsEvents == ASSUME Sound, EventInv, write_cursor PROVE EventInv'
<1> USE DEF EventInv
<1>0. /\ poll.at = "next" /\ poll.todo = {} /\ poll'.src = "gmail" /\ UNCHANGED <<calendar, items, saved>>
      /\ cursor'.calendar = IF poll.src = "gmail" THEN cursor.calendar ELSE poll.read
      /\ base'["calendar"] = IF poll.src # "gmail" /\ poll.mode = "baseline" THEN poll.read ELSE base["calendar"]
  BY WriteOf DEF Hold, Idle, google
<1>1. CASE poll.src = "gmail" \/ poll.mode # "baseline"
  <2>1. base'["calendar"] = base["calendar"]
    BY <1>0, <1>1
  <2>2. FirstSynced'
    <3>1. CASE poll.src = "gmail"
      BY <1>0, <2>1, <3>1 DEF FirstSynced
    <3>2. CASE poll.src # "gmail"
      <4>1. cursor.calendar # NoCursor
        BY <1>1, <3>2 DEF Sound, Phase, EventPoll
      <4>2. cursor'.calendar # NoCursor
        BY <1>0, <3>2, EventNumbers DEF NoCursor
      <4> QED BY <1>0, <2>1, <4>1, <4>2 DEF FirstSynced
    <3> QED BY <3>1, <3>2
  <2>3. KnownSaved' /\ ItemsAfterBase'
    BY <1>0, <2>1 DEF KnownSaved, ItemsAfterBase
  <2> QED BY <1>0, <2>2, <2>3 DEF InSync, SavedOrListed, ListedAsRead, ListedFresh
<1>2. CASE poll.src # "gmail" /\ poll.mode = "baseline"
  <2>0. poll.src = "calendar" /\ cursor.calendar = NoCursor /\ poll.read <= calendar.n
    <3>1. poll.src = "calendar"
      BY <1>2, NumbersOf DEF Sound, Sources
    <3> QED BY <1>2, <3>1, EventNumbers DEF Sound, Phase, EventPoll
  <2>1. base'["calendar"] = poll.read /\ cursor'.calendar = poll.read /\ base["calendar"] = NoCursor
    BY <1>0, <1>2, <2>0 DEF FirstSynced
  <2>2. FirstSynced'
    BY <1>0, <2>0, <2>1 DEF FirstSynced
  <2>3. KnownSaved'
    BY <1>0, <1>2, <2>0, <2>1 DEF KnownSaved, SavedOrListed, InSync
  <2>4. ItemsAfterBase'
    BY <1>0, <2>1 DEF ItemsAfterBase
  <2> QED BY <1>0, <2>2, <2>3, <2>4 DEF InSync, SavedOrListed, ListedAsRead, ListedFresh
<1> QED BY <1>1, <1>2

LEMMA EventsAtFirst == Init => EventInv
<1> SUFFICES ASSUME Init PROVE EventInv
  OBVIOUS
<1>1. cursor.calendar = NoCursor /\ base["calendar"] = NoCursor /\ poll.src = "gmail"
  BY DEF Init, Sources, Idle
<1>2. FirstSynced
  <2>1. calendar.n \in 0..MaxChanges
    BY DEF Init, Calendars
  <2> QED BY <1>1, <2>1, Numerals DEF FirstSynced, NoCursor
<1>3. ItemsAfterBase
  BY KeyOfEvent DEF Init, ItemsAfterBase
<1> QED BY <1>1, <1>2, <1>3 DEF EventInv, KnownSaved, SavedOrListed, ListedAsRead, ListedFresh, InSync

LEMMA EventsStay == Sound /\ EventInv /\ [Next]_vars => EventInv'
<1> SUFFICES ASSUME Sound, EventInv, [Next]_vars PROVE EventInv'
  OBVIOUS
<1>n. ASSUME \A k \in Keys : items'[k].st = items[k].st \/ items'[k].st = "none" PROVE NoNewItem
  BY <1>n, KeyOfEvent DEF NoNewItem
<1>0. CASE UNCHANGED vars
  <2>1. UNCHANGED <<items, saved, calendar, cursor, base, poll>>
    BY <1>0 DEF vars, google, store, history
  <2> QED BY <2>1, EventsAsIs DEF NoNewItem, SamePoll, EventInv, FirstSynced, KnownSaved, SavedOrListed, ListedAsRead,
                                 ListedFresh, ItemsAfterBase, InSync
<1>1. CASE Outside
  <2>1. ASSUME NEW e \in Events, NEW off \in BOOLEAN, Change(e, off) PROVE EventInv'
    BY <2>1, ChangeKeepsEvents
  <2>2. CASE ~\E e \in Events, off \in BOOLEAN : Change(e, off)
    <3>1. UNCHANGED <<poll, cursor, base, saved>>
      BY <1>1 DEF Outside, Arrive, Leave, HistoryExpires, MailAges, Change, TokensExpire, Reconnect, OpenLoop, EndLoop,
                  CloseItem, store, history
    <3>2. calendar'.event = calendar.event /\ calendar'.n = calendar.n
      <4>1. calendar \in Calendars
        BY DEF Sound, TypeOK
      <4>2. calendar' = calendar \/ calendar' = [calendar EXCEPT !.served = calendar.n]
        BY <1>1, <2>2 DEF Outside, Arrive, Leave, HistoryExpires, MailAges, TokensExpire, Reconnect, OpenLoop, EndLoop,
                          CloseItem, google
      <4> QED BY <4>1, <4>2 DEF Calendars
    <3>3. NoNewItem
      <4>1. items' = items \/ \E k \in Keys : CloseItem(k)
        BY <1>1 DEF Outside, Arrive, Leave, HistoryExpires, MailAges, Change, TokensExpire, Reconnect, OpenLoop, EndLoop, store
      <4>2. ASSUME NEW k \in Keys, CloseItem(k) PROVE NoNewItem
        BY <4>2, KeyOfEvent DEF CloseItem, NoNewItem, Sound, TypeOK
      <4> QED BY <4>1, <4>2 DEF NoNewItem
    <3>4. CASE poll.at = "read"
      BY <3>1, <3>2, <3>3, <3>4, EventsAsIs
    <3> QED BY <3>1, <3>2, <3>3, <3>4, EventsAsIs DEF SamePoll
  <2> QED BY <2>1, <2>2
<1>2. CASE run_gmail \/ run_calendar
  <2>1. UNCHANGED <<items, saved, calendar, cursor, base>>
    BY <1>2 DEF run_gmail, run_calendar, google, store, history
  <2>2. poll'.at = "read"
    BY <1>2 DEF run_gmail, run_calendar, Start, Idle
  <2> QED BY <2>1, <2>2, EventsAsIs DEF NoNewItem
<1>3. CASE grant_lost \/ CutShort
  <2>1. UNCHANGED <<items, saved, calendar, cursor, base>> /\ poll'.src = "gmail"
    BY <1>3 DEF grant_lost, CutShort, Fault, Hold, Idle, google, store, history
  <2> QED BY <2>1, EventsAsIs DEF NoNewItem
<1>4. CASE gmail_profile \/ gmail_history \/ gmail_recovery_list
  <2>1. UNCHANGED <<items, saved, calendar, cursor, base>> /\ poll \in Polls
    BY <1>4 DEF gmail_profile, gmail_history, gmail_recovery_list, google, store, history, Sound, TypeOK
  <2>2. poll.src = "gmail"
    <3>1. CASE gmail_recovery_list
      BY <3>1, NumbersOf DEF gmail_recovery_list, Sound, Phase, EventPoll
    <3> QED BY <1>4, <3>1 DEF gmail_profile, gmail_history
  <2>3. poll'.src = poll.src
    BY <1>4, <2>1 DEF gmail_profile, gmail_history, gmail_recovery_list, Polls
  <2> QED BY <2>1, <2>2, <2>3, EventsAsIs DEF NoNewItem
<1>5. CASE calendar_events
  BY <1>5, SyncKeepsEvents
<1>6. ASSUME NEW x \in poll.todo,
             skip_known(x) \/ skip_old(x) \/ skip_not_inbox(x) \/ note_watcher_reject(x)
             \/ read_uncounted(x) \/ insert_mail(x)
      PROVE  EventInv'
  <2>1. /\ UNCHANGED <<saved, calendar, cursor>> /\ base' = base /\ poll.src = "gmail" /\ Turn(x)
        /\ Done(x) \/ Hold \/ poll' = [poll EXCEPT !.at = "evaluate", !.key = <<x.id, 0>>]
        /\ items' = items \/ Insert(<<x.id, 0>>)
    BY <1>6 DEF skip_known, skip_old, skip_not_inbox, note_watcher_reject, read_uncounted, insert_mail, Wanted, google, store, history
  <2>2. x.id \in Messages /\ poll \in Polls
    BY <2>1, TurnOf
  <2>3. poll'.src = "gmail"
    <3>1. Done(x) => poll'.src = "gmail"
      BY <2>1, <2>2, DoneOf
    <3>2. Hold => poll'.src = "gmail"
      BY DEF Hold, Idle
    <3>3. poll' = [poll EXCEPT !.at = "evaluate", !.key = <<x.id, 0>>] => poll'.src = "gmail"
      BY <2>1, <2>2 DEF Polls
    <3> QED BY <2>1, <3>1, <3>2, <3>3
  <2>4. NoNewItem
    <3>1. CASE Insert(<<x.id, 0>>)
      <4>1. PICK k \in Keys : k = <<x.id, 0>>
        BY <2>2, KeyOfMail
      <4>2. \A e \in Events, a \in Stamps : <<e, a>> # k
        BY <2>2, <4>1, Disjoint
      <4> QED BY <3>1, <4>1, <4>2, KeyOfEvent, InsertOf DEF NoNewItem, Sound
    <3> QED BY <2>1, <3>1 DEF NoNewItem
  <2> QED BY <2>1, <2>3, <2>4, EventsAsIs
<1>7. ASSUME NEW x \in poll.todo, _apply_event(x) PROVE EventInv'
  BY <1>7, ApplyKeepsEvents
<1>8. CASE _matching
  <2>1. UNCHANGED <<items, saved, calendar, cursor, base>> /\ SamePoll /\ poll.at # "read"
    BY <1>8, MatchingOf DEF google, store, history, SamePoll
  <2> QED BY <2>1, EventsAsIs DEF NoNewItem
<1>9. CASE _finish_item
  <2>0. UNCHANGED <<items, saved, calendar, cursor, base>> /\ poll.at = "bind" /\ poll \in Polls
    BY <1>9 DEF _finish_item, google, store, history, Sound, TypeOK
  <2>1. CASE poll.src = "gmail"
    <3>1. PICK x \in poll.todo : Done(x)
      BY <1>9, <2>1 DEF _finish_item
    <3>2. poll'.src = "gmail"
      BY <2>0, <2>1, <3>1, DoneOf
    <3> QED BY <2>0, <3>2, EventsAsIs DEF NoNewItem
  <2>2. CASE poll.src # "gmail"
    <3>1. poll' = [poll EXCEPT !.at = "close"]
      BY <1>9, <2>2 DEF _finish_item
    <3>2. SamePoll
      BY <2>0, <3>1 DEF SamePoll, Polls
    <3> QED BY <2>0, <3>2, EventsAsIs DEF NoNewItem
  <2> QED BY <2>1, <2>2
<1>10. CASE save_calendar_event
  BY <1>10, SaveKeepsEvents
<1>11. CASE next_page
  <2>1. UNCHANGED <<items, saved, calendar, cursor, base>> /\ poll \in Polls
        /\ poll' = [poll EXCEPT !.at = "read", !.more = FALSE]
    BY <1>11 DEF next_page, google, store, history, Sound, TypeOK
  <2>2. poll'.at = "read"
    BY <2>1 DEF Polls
  <2> QED BY <2>1, <2>2, EventsAsIs DEF NoNewItem
<1>12. CASE write_cursor
  BY <1>12, WriteKeepsEvents
<1>13. ASSUME NEW l \in Loops, bind_open_loop_match(l) PROVE EventInv'
  <2>1. UNCHANGED <<saved, calendar, cursor, base>> /\ poll.at = "bind" /\ poll.key \in Keys
    BY <1>13, BindOf DEF google, history
  <2>2. items' = items \/ Marked(poll.key, l)
    BY <1>13, BindOf
  <2>3. NoNewItem
    BY <2>1, <2>2, MarkedOf, KeyOfEvent DEF NoNewItem, Sound
  <2>4. Hold \/ SamePoll
    BY <1>13, BindOf DEF SamePoll
  <2>5. Hold => poll'.src = "gmail"
    BY DEF Hold, Idle
  <2> QED BY <2>1, <2>3, <2>4, <2>5, EventsAsIs
<1>14. ASSUME NEW l \in Loops, close_loop_from_match(l) PROVE EventInv'
  <2>1. UNCHANGED <<items, saved, calendar, cursor, base>> /\ poll.at = "close"
    BY <1>14, CloseOf DEF google, history
  <2>2. SamePoll
    <3>1. poll' = [poll EXCEPT !.bound = poll.bound \ {l}] /\ poll \in Polls
      BY <1>14 DEF close_loop_from_match, Sound, TypeOK
    <3> QED BY <3>1 DEF SamePoll, Polls
  <2> QED BY <2>1, <2>2, EventsAsIs DEF NoNewItem
<1> QED BY <1>0, <1>1, <1>2, <1>3, <1>4, <1>5, <1>6, <1>7, <1>8, <1>9, <1>10, <1>11, <1>12, <1>13, <1>14 DEF Next, Step

-----------------------------------------------------------------------------
(* Watches: what ends one, and what none may wait for any longer.          *)
Waiting(l) == loops[l].st = "open" /\ poll.key[1] \in Watched[l] /\ loops[l].since < poll.key[2]

\* The watches in hand are those of the event in hand, and its item is matched
\* with those that are bound.
WatchesInHand ==
    /\ poll.at \notin {"bind", "close"} => poll.due = {} /\ poll.bound = {}
    /\ poll.src = "calendar" =>
        /\ \A l \in poll.due \cup poll.bound :
              loops[l].st # "new" /\ poll.key[1] \in Watched[l] /\ loops[l].since < poll.key[2]
        /\ \A l \in poll.bound : items[poll.key].matched

\* A cancellation that is looked at.
Cancels == /\ poll.src = "calendar" /\ poll.off
           /\ poll.mode = "incremental" \/ (poll.mode = "recovery" /\ saved[poll.key[1]] # 0)

\* Every watch that waits for it is in hand; none does when it is about to be saved.
CancelSeen ==
    Cancels =>
        /\ poll.at = "bind" => \A l \in Loops : Waiting(l) => l \in poll.due \cup poll.bound
        /\ poll.at = "close" => \A l \in Loops : Waiting(l) => l \in poll.bound
        /\ poll.at = "save" /\ saved[poll.key[1]] # poll.key[2] => \A l \in Loops : ~Waiting(l)

WatchInv == WatchesInHand /\ CancelSeen

\* The key of an event in hand.
LEMMA EventInHand ==
    ASSUME Sound, poll.src = "calendar", poll.at \in {"evaluate", "bind", "close", "save"}
    PROVE  \E e \in Events, a \in Stamps : poll.key = <<e, a>> /\ a <= calendar.n /\ e \notin Messages
<1>1. PICK x \in poll.todo : poll.key = <<x.id, x.at>> /\ x.id \in Events /\ x.at \in Stamps /\ x.at <= poll.read
  BY DEF Sound, Phase, EventPoll
<1>2. x.at <= calendar.n
  <2>1. x.at \in Nat /\ poll.read \in Nat /\ calendar.n \in Nat /\ poll.read <= calendar.n
    BY <1>1, EventNumbers
  <2> QED BY <1>1, <2>1
<1> QED BY <1>1, <1>2, Disjoint

LEMMA WaitingStays ==
    ASSUME Sound, World, poll.src = "calendar", poll.at \in {"evaluate", "bind", "close", "save"}, poll'.key = poll.key,
           NEW l \in Loops, Waiting(l)'
    PROVE  Waiting(l)
<1>1. loops'[l].st = "open" /\ poll.key[1] \in Watched[l] /\ loops'[l].since < poll.key[2]
  BY DEF Waiting
<1>2. PICK e \in Events, a \in Stamps : poll.key = <<e, a>> /\ a <= calendar.n /\ e \notin Messages
  BY EventInHand
<1>3. CASE loops[l].st = "new"
  <2>1. ~IsMail(l)
    BY <1>1, <1>2 DEF IsMail
  <2>2. loops'[l].since = calendar.n
    BY <1>1, <1>3, <2>1 DEF World, LoopsGo
  <2>3. a \in Nat /\ calendar.n \in Nat
    BY EventNumbers
  <2> QED BY <1>1, <1>2, <2>2, <2>3
<1>4. CASE loops[l].st # "new"
  BY <1>1, <1>4 DEF World, LoopsGo, Waiting
<1> QED BY <1>3, <1>4

\* What is in hand stays so.
LEMMA HandStays ==
    ASSUME Sound, World, WatchesInHand, poll.src = "calendar", poll.at \in {"evaluate", "bind", "close", "save"},
           NEW l \in poll.due \cup poll.bound
    PROVE  /\ loops'[l].st # "new" /\ poll.key[1] \in Watched[l] /\ loops'[l].since < poll.key[2]
           /\ l \in poll.bound => items'[poll.key].matched
<1>1. l \in Loops
  BY NumbersOf DEF Sound
<1>2. poll.key \in Keys
  BY EventInHand, KeyOfEvent
<1>3. loops[l].st # "new" /\ poll.key[1] \in Watched[l] /\ loops[l].since < poll.key[2]
  BY DEF WatchesInHand
<1>4. l \in poll.bound => items[poll.key].matched
  BY DEF WatchesInHand
<1> QED BY <1>1, <1>2, <1>3, <1>4 DEF World, LoopsGo, ItemsGo

LEMMA NothingInHand ==
    ASSUME poll'.at \notin {"bind", "close", "save"}, poll'.due = {}, poll'.bound = {} PROVE WatchInv'
  BY DEF WatchInv, WatchesInHand, CancelSeen

LEMMA MailInHand ==
    ASSUME poll'.src = "gmail", poll'.at \notin {"bind", "close"} => poll'.due = {} /\ poll'.bound = {} PROVE WatchInv'
  BY DEF WatchInv, WatchesInHand, CancelSeen, Cancels

LEMMA WatchesAsIs ==
    ASSUME Sound, World, WatchInv, UNCHANGED <<poll, saved>> PROVE WatchInv'
<1> USE DEF WatchInv
<1>1. CASE poll.src = "calendar" /\ poll.at \in {"evaluate", "bind", "close", "save"}
  <2>1. WatchesInHand'
    BY <1>1, HandStays DEF WatchesInHand
  <2>2. \A l \in Loops : Waiting(l)' => Waiting(l)
    BY <1>1, WaitingStays
  <2>3. CancelSeen'
    BY <2>2 DEF CancelSeen, Cancels
  <2> QED BY <2>1, <2>3
<1>2. CASE poll.src # "calendar"
  <2>1. poll.src = "gmail"
    BY <1>2, NumbersOf DEF Sound, Sources
  <2> QED BY <2>1, MailInHand DEF WatchesInHand
<1>3. CASE poll.at \notin {"evaluate", "bind", "close", "save"}
  BY <1>3, NothingInHand DEF WatchesInHand
<1> QED BY <1>1, <1>2, <1>3

LEMMA ApplyKeepsWatches ==
    ASSUME Sound, Sound', World, WatchInv, NEW x \in poll.todo, _apply_event(x) PROVE WatchInv'
<1> USE DEF WatchInv
<1>0. /\ poll.at = "next" /\ poll.src = "calendar" /\ x.id \in Events /\ x.at \in Stamps
      /\ UNCHANGED <<saved, loops>> /\ poll.due = {} /\ poll.bound = {}
  <2>1. Turn(x) /\ poll.src = "calendar"
    BY DEF _apply_event
  <2> QED BY <2>1, TurnOf DEF _apply_event, WatchesInHand
<1>1. /\ poll'.src = "calendar" /\ poll'.mode = poll.mode /\ poll'.key = <<x.id, x.at>> /\ poll'.off = x.off
      /\ poll'.at = IF poll.mode # "baseline" /\ items'[<<x.id, x.at>>].st # "none" THEN "evaluate" ELSE "save"
      /\ poll'.due = {} /\ poll'.bound = {}
  BY <1>0, ApplySound
<1>2. WatchesInHand'
  BY <1>1 DEF WatchesInHand
<1>3. ASSUME x.off, poll.mode = "incremental" \/ (poll.mode = "recovery" /\ saved[x.id] # 0), poll'.at = "save",
             saved[x.id] # x.at, NEW l \in Loops, loops[l].st = "open", x.id \in Watched[l], loops[l].since < x.at
      PROVE  FALSE
  <2>1. Matches(l, <<x.id, x.at>>, x.off)
    <3>1. loops[l].since \in Nat /\ x.at \in Nat
      BY <1>0, EventNumbers DEF Sound, TypeOK
    <3>2. x.id \notin Messages /\ x.at > loops[l].since
      BY <1>0, <1>3, <3>1, Disjoint
    <3> QED BY <1>3, <3>2 DEF Matches
  <2>2. ShouldInsert(x)
    BY <1>3, <2>1 DEF ShouldInsert
  <2>3. Insert(<<x.id, x.at>>)
    BY <2>2 DEF _apply_event
  <2>4. PICK k \in Keys : k = <<x.id, x.at>>
    BY <1>0, KeyOfEvent
  <2>5. items'[k].st # "none"
    BY <2>3, <2>4, InsertOf DEF Sound
  <2> QED BY <1>1, <1>3, <2>4, <2>5
<1>4. CancelSeen'
  BY <1>0, <1>1, <1>3 DEF CancelSeen, Cancels, Waiting
<1> QED BY <1>2, <1>4

LEMMA MatchingKeepsWatches == ASSUME Sound, Sound', World, WatchInv, _matching PROVE WatchInv'
<1> USE DEF WatchInv
<1>0. /\ poll.at = "evaluate" /\ UNCHANGED <<saved, loops, items>> /\ poll'.src = poll.src /\ poll'.key = poll.key
      /\ poll'.at = "bind" /\ poll'.due = {l \in Loops : Matches(l, poll.key, poll.off)} /\ poll'.bound = {}
      /\ poll'.off = poll.off
  BY MatchingOf DEF store, WatchesInHand
<1>1. CASE poll.src # "calendar"
  <2>1. poll'.src = "gmail"
    BY <1>0, <1>1, NumbersOf DEF Sound, Sources
  <2> QED BY <1>0, <2>1, MailInHand
<1>2. CASE poll.src = "calendar"
  <2>1. PICK e \in Events, a \in Stamps : poll.key = <<e, a>> /\ e \notin Messages
    BY <1>0, <1>2, EventInHand
  <2>2. a \in Nat /\ \A l \in Loops : loops[l].since \in Nat
    BY EventNumbers DEF Sound, TypeOK
  <2>3. \A l \in Loops : Matches(l, poll.key, poll.off) <=> Waiting(l) /\ poll.off
    <3>1. ASSUME NEW l \in Loops PROVE Matches(l, poll.key, poll.off) <=> Waiting(l) /\ poll.off
      <4>1. Matches(l, poll.key, poll.off) <=> loops[l].st = "open" /\ e \in Watched[l] /\ poll.off /\ a > loops[l].since
        BY <2>1 DEF Matches
      <4>2. Waiting(l) <=> loops[l].st = "open" /\ e \in Watched[l] /\ loops[l].since < a
        BY <2>1 DEF Waiting
      <4>3. a > loops[l].since <=> loops[l].since < a
        BY <2>2
      <4> QED BY <4>1, <4>2, <4>3
    <3> QED BY <3>1
  <2>4. WatchesInHand'
    BY <1>0, <2>3 DEF WatchesInHand, Waiting
  <2>5. CancelSeen'
    BY <1>0, <2>3 DEF CancelSeen, Cancels, Waiting
  <2> QED BY <2>4, <2>5
<1> QED BY <1>1, <1>2

LEMMA BindKeepsWatches ==
    ASSUME Sound, Sound', World, WatchInv, NEW l \in Loops, bind_open_loop_match(l) PROVE WatchInv'
<1> USE DEF WatchInv
<1>0. poll.at = "bind" /\ l \in poll.due /\ poll.key \in Keys /\ saved' = saved
  BY BindOf
<1>1. CASE Hold
  BY <1>1, NothingInHand DEF Hold, Idle
<1>2. CASE ~Hold
  <2>1. /\ poll'.src = poll.src /\ poll'.mode = poll.mode /\ poll'.key = poll.key /\ poll'.off = poll.off
        /\ poll'.at = "bind" /\ poll'.due = poll.due \ {l}
    BY <1>2, BindOf
  <2>2. \/ loops[l].st # "open" /\ poll'.bound = poll.bound /\ UNCHANGED <<items, loops>>
        \/ poll'.bound = poll.bound \cup {l} /\ Marked(poll.key, l)
    BY <1>2, BindOf
  <2>3. CASE poll.src # "calendar"
    <3>1. poll'.src = "gmail"
      BY <2>1, <2>3, NumbersOf DEF Sound, Sources
    <3> QED BY <2>1, <3>1, MailInHand
  <2>4. CASE poll.src = "calendar"
    <3>1. poll'.due \cup poll'.bound \subseteq poll.due \cup poll.bound
      BY <1>0, <2>1, <2>2
    <3>2. \A j \in poll'.bound : items'[poll.key].matched
      <4>1. Marked(poll.key, l) => items'[poll.key].matched
        BY <1>0, MarkedOf DEF Sound
      <4> QED BY <2>2, <2>4, <4>1 DEF WatchesInHand
    <3>3. WatchesInHand'
      BY <1>0, <2>1, <2>4, <3>1, <3>2, HandStays DEF WatchesInHand
    <3>4. ASSUME Cancels, NEW j \in Loops, Waiting(j)' PROVE j \in poll'.due \cup poll'.bound
      <4>1. Waiting(j)
        BY <1>0, <2>1, <2>4, <3>4, WaitingStays
      <4>2. j \in poll.due \cup poll.bound
        BY <1>0, <3>4, <4>1 DEF CancelSeen
      <4>3. CASE j = l
        BY <2>1, <2>2, <4>1, <4>3 DEF Waiting
      <4>4. CASE j # l
        BY <2>1, <2>2, <4>2, <4>4
      <4> QED BY <4>3, <4>4
    <3>5. CancelSeen'
      BY <1>0, <2>1, <3>4 DEF CancelSeen, Cancels
    <3> QED BY <3>3, <3>5
  <2> QED BY <2>3, <2>4
<1> QED BY <1>1, <1>2

LEMMA FinishKeepsWatches == ASSUME Sound, Sound', World, WatchInv, _finish_item PROVE WatchInv'
<1> USE DEF WatchInv
<1>0. poll.at = "bind" /\ poll.due = {} /\ poll \in Polls /\ UNCHANGED <<items, loops, saved>>
  BY DEF _finish_item, store, Sound, TypeOK
<1>1. CASE poll.src = "gmail"
  <2>1. PICK x \in poll.todo : Done(x)
    BY <1>1 DEF _finish_item
  <2> QED BY <1>0, <2>1, DoneOf, NothingInHand
<1>2. CASE poll.src # "gmail"
  <2>1. poll' = [poll EXCEPT !.at = "close"]
    BY <1>2 DEF _finish_item
  <2>2. /\ poll'.src = poll.src /\ poll'.mode = poll.mode /\ poll'.key = poll.key /\ poll'.off = poll.off
        /\ poll'.at = "close" /\ poll'.due = poll.due /\ poll'.bound = poll.bound
    BY <1>0, <2>1 DEF Polls
  <2>3. WatchesInHand'
    BY <1>0, <2>2 DEF WatchesInHand
  <2>4. CancelSeen'
    BY <1>0, <2>2 DEF CancelSeen, Cancels, Waiting
  <2> QED BY <2>3, <2>4
<1> QED BY <1>1, <1>2

LEMMA CloseKeepsWatches ==
    ASSUME Sound, Sound', World, WatchInv, NEW l \in Loops, close_loop_from_match(l) PROVE WatchInv'
<1> USE DEF WatchInv
<1>0. poll.at = "close" /\ l \in poll.bound /\ poll \in Polls /\ UNCHANGED <<items, saved>>
      /\ poll' = [poll EXCEPT !.bound = poll.bound \ {l}] /\ loops' = [loops EXCEPT ![l].st = "over"]
  BY CloseOf DEF close_loop_from_match, Sound, TypeOK
<1>1. /\ poll'.src = poll.src /\ poll'.mode = poll.mode /\ poll'.key = poll.key /\ poll'.off = poll.off
      /\ poll'.at = "close" /\ poll'.due = poll.due /\ poll'.bound = poll.bound \ {l}
  BY <1>0 DEF Polls
<1>2. poll.src = "calendar"
  BY <1>0, NumbersOf DEF Sound, Phase, MailPoll, Sources
<1>3. WatchesInHand'
  BY <1>0, <1>1, <1>2, HandStays DEF WatchesInHand
<1>4. ASSUME Cancels, NEW j \in Loops, Waiting(j)' PROVE j \in poll.bound \ {l}
  <2>1. Waiting(j)
    BY <1>0, <1>1, <1>2, <1>4, WaitingStays
  <2>2. j # l
    BY <1>0, <1>4 DEF Waiting, Sound, TypeOK
  <2> QED BY <1>0, <1>4, <2>1, <2>2 DEF CancelSeen
<1>5. CancelSeen'
  BY <1>0, <1>1, <1>4 DEF CancelSeen, Cancels
<1> QED BY <1>3, <1>5

LEMMA WatchesAtFirst == Init => WatchInv
  BY DEF Init, Idle, WatchInv, WatchesInHand, CancelSeen, Cancels

LEMMA WatchesStay == Sound /\ WatchInv /\ [Next]_vars => WatchInv'
<1> SUFFICES ASSUME Sound, WatchInv, [Next]_vars PROVE WatchInv'
  OBVIOUS
<1>s. Sound' /\ poll \in Polls
  BY SoundStays DEF Sound, TypeOK
<1>1. CASE Outside
  <2>1. UNCHANGED <<poll, saved>>
    BY <1>1 DEF Outside, Arrive, Leave, HistoryExpires, MailAges, Change, TokensExpire, Reconnect, OpenLoop, EndLoop,
                CloseItem, store
  <2> QED BY <1>1, <2>1, OutsideWorld, WatchesAsIs
<1>2. CASE ~Outside
  <2>w. World
    BY <1>2, StepWorld
  <2>0. CASE UNCHANGED vars
    BY <2>w, <2>0, WatchesAsIs DEF vars, store
  <2>1. CASE run_gmail \/ run_calendar
    <3>1. poll'.at = "read" /\ poll'.due = {} /\ poll'.bound = {}
      BY <2>1 DEF run_gmail, run_calendar, Start, Idle
    <3> QED BY <3>1, NothingInHand
  <2>2. ASSUME Hold PROVE WatchInv'
    BY <2>2, NothingInHand DEF Hold, Idle
  <2>3. CASE gmail_profile \/ gmail_history \/ gmail_recovery_list \/ calendar_events \/ next_page
    <3>1. poll.due = {} /\ poll.bound = {}
      BY <2>3 DEF gmail_profile, gmail_history, gmail_recovery_list, calendar_events, next_page, WatchInv, WatchesInHand
    <3>2. poll'.at \in {"read", "list", "next"} /\ poll'.due = poll.due /\ poll'.bound = poll.bound
      BY <1>s, <2>3 DEF gmail_profile, gmail_history, gmail_recovery_list, calendar_events, next_page, Polls
    <3> QED BY <3>1, <3>2, NothingInHand
  <2>4. ASSUME NEW x, Done(x) PROVE WatchInv'
    BY <1>s, <2>4, DoneOf, NothingInHand
  <2>5. ASSUME NEW x \in poll.todo, insert_mail(x) PROVE WatchInv'
    <3>1. poll.at = "next" /\ poll' = [poll EXCEPT !.at = "evaluate", !.key = <<x.id, 0>>]
      BY <2>5 DEF insert_mail, Wanted, Turn
    <3>2. poll'.at = "evaluate" /\ poll'.due = poll.due /\ poll'.bound = poll.bound
      BY <1>s, <3>1 DEF Polls
    <3> QED BY <3>1, <3>2, NothingInHand DEF WatchInv, WatchesInHand
  <2>6. ASSUME NEW x \in poll.todo, \/ skip_known(x) \/ skip_old(x) \/ skip_not_inbox(x)
                                     \/ note_watcher_reject(x) \/ read_uncounted(x)
        PROVE  WatchInv'
    BY <2>2, <2>4, <2>6 DEF skip_known, skip_old, skip_not_inbox, note_watcher_reject, read_uncounted
  <2>7. ASSUME NEW x \in poll.todo, _apply_event(x) PROVE WatchInv'
    BY <1>s, <2>w, <2>7, ApplyKeepsWatches
  <2>8. CASE _matching
    BY <1>s, <2>w, <2>8, MatchingKeepsWatches
  <2>9. CASE _finish_item
    BY <1>s, <2>w, <2>9, FinishKeepsWatches
  <2>10. CASE save_calendar_event
    BY <2>4, <2>10, SaveOf
  <2>11. CASE write_cursor \/ grant_lost \/ CutShort
    BY <2>2, <2>11 DEF write_cursor, grant_lost, CutShort, Fault
  <2>12. ASSUME NEW l \in Loops, bind_open_loop_match(l) PROVE WatchInv'
    BY <1>s, <2>w, <2>12, BindKeepsWatches
  <2>13. ASSUME NEW l \in Loops, close_loop_from_match(l) PROVE WatchInv'
    BY <1>s, <2>w, <2>13, CloseKeepsWatches
  <2> QED BY <1>2, <2>0, <2>1, <2>3, <2>5, <2>6, <2>7, <2>8, <2>9, <2>10, <2>11, <2>12, <2>13 DEF Next, Step
<1> QED BY <1>1, <1>2

-----------------------------------------------------------------------------
(* The theorems. *)
IInv == Sound /\ MailInv /\ EventInv /\ WatchInv

\* The inductive invariant of the watcher, for any mailbox, calendar, watches,
\* cap and number of faults.
THEOREM Invariant == Spec => []IInv
<1>1. Init => IInv
  BY SoundAtFirst, MailAtFirst, EventsAtFirst, WatchesAtFirst DEF IInv
<1>2. IInv /\ [Next]_vars => IInv'
  BY SoundStays, MailStays, EventsStay, WatchesStay DEF IInv
<1> QED BY <1>1, <1>2, PTL DEF Spec

\* Type correctness of the watcher and of what it shares with the store.
THEOREM TypeCorrect == Spec => []TypeOK
<1>1. IInv => TypeOK
  BY DEF IInv, Sound
<1> QED BY <1>1, Invariant, PTL

\* What is new is stored before the cursor passes it, and nothing the first
\* sync found becomes an item, however polls are cut, repeated and recovered.
THEOREM NothingMissed == Spec => []NewIsStored
<1>1. IInv => NewIsStored
  BY DEF IInv, MailInv, CursorHandled, Handled, EventInv, ItemsAfterBase, NewIsStored
<1> QED BY <1>1, Invariant, PTL

\* Every watch that waits for a message the cursor passed is matched with it.
THEOREM MatchesBound == Spec => []MatchBound
<1>1. IInv => MatchBound
  <2> SUFFICES ASSUME IInv, NEW m \in Messages \ passed, NEW l \in Loops, base["gmail"] < m, m <= cursor.gmail,
                      Listable(m), items[<<m, 0>>].st = "open", loops[l].st = "open", m \in Watched[l], loops[l].since < m
               PROVE  items[<<m, 0>>].matched /\ loops[l].matched
    BY DEF MatchBound
  <2>1. Handled(m)
    BY DEF IInv, MailInv, CursorHandled
  <2>2. m \notin Refused
    BY DEF IInv, MailInv, BrokenUnknown, Refused
  <2> QED BY <2>1, <2>2 DEF Handled, Waits, Matched
<1> QED BY <1>1, Invariant, PTL

\* The watcher ends a watch only for a matched item of a change after the watch
\* was made, and when it saves a cancellation no watch is left waiting for it.
THEOREM WatchesEnd == Spec => WatchEndsWithEvent
<1> DEFINE EndsForItem == \A l \in Loops : loops[l].st = "open" /\ loops'[l].st # "open" /\ poll' # poll =>
                              \E k \in Keys : k[1] \in Watched[l] /\ k[2] > loops[l].since /\ items[k].matched
           NoneWaits == \A x \in poll.todo :
                            /\ x.id \in Events /\ saved'[x.id] # saved[x.id] /\ x.off
                            /\ poll.mode = "incremental" \/ (poll.mode = "recovery" /\ saved[x.id] # 0)
                            => \A l \in Loops : x.id \in Watched[l] /\ loops[l].since < x.at => loops[l].st # "open"
<1>1. ASSUME IInv, Next PROVE EndsForItem
  <2>1. SUFFICES ASSUME NEW l \in Loops, loops[l].st = "open", loops'[l].st # "open", poll' # poll
                 PROVE  \E k \in Keys : k[1] \in Watched[l] /\ k[2] > loops[l].since /\ items[k].matched
    OBVIOUS
  <2>2. ~Outside
    BY <2>1 DEF Outside, Arrive, Leave, HistoryExpires, MailAges, Change, TokensExpire, Reconnect, OpenLoop, EndLoop, CloseItem
  <2>3. loops' # loops
    BY <2>1
  <2>4. PICK j \in Loops : bind_open_loop_match(j) \/ close_loop_from_match(j)
    BY <1>1, <2>2, <2>3 DEF Next, Step, run_gmail, run_calendar, grant_lost, CutShort, gmail_profile, gmail_history,
           gmail_recovery_list, calendar_events, skip_known, skip_old, skip_not_inbox, note_watcher_reject, read_uncounted, insert_mail,
           _apply_event, _matching, _finish_item, save_calendar_event, next_page, write_cursor, store
  <2>5. Sound /\ WatchInv
    BY <1>1 DEF IInv
  <2>6. ~bind_open_loop_match(j)
    <3>1. SUFFICES ASSUME bind_open_loop_match(j) PROVE FALSE
      OBVIOUS
    <3>2. loops' = loops \/ (Marked(poll.key, j) /\ poll.key \in Keys)
      BY <2>5, <3>1, BindOf
    <3> QED BY <2>1, <2>3, <2>5, <3>2, MarkedOf DEF Sound
  <2>7. close_loop_from_match(j)
    BY <2>4, <2>6
  <2>8. poll.at = "close" /\ j \in poll.bound /\ loops' = [loops EXCEPT ![j].st = "over"]
    BY <2>7 DEF close_loop_from_match
  <2>9. j = l
    BY <2>1, <2>5, <2>8 DEF Sound, TypeOK
  <2>10. poll.src = "calendar"
    BY <2>5, <2>8, NumbersOf DEF Sound, Phase, MailPoll, Sources
  <2>11. PICK e \in Events, a \in Stamps : poll.key = <<e, a>>
    BY <2>5, <2>8, <2>10, EventInHand
  <2>12. e \in Watched[l] /\ loops[l].since < a /\ items[<<e, a>>].matched
    BY <2>5, <2>8, <2>9, <2>10, <2>11 DEF WatchInv, WatchesInHand
  <2>13. a > loops[l].since
    <3>1. a \in Nat /\ loops[l].since \in Nat
      BY <2>5, EventNumbers DEF Sound, TypeOK
    <3> QED BY <2>12, <3>1
  <2> QED BY <2>12, <2>13, KeyOfEvent
<1>2. ASSUME IInv, Next PROVE NoneWaits
  <2>1. SUFFICES ASSUME NEW x \in poll.todo, x.id \in Events, saved'[x.id] # saved[x.id], x.off,
                        poll.mode = "incremental" \/ (poll.mode = "recovery" /\ saved[x.id] # 0),
                        NEW l \in Loops, x.id \in Watched[l], loops[l].since < x.at, loops[l].st = "open"
                 PROVE  FALSE
    OBVIOUS
  <2>2. saved' # saved
    BY <2>1
  <2>3. save_calendar_event
    BY <1>2, <2>2 DEF Next, Outside, Step, Arrive, Leave, HistoryExpires, MailAges, Change, TokensExpire, Reconnect, OpenLoop,
           EndLoop, CloseItem, run_gmail, run_calendar, grant_lost, CutShort, gmail_profile, gmail_history,
           gmail_recovery_list, calendar_events, skip_known, skip_old, skip_not_inbox, note_watcher_reject, read_uncounted, insert_mail,
           _apply_event, _matching, _finish_item, next_page, write_cursor, bind_open_loop_match, close_loop_from_match, store
  <2>4. Sound /\ WatchInv
    BY <1>2 DEF IInv
  <2>5. PICK y \in poll.todo : /\ <<y.id, y.at>> = poll.key /\ poll.off = y.off /\ y.id \in Events
                               /\ saved' = [saved EXCEPT ![y.id] = y.at]
    BY <2>3, <2>4, SaveOf
  <2>6. poll.src = "calendar" /\ (poll.at = "save" \/ (poll.at = "close" /\ poll.bound = {}))
    BY <2>3, <2>4, SaveOf
  <2>7. x = y
    <3>1. x.id = y.id
      BY <2>1, <2>4, <2>5 DEF Sound, TypeOK
    <3> QED BY <2>4, <2>6, <3>1 DEF Sound, Phase, EventPoll
  <2>8. poll.key[1] = x.id /\ poll.key[2] = x.at /\ saved[x.id] # x.at
    BY <2>1, <2>4, <2>5, <2>7 DEF Sound, TypeOK
  <2>9. Cancels /\ Waiting(l)
    BY <2>1, <2>5, <2>6, <2>7, <2>8 DEF Cancels, Waiting
  <2> QED BY <2>4, <2>6, <2>8, <2>9 DEF WatchInv, CancelSeen
<1>3. IInv /\ [Next]_vars => [EndsForItem /\ NoneWaits]_vars
  BY <1>1, <1>2
<1>4. QED
  BY <1>3, Invariant, PTL DEF Spec, WatchEndsWithEvent
=============================================================================
