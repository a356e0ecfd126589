----------------------------- MODULE Forget_proofs -----------------------------
(***************************************************************************)
(* Proofs about Forget, for any subjects, messages, turns, calls, faults   *)
(* and deaths: the types, that a confirm answers what it did, when a turn  *)
(* about forgetting can become memory, and that the owner is asked first.  *)
(***************************************************************************)
EXTENDS Forget, SequenceTheorems, FiniteSetTheorems, WellFoundedInduction, TLAPS

-----------------------------------------------------------------------------
(* The types. *)

\* A call belongs to a turn that has begun, and so does a search.
Begun ==
    /\ call.turn <= Turn /\ asked <= Turn
    /\ live # "no" \/ call # NoCall => Turn > 0
    /\ call # NoCall => call.pc # "none" /\ call.turn > 0
Base == TypeOK /\ Begun

\* What is said now is a message, and a turn that begins is the next one.
LEMMA TurnIsNat ==
    ASSUME TypeOK
    PROVE  Turn \in Nat /\ Turn <= MaxTurns /\ MaxTurns \in Nat
  BY ForgetParameters, LenProperties DEF TypeOK, Turn
LEMMA NowIsSaid ==
    ASSUME TypeOK, Turn > 0
    PROVE  Now \in Msgs /\ Turn \in 1..Turn
  BY TurnIsNat, ElementOfSeq DEF TypeOK, Turn, Now
LEMMA NextTurn ==
    ASSUME TypeOK, NEW m \in Msgs, NewMessage(m)
    PROVE  /\ said' \in Seq(Msgs) /\ Turn' = Turn + 1 /\ Turn' <= MaxTurns
           /\ said'[Turn + 1] = m
           /\ \A t \in 1..Turn : said'[t] = said[t]
           /\ ahead' = ahead \cup (syncs \X {Turn + 1})
           /\ ahead' \subseteq (1..Turn') \X (1..Turn')
<1>1. said \in Seq(Msgs) /\ said' = Append(said, m) /\ Turn < MaxTurns
  BY DEF TypeOK, NewMessage
<1>2. /\ said' \in Seq(Msgs) /\ Len(said') = Len(said) + 1
      /\ \A i \in 1..Len(said) : said'[i] = said[i]
      /\ said'[Len(said) + 1] = m
  BY <1>1, AppendProperties
<1>3. Turn' = Turn + 1
  BY <1>2 DEF Turn
<1>4. ahead' = ahead \cup (syncs \X {Turn + 1})
  BY DEF NewMessage
<1>5. ahead' \subseteq (1..Turn') \X (1..Turn')
  <2>1. ahead \subseteq (1..Turn) \X (1..Turn) /\ syncs \subseteq 1..Turn
    BY DEF TypeOK, Turn
  <2>2. 1..Turn \subseteq 1..Turn' /\ Turn + 1 \in 1..Turn'
    BY <1>3, TurnIsNat
  <2>3. QED
    BY <1>4, <2>1, <2>2
<1>6. QED
  BY <1>1, <1>2, <1>3, <1>4, <1>5, TurnIsNat DEF Turn

\* The call in hand keeps its type when a step of it is done.
LEMMA CallMoves ==
    ASSUME TypeOK,
           NEW pc \in {"none", "searching", "confirming", "removing", "store", "episodes", "entity", "notebook"},
           NEW T \in SUBSET Subjects
    PROVE  /\ [call EXCEPT !.pc = pc] \in Calls
           /\ [call EXCEPT !.pc = pc, !.targets = T] \in Calls
           /\ [call EXCEPT !.pc = pc, !.ok = FALSE] \in Calls
           /\ [NoCall EXCEPT !.pc = pc, !.turn = Turn] \in Calls
           /\ NoCall \in Calls
<1>1. call \in Calls /\ Turn \in 0..MaxTurns /\ 0 \in 0..MaxTurns
  BY TurnIsNat DEF TypeOK
<1>2. NoCall \in Calls
  BY <1>1 DEF Calls, NoCall
<1>3. [NoCall EXCEPT !.pc = pc, !.turn = Turn] \in Calls
  BY <1>1, <1>2 DEF Calls
<1>4. [call EXCEPT !.pc = pc] \in Calls
  BY <1>1 DEF Calls
<1>5. [call EXCEPT !.pc = pc, !.targets = T] \in Calls
  BY <1>1 DEF Calls
<1>6. [call EXCEPT !.pc = pc, !.ok = FALSE] \in Calls
  BY <1>1 DEF Calls
<1>7. QED
  BY <1>2, <1>3, <1>4, <1>5, <1>6

LEMMA HoldMetaTyped ==
    ASSUME TypeOK, clear_hold_meta \/ set_hold_meta \/ expire_orphan_hold_on_restart
    PROVE  meta' \in BOOLEAN
  BY DEF TypeOK, clear_hold_meta, set_hold_meta, expire_orphan_hold_on_restart, Fault
LEMMA RowsErased ==
    ASSUME TypeOK, NEW R, Erase(R)
    PROVE  /\ held' \subseteq Rows /\ touched' \subseteq Rows
           /\ held' = held \ R
  BY DEF TypeOK, Erase

LEMMA OwnersTurnTyped ==
    ASSUME Base, NEW m \in Msgs, OwnersTurn(m)
    PROVE  Base'
<1> USE ForgetParameters
<1>1. TypeOK /\ NewMessage(m)
  BY DEF Base, OwnersTurn
<1>2. /\ said' \in Seq(Msgs) /\ Turn' = Turn + 1 /\ Turn' <= MaxTurns
  BY <1>1, NextTurn
<1>3. Turn \in Nat /\ MaxTurns \in Nat
  BY <1>1, TurnIsNat
<1>4. /\ cands' \subseteq Subjects /\ bound' \subseteq Rows /\ asking' \in BOOLEAN
      /\ hold' \in 0..NoHold /\ heldTexts' \subseteq Msgs /\ meta' \in BOOLEAN
  <2>1. /\ cands \subseteq Subjects /\ bound \subseteq Rows /\ hold \in 0..NoHold /\ heldTexts \subseteq Msgs
        /\ meta \in BOOLEAN /\ HoldTurns \in Nat /\ NoHold = HoldTurns + 1
    BY <1>1 DEF TypeOK, NoHold
  <2>2. CASE /\ hold < HoldTurns /\ hold' = hold + 1 /\ heldTexts' = heldTexts \cup {m}
             /\ asking' = FALSE /\ UNCHANGED <<cands, bound>> /\ UNCHANGED <<meta, faults>>
    <3>1. asking' \in BOOLEAN /\ meta' \in BOOLEAN
      BY <2>1, <2>2
    <3>2. hold' \in 0..NoHold
      BY <2>1, <2>2
    <3>3. QED
      BY <2>1, <2>2, <3>1, <3>2
  <2>3. CASE _expire_hold
    <3>1. asking' \in BOOLEAN /\ meta' \in BOOLEAN
      BY <1>1, <2>3, HoldMetaTyped DEF _expire_hold, clear_hold_process
    <3>2. hold' \in 0..NoHold
      BY <2>1, <2>3 DEF _expire_hold, clear_hold_process
    <3>3. QED
      BY <2>3, <3>1, <3>2 DEF _expire_hold, clear_hold_process
  <2>4. CASE /\ asking' = FALSE /\ UNCHANGED <<cands, bound, hold, heldTexts>>
             /\ expire_orphan_hold_on_restart
    BY <1>1, <2>1, <2>4, HoldMetaTyped
  <2>5. QED
    BY <2>2, <2>3, <2>4 DEF OwnersTurn, on_turn_start_forget_hooks
<1>5. drops' \subseteq Msgs /\ talk' \subseteq 1..Turn'
  <2>1. drops \subseteq Msgs /\ talk \subseteq 1..Turn
    BY <1>1 DEF TypeOK, Turn
  <2>2. drops' \subseteq drops \cup {m} /\ talk' \subseteq talk \cup {Turn + 1}
    BY DEF OwnersTurn, turn_marks, expire_disposition_drops
  <2>3. QED
    BY <1>2, <1>3, <2>1, <2>2
<1>6. widen' \in Numbers \cup {None}
  BY <1>1 DEF TypeOK, OwnersTurn, note_turn
<1>7. reply' \in Answers
  BY DEF OwnersTurn, Answers
<1>8. ahead' \subseteq (1..Turn') \X (1..Turn')
  BY <1>1, NextTurn
<1>9. TypeOK'
  BY <1>1, <1>2, <1>3, <1>4, <1>5, <1>6, <1>7, <1>8 DEF TypeOK, OwnersTurn, Turn
<1>10. call' = call /\ asked' = asked /\ call.turn \in Nat /\ asked \in Nat
  BY <1>1, <1>3 DEF OwnersTurn, TypeOK, Calls
<1>11. Begun'
  BY <1>2, <1>3, <1>10 DEF Base, Begun
<1>12. QED
  BY <1>9, <1>11 DEF Base

LEMMA OtherTurnTyped ==
    ASSUME Base, NEW m \in Msgs, OtherTurn(m)
    PROVE  Base'
<1> USE ForgetParameters
<1>1. TypeOK /\ NewMessage(m)
  BY DEF Base, OtherTurn
<1>2. /\ said' \in Seq(Msgs) /\ Turn' = Turn + 1 /\ Turn' <= MaxTurns
  BY <1>1, NextTurn
<1>3. Turn \in Nat /\ MaxTurns \in Nat
  BY <1>1, TurnIsNat
<1>4. widen' \in Numbers \cup {None}
  BY <1>1 DEF TypeOK, OtherTurn, note_turn
<1>5. ahead' \subseteq (1..Turn') \X (1..Turn')
  BY <1>1, NextTurn
<1>6. TypeOK'
  BY <1>1, <1>2, <1>3, <1>4, <1>5 DEF TypeOK, OtherTurn, Turn, memory, history
<1>7. call' = call /\ asked' = asked /\ call.turn \in Nat /\ asked \in Nat
  BY <1>1, <1>3 DEF OtherTurn, TypeOK, Calls, history
<1>8. Begun'
  BY <1>2, <1>3, <1>7 DEF Base, Begun
<1>9. QED
  BY <1>6, <1>8 DEF Base

LEMMA TurnEndsTyped == ASSUME Base, TurnEnds PROVE Base'
<1>1. TypeOK /\ Turn > 0 /\ Turn \in Nat
  BY TurnIsNat DEF Base, Begun, TurnEnds
<1>2. syncs' \subseteq 1..Turn /\ live' \in {"no", "other", "owner"}
  <2>1. syncs \subseteq 1..Turn /\ Turn \in 1..Turn
    BY <1>1 DEF TypeOK, Turn
  <2>2. syncs' \subseteq syncs \cup {Turn} /\ live' = "no"
    BY DEF TurnEnds
  <2>3. QED
    BY <2>1, <2>2
<1>3. TypeOK'
  BY <1>1, <1>2 DEF TypeOK, TurnEnds, Turn, memory, history
<1>4. QED
  BY <1>3 DEF Base, Begun, TurnEnds, Turn, history

\* The sync takes the oldest of the turns that wait.
LEMMA Oldest ==
    ASSUME NEW S \in SUBSET Nat, S # {}
    PROVE  LET t == CHOOSE t \in S : \A u \in S : t <= u IN t \in S /\ \A u \in S : t <= u
<1> DEFINE Less == {p \in Nat \X Nat : p[1] < p[2]}
<1>1. IsWellFoundedOn(Less, Nat)
  BY NatLessThanWellFounded DEF OpToRel
<1>2. PICK t \in S : \A u \in S : ~ (<<u, t>> \in Less)
  BY <1>1, WFMin
<1>3. \A u \in S : ~ (u < t)
  BY <1>2
<1>4. \A u \in S : t <= u
  BY <1>3
<1>5. QED
  BY <1>4
LEMMA SyncTakes ==
    ASSUME TypeOK, sync_turn
    PROVE  \E t \in syncs : turn_disposition(t) /\ syncs' = syncs \ {t} /\ \A u \in syncs : t <= u
<1>1. syncs # {} /\ syncs \in SUBSET Nat
  BY DEF TypeOK, sync_turn
<1> DEFINE t == CHOOSE t \in syncs : \A u \in syncs : t <= u
<1>2. t \in syncs /\ \A u \in syncs : t <= u
  BY <1>1, Oldest
<1>3. turn_disposition(t) /\ syncs' = syncs \ {t}
  BY DEF sync_turn
<1>4. QED
  BY <1>2, <1>3

LEMMA sync_turnTyped == ASSUME Base, sync_turn PROVE Base'
<1>1. PICK t \in syncs : turn_disposition(t) /\ syncs' = syncs \ {t}
  BY SyncTakes DEF Base
<1>2. /\ drops' \subseteq drops /\ syncs' \subseteq syncs /\ kept' \subseteq kept \cup {t}
  BY <1>1 DEF turn_disposition
<1>3. /\ drops' \subseteq Msgs /\ syncs' \subseteq 1..Turn /\ kept' \subseteq 1..Turn
  BY <1>1, <1>2 DEF Base, TypeOK, Turn
<1>4. QED
  BY <1>3 DEF Base, TypeOK, Begun, sync_turn, Turn, bounds

LEMMA on_session_switchTyped == ASSUME Base, on_session_switch PROVE Base'
<1>1. meta' \in BOOLEAN
  BY HoldMetaTyped DEF Base, on_session_switch, _expire_hold
<1>2. NoHold \in 0..NoHold
  BY ForgetParameters DEF NoHold
<1>3. TypeOK'
  BY <1>1, <1>2 DEF Base, TypeOK, on_session_switch, _expire_hold, clear_hold_process, history, Turn
<1>4. QED
  BY <1>3 DEF Base, Begun, on_session_switch, history, Turn

LEMMA ArriveTyped == ASSUME Base, Arrive PROVE Base'
<1>1. TypeOK'
  BY DEF Base, TypeOK, Arrive, Turn
<1>2. QED
  BY <1>1 DEF Base, Begun, Arrive, Turn

LEMMA RestartTyped == ASSUME Base, Restart PROVE Base'
<1>1. NoHold \in 0..NoHold
  BY ForgetParameters DEF NoHold
<1>2. call' = NoCall /\ NoCall \in Calls /\ cut' \subseteq Persons
  BY CallMoves DEF Base, TypeOK, Restart
<1>3. TypeOK'
  BY <1>1, <1>2 DEF Base, TypeOK, Restart, clear_hold_process, Turn
<1>4. call'.turn = 0 /\ asked' = asked /\ Turn' = Turn /\ Turn \in Nat /\ live' = "no"
  BY <1>2, TurnIsNat DEF Base, TypeOK, Restart, NoCall, Turn
<1>5. QED
  BY <1>2, <1>3, <1>4 DEF Base, Begun

\* What the first step of a tool call leaves, and what the last does.
LEMMA pre_tool_callTyped ==
    ASSUME Base, NEW pc \in {"searching", "confirming", "removing"}, pre_tool_call_hook(pc)
    PROVE  Base'
<1>1. /\ call' = [NoCall EXCEPT !.pc = pc, !.turn = Turn] /\ call' \in Calls
      /\ call'.pc = pc /\ call'.turn = Turn
  BY CallMoves DEF Base, pre_tool_call_hook, _mint_modify, NoCall
<1>2. reply' \in Answers
  BY DEF pre_tool_call_hook, Answers
<1>3. TypeOK'
  BY <1>1, <1>2 DEF Base, TypeOK, pre_tool_call_hook, memory, Turn
<1>4. Turn > 0 /\ Turn \in Nat /\ Turn' = Turn /\ asked' = asked
  BY TurnIsNat DEF Base, Begun, pre_tool_call_hook, Turn
<1>5. QED
  BY <1>1, <1>3, <1>4 DEF Base, Begun

LEMMA AnswerTyped ==
    ASSUME Base, NEW r \in Answers, Answer(r)
    PROVE  reply' \in Answers /\ call' \in Calls /\ call' = NoCall /\ call'.turn = 0
  BY CallMoves DEF Base, Answer, NoCall

LEMMA origin_refusedTyped == ASSUME Base, origin_refused PROVE Base'
<1>1. reply' \in Answers /\ call' \in Calls /\ call' = NoCall /\ call'.turn = 0
  BY AnswerTyped DEF origin_refused, Answers
<1>2. TypeOK'
  BY <1>1 DEF Base, TypeOK, origin_refused, memory, Turn
<1>3. Turn' = Turn /\ Turn \in Nat /\ live' = live /\ asked' = asked
  BY TurnIsNat DEF Base, origin_refused, Turn
<1>4. QED
  BY <1>1, <1>2, <1>3 DEF Base, Begun

\* What a search finds are subjects.
LEMMA CandidatesAreSubjects ==
    ASSUME NEW S \in search_candidates
    PROVE  S \subseteq Subjects
<1>1. PICK P \in _plan_for_forget, N \in AtMostOne(held_for_number), W \in SUBSET Worded : S = P \cup N \cup W
  BY DEF search_candidates
<1>2. P \subseteq Persons /\ N \subseteq Numbers
  BY DEF _plan_for_forget, AtMostOne, held_for_number
<1>3. W \subseteq Plain \cup Facts
  BY DEF Worded
<1>4. QED
  BY <1>1, <1>2, <1>3 DEF Subjects

LEMMA searchTyped == ASSUME Base, search PROVE Base'
<1>1. PICK S \in search_candidates :
        /\ cands' = S /\ bound' = _absorb_person(S)
        /\ asking' = (Cardinality(group_candidates(S)) > 1)
        /\ asked' = Turn
        /\ IF S # {}
           THEN hold' = 0 /\ mark_drop /\ heldTexts' = heldTexts \cup {Now} /\ Talk /\ set_hold_meta
           ELSE UNCHANGED <<hold, drops, heldTexts, talk>> /\ expire_orphan_hold_on_restart
  BY DEF search
<1>2. live = "owner" /\ call.turn = Turn /\ again' \in BOOLEAN
  BY DEF Base, TypeOK, search, Admitted, _take_origin_token, retry_pending_proactive
<1>3. Turn > 0 /\ Turn \in Nat /\ Turn <= MaxTurns /\ MaxTurns \in Nat /\ Now \in Msgs
  BY <1>2, TurnIsNat, NowIsSaid DEF Base, Begun
<1>4. reply' \in Answers /\ call' \in Calls /\ call' = NoCall /\ call'.turn = 0
  BY AnswerTyped DEF search, Answers
<1>5. cands' \subseteq Subjects /\ bound' \subseteq Rows /\ asking' \in BOOLEAN /\ asked' \in 0..MaxTurns
  BY <1>1, <1>3, CandidatesAreSubjects DEF Base, TypeOK, _absorb_person
<1>6. /\ hold' \in 0..NoHold /\ drops' \subseteq Msgs /\ heldTexts' \subseteq Msgs /\ talk' \subseteq 1..Turn
      /\ meta' \in BOOLEAN
  <2>1. /\ hold \in 0..NoHold /\ 0 \in 0..NoHold /\ drops \subseteq Msgs /\ heldTexts \subseteq Msgs
        /\ talk \subseteq 1..Turn
    BY ForgetParameters DEF Base, TypeOK, NoHold, Turn
  <2>2. meta' \in BOOLEAN
    BY <1>1, HoldMetaTyped DEF Base
  <2>3. /\ hold' \in {0, hold} /\ drops' \subseteq drops \cup {Now} /\ heldTexts' \subseteq heldTexts \cup {Now}
        /\ talk' \subseteq talk \cup {Turn}
    BY <1>1 DEF mark_drop, Talk
  <2>4. QED
    BY <1>3, <2>1, <2>2, <2>3
<1>7. TypeOK'
  BY <1>2, <1>4, <1>5, <1>6 DEF Base, TypeOK, search, Turn
<1>8. QED
  BY <1>1, <1>2, <1>3, <1>4, <1>7 DEF Base, Begun, search, Turn

LEMMA take_forget_widenTyped == ASSUME Base, take_forget_widen PROVE Base'
<1>1. reply' \in Answers /\ call' \in Calls /\ call' = NoCall /\ call'.turn = 0
  BY AnswerTyped DEF take_forget_widen, Answers
<1>2. held' \subseteq Rows /\ touched' \subseteq Rows /\ due' \subseteq Rows
  BY RowsErased DEF Base, TypeOK, take_forget_widen, forget_subject, At
<1>3. again' \in BOOLEAN /\ widen' = None
  BY DEF Base, TypeOK, take_forget_widen, Admitted, retry_pending_proactive
<1>4. TypeOK'
  BY <1>1, <1>2, <1>3 DEF Base, TypeOK, take_forget_widen, memory, Turn
<1>5. Turn' = Turn /\ Turn \in Nat /\ live' = live /\ asked' = asked
  BY TurnIsNat DEF Base, take_forget_widen, Turn
<1>6. QED
  BY <1>1, <1>4, <1>5 DEF Base, Begun, take_forget_widen, Admitted, _take_origin_token

LEMMA confirm_refusedTyped == ASSUME Base, confirm_refused PROVE Base'
<1>1. reply' \in Answers /\ call' \in Calls /\ call' = NoCall /\ call'.turn = 0
  BY AnswerTyped DEF confirm_refused, Answers
<1>2. again' \in BOOLEAN /\ widen' = None /\ meta' \in BOOLEAN
  BY HoldMetaTyped DEF Base, TypeOK, confirm_refused, Admitted, retry_pending_proactive
<1>3. TypeOK'
  BY <1>1, <1>2 DEF Base, TypeOK, confirm_refused, memory, Turn
<1>4. Turn' = Turn /\ Turn \in Nat /\ live' = live /\ asked' = asked
  BY TurnIsNat DEF Base, confirm_refused, Turn
<1>5. QED
  BY <1>1, <1>3, <1>4 DEF Base, Begun

LEMMA confirmTyped == ASSUME Base, confirm PROVE Base'
<1>1. PICK targets \in SUBSET (cands \ Facts) \ {{}} :
        /\ call' = [call EXCEPT !.pc = "store", !.targets = targets]
        /\ due' = {r \in bound \cap held : r.of \in targets \ PassedOver(targets)}
  BY DEF confirm
<1>2. call' \in Calls /\ call'.pc = "store" /\ call'.turn = call.turn
  <2>1. targets \in SUBSET Subjects /\ call \in Calls
    BY <1>1 DEF Base, TypeOK
  <2>2. call' \in Calls
    BY <1>1, <2>1, CallMoves DEF Base
  <2>3. QED
    BY <1>1, <2>1, <2>2 DEF Calls
<1>3. again' \in BOOLEAN /\ widen' = None /\ meta' \in BOOLEAN /\ due' \subseteq Rows
  BY <1>1, HoldMetaTyped DEF Base, TypeOK, confirm, Admitted, retry_pending_proactive
<1>4. TypeOK'
  BY <1>2, <1>3 DEF Base, TypeOK, confirm, memory, Turn
<1>5. call # NoCall
  BY DEF confirm, NoCall
<1>6. QED
  BY <1>2, <1>4, <1>5 DEF Base, Begun, confirm, Turn

\* The erases move the call on, or end it.
LEMMA StepTyped ==
    ASSUME Base, call.pc # "none", InConfirm, UNCHANGED <<memory, meta, talk>>,
           held' \subseteq Rows, touched' \subseteq Rows, widen' \in Numbers \cup {None},
           reply' \in Answers,
           \/ call' = NoCall
           \/ \E pc \in {"episodes", "entity", "notebook"} :
                 call' \in {[call EXCEPT !.pc = pc], [call EXCEPT !.pc = pc, !.ok = FALSE]}
    PROVE  Base'
<1>1. call' \in Calls /\ (call' = NoCall \/ (call'.turn = call.turn /\ call'.pc # "none"))
  <2>1. CASE call' = NoCall
    BY <2>1, CallMoves DEF Base
  <2>2. ASSUME NEW pc \in {"episodes", "entity", "notebook"},
               call' \in {[call EXCEPT !.pc = pc], [call EXCEPT !.pc = pc, !.ok = FALSE]}
        PROVE  call' \in Calls /\ call'.turn = call.turn /\ call'.pc # "none"
    <3>1. call \in Calls /\ call' \in Calls
      BY <2>2, CallMoves DEF Base, TypeOK
    <3>2. QED
      BY <2>2, <3>1 DEF Calls
  <2>3. QED
    BY <2>1, <2>2
<1>2. TypeOK'
  BY <1>1 DEF Base, TypeOK, memory, InConfirm, Turn
<1>3. call # NoCall /\ Turn' = Turn /\ live' = live /\ asked' = asked /\ NoCall.turn = 0 /\ Turn \in Nat
  BY TurnIsNat DEF NoCall, InConfirm, Turn, Base
<1>4. QED
  BY <1>1, <1>2, <1>3 DEF Base, Begun

LEMMA _run_bound_proactiveTyped == ASSUME Base, _run_bound_proactive PROVE Base'
<1> DEFINE persons == call.targets \cap Persons
           numbers == IF persons = {} THEN call.targets \cap Numbers ELSE {}
           offered == {n \in numbers : Owner[n] # None}
<1>1. held' \subseteq Rows /\ touched' \subseteq Rows
  <2>1. CASE persons \cup numbers # {} /\ forget_subject(persons, numbers)
    BY <2>1, RowsErased DEF Base, forget_subject
  <2>2. CASE UNCHANGED <<held, touched>>
    BY <2>2 DEF Base, TypeOK
  <2>3. QED
    BY <2>1, <2>2 DEF _run_bound_proactive, nothing_changed
<1>2. widen' \in Numbers \cup {None}
  <2>1. widen \in Numbers \cup {None} /\ offered \subseteq Numbers
    BY DEF Base, TypeOK
  <2>2. widen' = widen \/ widen' \in offered
    BY DEF _run_bound_proactive, nothing_changed, note_forget_widen
  <2>3. QED
    BY <2>1, <2>2
<1>3. reply' \in Answers
  BY DEF Base, TypeOK, Answers, _run_bound_proactive, nothing_changed, Answer
<1>4. call' = NoCall \/ call' = [call EXCEPT !.pc = "episodes"]
  BY DEF _run_bound_proactive, nothing_changed, Answer
<1>5. call.pc # "none" /\ InConfirm /\ UNCHANGED <<memory, meta, talk>>
  BY DEF _run_bound_proactive
<1>6. QED
  BY <1>1, <1>2, <1>3, <1>4, <1>5, StepTyped

LEMMA erase_episodesTyped == ASSUME Base, erase_episodes PROVE Base'
<1> DEFINE rows == {r \in bound : r.in = "episodes" /\ r.of \in call.targets}
<1>1. held' \subseteq Rows /\ touched' \subseteq Rows
  BY RowsErased DEF Base, TypeOK, erase_episodes, forget_cascade
<1>2. \/ call' = [call EXCEPT !.pc = "entity"]
      \/ call' = [call EXCEPT !.pc = "notebook", !.ok = FALSE]
  BY DEF erase_episodes
<1>3. /\ call.pc # "none" /\ InConfirm /\ UNCHANGED <<memory, meta, talk>>
      /\ widen' = widen /\ reply' = reply
  BY DEF erase_episodes
<1>4. QED
  BY <1>1, <1>2, <1>3, StepTyped DEF Base, TypeOK

LEMMA _delete_named_entitiesTyped == ASSUME Base, _delete_named_entities PROVE Base'
<1>1. held' \subseteq Rows /\ touched' \subseteq Rows
  BY RowsErased DEF Base, TypeOK, _delete_named_entities
<1>2. /\ call.pc # "none" /\ InConfirm /\ UNCHANGED <<memory, meta, talk>>
      /\ widen' = widen /\ reply' = reply /\ call' = [call EXCEPT !.pc = "notebook"]
  BY DEF _delete_named_entities
<1>3. QED
  BY <1>1, <1>2, StepTyped DEF Base, TypeOK

LEMMA _sweep_notebookTyped == ASSUME Base, _sweep_notebook PROVE Base'
<1>1. held' \subseteq Rows /\ touched' \subseteq Rows
  BY RowsErased DEF Base, TypeOK, _sweep_notebook
<1>2. reply' \in Answers /\ meta' \in BOOLEAN
  BY HoldMetaTyped DEF Base, TypeOK, _sweep_notebook, Told, Answers
<1>3. call.pc = "notebook" /\ call' = NoCall /\ call' \in Calls /\ end_hold /\ widen' = widen /\ InConfirm
  BY CallMoves DEF Base, _sweep_notebook
<1>4. Turn > 0 /\ Turn \in Nat /\ Now \in Msgs
  BY <1>3, TurnIsNat, NowIsSaid DEF Base, Begun, NoCall
<1>5. /\ forgot' \in BOOLEAN /\ drops' \subseteq Msgs /\ talk' \subseteq 1..Turn
      /\ cands' \subseteq Subjects /\ bound' \subseteq Rows /\ asking' \in BOOLEAN
      /\ hold' \in 0..NoHold /\ heldTexts' \subseteq Msgs
  <2>1. /\ drops \subseteq Msgs /\ heldTexts \subseteq Msgs /\ talk \subseteq 1..Turn /\ NoHold \in 0..NoHold
    BY ForgetParameters DEF Base, TypeOK, NoHold, Turn
  <2>2. /\ forgot' = TRUE /\ drops' = drops \cup heldTexts \cup {Now} /\ talk' = talk \cup {Turn}
        /\ cands' = {} /\ bound' = {} /\ asking' = FALSE /\ hold' = NoHold /\ heldTexts' = {}
    BY <1>3 DEF end_hold, Talk, clear_hold_process
  <2>3. drops' \subseteq Msgs /\ talk' \subseteq 1..Turn
    BY <1>4, <2>1, <2>2
  <2>4. hold' \in 0..NoHold
    BY <2>1, <2>2
  <2>5. QED
    BY <2>2, <2>3, <2>4
<1>6. TypeOK'
  BY <1>1, <1>2, <1>3, <1>5 DEF Base, TypeOK, InConfirm, Turn
<1>7. QED
  BY <1>3, <1>4, <1>6 DEF Base, Begun, InConfirm, Turn, NoCall

LEMMA memory_removeTyped == ASSUME Base, memory_remove PROVE Base'
<1>1. /\ call.pc = "removing" /\ call' = NoCall /\ call' \in Calls
      /\ UNCHANGED <<said, live, widen, syncs, arrivals, calls, restarts,
                     kept, ahead, reply, due, touched, asked, cut, again>>
  BY CallMoves DEF Base, memory_remove
<1>2. held' \subseteq Rows
  BY DEF Base, TypeOK, memory_remove
<1>3. Turn > 0 /\ Turn \in Nat /\ Now \in Msgs
  BY <1>1, TurnIsNat, NowIsSaid DEF Base, Begun, NoCall
<1>4. PICK f \in Facts :
        \/ forgot' = TRUE /\ mark_drop /\ Talk /\ end_hold_if_candidate_removed(f)
        \/ UNCHANGED <<memory, meta, talk>>
  BY DEF memory_remove
<1>5. /\ forgot' \in BOOLEAN /\ drops' \subseteq Msgs /\ talk' \subseteq 1..Turn
      /\ cands' \subseteq Subjects /\ bound' \subseteq Rows /\ asking' \in BOOLEAN
      /\ hold' \in 0..NoHold /\ heldTexts' \subseteq Msgs /\ meta' \in BOOLEAN
  <2>1. CASE UNCHANGED <<memory, meta, talk>>
    BY <2>1 DEF Base, TypeOK, memory, Turn
  <2>2. CASE forgot' = TRUE /\ mark_drop /\ Talk /\ end_hold_if_candidate_removed(f)
    <3>1. /\ drops \subseteq Msgs /\ heldTexts \subseteq Msgs /\ talk \subseteq 1..Turn /\ NoHold \in 0..NoHold
          /\ cands \subseteq Subjects /\ bound \subseteq Rows /\ asking \in BOOLEAN /\ hold \in 0..NoHold
          /\ meta \in BOOLEAN
      BY ForgetParameters DEF Base, TypeOK, NoHold, Turn
    <3>2. forgot' = TRUE /\ drops' = drops \cup {Now} /\ talk' = talk \cup {Turn}
      BY <2>2 DEF mark_drop, Talk
    <3>3. \/ UNCHANGED <<cands, bound, asking, hold, heldTexts, meta>>
          \/ /\ cands' = {} /\ bound' = {} /\ asking' = FALSE /\ hold' = NoHold /\ heldTexts' = {}
             /\ meta' \in BOOLEAN
      BY <2>2, HoldMetaTyped DEF Base, end_hold_if_candidate_removed, clear_hold_process
    <3>4. drops' \subseteq Msgs /\ talk' \subseteq 1..Turn
      BY <1>3, <3>1, <3>2
    <3>5. hold' \in 0..NoHold
      BY <3>1, <3>3
    <3>6. asking' \in BOOLEAN /\ meta' \in BOOLEAN
      BY <3>1, <3>3
    <3>7. QED
      BY <3>1, <3>2, <3>3, <3>4, <3>5, <3>6
  <2>3. QED
    BY <1>4, <2>1, <2>2
<1>6. TypeOK'
  BY <1>1, <1>2, <1>5 DEF Base, TypeOK, Turn
<1>7. QED
  BY <1>1, <1>3, <1>6 DEF Base, Begun, Turn, NoCall

LEMMA InitTyped == Init => Base
<1> SUFFICES ASSUME Init PROVE Base
  OBVIOUS
<1>1. Turn = 0 /\ MaxTurns \in Nat /\ NoHold \in 0..NoHold /\ said \in Seq(Msgs)
  BY ForgetParameters, EmptySeq DEF Init, Turn, NoHold
<1>2. call \in Calls /\ call = NoCall /\ call.turn = 0
  BY <1>1 DEF Init, Calls, NoCall
<1>3. /\ said \in Seq(Msgs) /\ Len(said) <= MaxTurns /\ asked \in 0..MaxTurns /\ hold \in 0..NoHold
      /\ talk \subseteq 1..Len(said) /\ kept \subseteq 1..Len(said) /\ syncs \subseteq 1..Len(said)
  BY <1>1 DEF Init, Turn
<1>4. TypeOK
  BY <1>2, <1>3 DEF Init, TypeOK, Answers
<1>5. QED
  BY <1>1, <1>2, <1>4 DEF Init, Base, Begun

-----------------------------------------------------------------------------
(* What was said about forgetting. *)

\* The turn at hand is not synced while it, or its call, goes on.
Unsynced ==
    /\ syncs \cap kept = {}
    /\ live = "owner" \/ call # NoCall => Turn \notin syncs \cup kept

\* The syncs are done in order, so what waits for its sync now was waiting when
\* any later turn began.
InOrder == \A u \in syncs, t \in 1..Turn : u < t => <<u, t>> \in ahead

\* A turn about forgetting that may still be synced is dropped then, by its mark,
\* which only the sync of an earlier turn with its words can use up.
Dropped(t) == said[t] \in drops \/ Overtaken(t)
Marked == \A t \in talk : (Waits(t) => Dropped(t)) /\ (t \in kept => Overtaken(t))

Words == Unsynced /\ InOrder /\ Marked

\* A step that adds no turn to what was said, synced or kept.
LEMMA WordsKept ==
    ASSUME Words, UNCHANGED <<said, syncs, kept, talk, ahead>>, drops \subseteq drops',
           live' \in {live, "no"}, call' # NoCall => call # NoCall \/ live = "owner"
    PROVE  Words'
<1>1. Unsynced' /\ InOrder'
  BY DEF Words, Unsynced, InOrder, Turn
<1>2. \A t : Waits(t)' => Waits(t)
  BY DEF Waits, Turn
<1>3. \A t : Overtaken(t) => Overtaken(t)'
  BY DEF Overtaken, Turn
<1>4. \A t : Dropped(t) => Dropped(t)'
  BY <1>3 DEF Dropped
<1>5. QED
  BY <1>1, <1>2, <1>3, <1>4 DEF Words, Marked

\* A step that finds the turn at hand to be about forgetting, and marks it.
LEMMA WordsMarked ==
    ASSUME Words, UNCHANGED <<said, live, syncs, kept, ahead>>, call # NoCall,
           talk' = talk \cup {Turn}, drops \cup {Now} \subseteq drops', call' = NoCall
    PROVE  Words'
<1>1. Unsynced' /\ InOrder' /\ Turn \notin kept
  BY DEF Words, Unsynced, InOrder, Turn
<1>2. \A t : Waits(t)' => Waits(t)
  BY DEF Waits, Turn
<1>3. \A t : Overtaken(t) => Overtaken(t)'
  BY DEF Overtaken, Turn
<1>4. \A t : Dropped(t) => Dropped(t)'
  BY <1>3 DEF Dropped
<1>5. said'[Turn] \in drops' /\ Turn \notin kept'
  BY <1>1 DEF Now, Turn
<1>6. ASSUME NEW t \in talk'
      PROVE  (Waits(t) => Dropped(t))' /\ (t \in kept => Overtaken(t))'
  <2>1. CASE t \in talk
    BY <1>2, <1>3, <1>4, <2>1 DEF Words, Marked
  <2>2. CASE t = Turn
    BY <1>5, <2>2 DEF Dropped
  <2>3. QED
    BY <1>6, <2>1, <2>2
<1>7. QED
  BY <1>1, <1>6 DEF Words, Marked

\* What a new turn leaves of the turns before it.
LEMMA NewTurnWords ==
    ASSUME Base, Words, NEW m \in Msgs, NewMessage(m), UNCHANGED <<syncs, kept>>
    PROVE  /\ Unsynced' /\ InOrder'
           /\ \A t \in 1..Turn : Overtaken(t) => Overtaken(t)'
<1>1. /\ Turn \in Nat /\ Turn' = Turn + 1 /\ \A t \in 1..Turn : said'[t] = said[t]
      /\ ahead' = ahead \cup (syncs \X {Turn + 1})
  BY NextTurn, TurnIsNat DEF Base
<1>2. syncs \subseteq 1..Turn /\ kept \subseteq 1..Turn
  BY DEF Base, TypeOK, Turn
<1>3. Unsynced'
  BY <1>1, <1>2 DEF Words, Unsynced
<1>4. ASSUME NEW u \in syncs, NEW t \in 1..Turn', u < t PROVE <<u, t>> \in ahead'
  <2>1. CASE t = Turn + 1
    BY <1>1, <1>4, <2>1
  <2>2. CASE t \in 1..Turn
    BY <1>1, <1>4, <2>2 DEF Words, InOrder
  <2>3. QED
    BY <1>1, <1>4, <2>1, <2>2
<1>5. InOrder'
  BY <1>4 DEF InOrder
<1>6. ASSUME NEW t \in 1..Turn, Overtaken(t) PROVE Overtaken(t)'
  <2>1. PICK u \in 1..Turn : <<u, t>> \in ahead /\ Within(said[t], said[u])
    BY <1>6 DEF Overtaken
  <2>2. u \in 1..Turn' /\ <<u, t>> \in ahead' /\ said'[t] = said[t] /\ said'[u] = said[u]
    BY <1>1, <2>1
  <2>3. Within(said'[t], said'[u])
    BY <2>1, <2>2
  <2>4. QED
    BY <2>2, <2>3 DEF Overtaken, Within
<1>7. QED
  BY <1>3, <1>5, <1>6

LEMMA OwnersTurnWords ==
    ASSUME Base, Words, NEW m \in Msgs, OwnersTurn(m)
    PROVE  Words'
<1> DEFINE marked == has_forget_intent(m) \/ hold' > hold
<1>1. /\ TypeOK /\ NewMessage(m) /\ Turn' = Turn + 1 /\ Turn \in Nat /\ said'[Turn + 1] = m
      /\ \A t \in 1..Turn : said'[t] = said[t]
      /\ live = "no" /\ UNCHANGED <<syncs, kept>>
      /\ syncs \subseteq 1..Turn /\ kept \subseteq 1..Turn /\ talk \subseteq 1..Turn
  BY NextTurn, TurnIsNat DEF Base, TypeOK, OwnersTurn, NewMessage, Turn
<1>2. /\ Unsynced' /\ InOrder'
      /\ \A t \in 1..Turn : Overtaken(t) => Overtaken(t)'
  BY <1>1, NewTurnWords
<1>3. PICK dead \in Expired : drops' = (drops \ dead) \cup (IF marked THEN {m} ELSE {})
  BY DEF OwnersTurn, turn_marks, expire_disposition_drops
<1>4. talk' = IF marked THEN talk \cup {Turn + 1} ELSE talk
  BY DEF OwnersTurn, turn_marks
<1>5. ASSUME NEW t \in talk, t \in syncs
      PROVE  Dropped(t)'
  <2>1. Dropped(t) /\ said'[t] = said[t] /\ t \in 1..Turn /\ Waits(t)
    BY <1>1, <1>5 DEF Words, Marked, Waits
  <2>2. CASE Overtaken(t)
    BY <1>2, <2>1, <2>2 DEF Dropped
  <2>3. CASE said[t] \in drops
    BY <1>3, <2>1, <2>3 DEF Dropped, Expired
  <2>4. QED
    BY <2>1, <2>2, <2>3 DEF Dropped
<1>6. marked => said'[Turn + 1] \in drops' /\ Turn + 1 \notin kept'
  BY <1>1, <1>3
<1>7. ASSUME NEW t \in talk'
      PROVE  (Waits(t) => Dropped(t))' /\ (t \in kept => Overtaken(t))'
  <2>1. CASE t \in talk
    <3>1. Waits(t)' => t \in syncs
      BY <1>1, <2>1 DEF Waits
    <3>2. t \in kept' => Overtaken(t)'
      BY <1>1, <1>2, <2>1 DEF Words, Marked
    <3>3. QED
      BY <1>5, <2>1, <3>1, <3>2
  <2>2. CASE t = Turn + 1 /\ marked
    BY <1>6, <2>2 DEF Dropped
  <2>3. QED
    BY <1>4, <1>7, <2>1, <2>2
<1>8. QED
  BY <1>2, <1>7 DEF Words, Marked

LEMMA OtherTurnWords ==
    ASSUME Base, Words, NEW m \in Msgs, OtherTurn(m)
    PROVE  Words'
<1>1. /\ TypeOK /\ NewMessage(m) /\ Turn' = Turn + 1 /\ Turn \in Nat
      /\ \A t \in 1..Turn : said'[t] = said[t]
      /\ live' = "other" /\ UNCHANGED <<syncs, kept, talk, drops>>
      /\ syncs \subseteq 1..Turn /\ kept \subseteq 1..Turn /\ talk \subseteq 1..Turn
  BY NextTurn, TurnIsNat DEF Base, TypeOK, OtherTurn, Turn, memory, history
<1>2. /\ Unsynced' /\ InOrder'
      /\ \A t \in 1..Turn : Overtaken(t) => Overtaken(t)'
  BY <1>1, NewTurnWords
<1>3. ASSUME NEW t \in talk
      PROVE  (Waits(t) => Dropped(t))' /\ (t \in kept => Overtaken(t))'
  <2>1. said'[t] = said[t] /\ (Overtaken(t) => Overtaken(t)')
    BY <1>1, <1>2
  <2>2. Waits(t)' => Waits(t)
    BY <1>1 DEF Waits
  <2>3. QED
    BY <1>1, <2>1, <2>2 DEF Words, Marked, Dropped
<1>4. QED
  BY <1>1, <1>2, <1>3 DEF Words, Marked

LEMMA TurnEndsWords == ASSUME Base, Words, TurnEnds PROVE Words'
<1>1. /\ UNCHANGED <<said, kept, talk, drops, call, ahead>> /\ live' = "no" /\ syncs \subseteq syncs'
      /\ syncs' \subseteq syncs \cup {Turn}
      /\ Turn \in syncs' => Turn \in syncs \/ (live = "owner" /\ call = NoCall)
  BY DEF TurnEnds, memory, history
<1>2. Unsynced'
  BY <1>1 DEF Words, Unsynced, Turn
<1>3. InOrder'
  <2> SUFFICES ASSUME NEW u \in syncs', NEW t \in 1..Turn, u < t PROVE <<u, t>> \in ahead
    BY <1>1 DEF InOrder, Turn
  <2>1. u # Turn
    BY TurnIsNat DEF Base
  <2>2. QED
    BY <1>1, <2>1 DEF Words, InOrder
<1>4. \A t : Waits(t)' => Waits(t)
  BY <1>1 DEF Waits, Turn
<1>5. \A t : /\ Overtaken(t) => Overtaken(t)'
             /\ Dropped(t) => Dropped(t)'
  BY <1>1 DEF Overtaken, Dropped, Turn
<1>6. QED
  BY <1>1, <1>2, <1>3, <1>4, <1>5 DEF Words, Marked

\* A sync uses up a mark of its own words only, and a mark it finds drops it.
LEMMA MarkUsed ==
    ASSUME NEW s \in 1..Turn, turn_disposition(s)
    PROVE  /\ kept' \subseteq kept \cup {s}
           /\ \A t \in 1..Turn : Waits(t) /\ said[t] \in drops =>
                  said[t] \in drops' \/ Within(said[t], said[s])
           /\ Waits(s) /\ said[s] \in drops => kept' = kept
<1>1. PICK c \in Synced(said[s]), dead \in Expired :
          LET marks == drops \ dead
              found == IF c \in marks THEN {c} ELSE {k \in marks : <<c, k>> \in Wraps}
          IN  \/ \E k \in found : drops' = marks \ {k} /\ kept' = kept
              \/ /\ found = {} /\ drops' = marks
                 /\ kept' = kept \/ kept' = kept \cup {s}
  BY DEF turn_disposition
<1> DEFINE marks == drops \ dead
           found == IF c \in marks THEN {c} ELSE {k \in marks : <<c, k>> \in Wraps}
<1>2. \A t \in 1..Turn : Waits(t) /\ said[t] \in drops => said[t] \in marks
  BY DEF Expired
<1>3. \A k \in found : k = c \/ <<c, k>> \in Wraps
  OBVIOUS
<1>4. \A k \in found : Within(k, said[s])
  BY <1>3 DEF Within
<1>5. c = said[s] \/ <<c, said[s]>> \in Wraps
  BY DEF Synced
<1>6. said[s] \in marks => found # {}
  BY <1>5
<1>7. kept' \subseteq kept \cup {s}
  BY <1>1
<1>8. \A t \in 1..Turn : said[t] \in marks => said[t] \in drops' \/ Within(said[t], said[s])
  BY <1>1, <1>4
<1>9. said[s] \in marks => kept' = kept
  BY <1>1, <1>6
<1>10. QED
  BY <1>2, <1>7, <1>8, <1>9

LEMMA sync_turnWords == ASSUME Base, Words, sync_turn PROVE Words'
<1>1. PICK s \in syncs : turn_disposition(s) /\ syncs' = syncs \ {s} /\ \A u \in syncs : s <= u
  BY SyncTakes DEF Base
<1>2. UNCHANGED <<said, live, talk, call, ahead>> /\ syncs \subseteq 1..Turn /\ talk \subseteq 1..Turn
      /\ Turn \in Nat /\ s \in 1..Turn
  BY <1>1, TurnIsNat DEF Base, TypeOK, sync_turn, Turn
<1>3. /\ kept' \subseteq kept \cup {s}
      /\ \A t \in 1..Turn : Waits(t) /\ said[t] \in drops =>
             said[t] \in drops' \/ Within(said[t], said[s])
      /\ Waits(s) /\ said[s] \in drops => kept' = kept
  BY <1>1, <1>2, MarkUsed
<1>4. Unsynced' /\ InOrder'
  BY <1>1, <1>2, <1>3 DEF Words, Unsynced, InOrder, Turn
<1>5. \A t : (Waits(t)' => Waits(t)) /\ (Overtaken(t) => Overtaken(t)')
  BY <1>1, <1>2 DEF Waits, Overtaken, Turn
<1>6. ASSUME NEW t \in talk, Waits(t)'
      PROVE  Dropped(t)'
  <2>1. Dropped(t) /\ Waits(t) /\ t \in 1..Turn
    BY <1>2, <1>5, <1>6 DEF Words, Marked
  <2>2. t # s
    BY <1>1, <1>2, <1>6 DEF Waits, Turn, Words, Unsynced
  <2>3. s < t
    BY <1>1, <1>2, <2>1, <2>2 DEF Waits
  <2>4. <<s, t>> \in ahead
    BY <1>1, <2>1, <2>3 DEF Words, InOrder
  <2>5. CASE Within(said[t], said[s])
    BY <1>2, <1>5, <2>4, <2>5 DEF Dropped, Overtaken
  <2>6. CASE Overtaken(t)
    BY <1>5, <2>6 DEF Dropped
  <2>7. CASE said[t] \in drops'
    BY <1>2, <2>7 DEF Dropped
  <2>8. QED
    BY <1>3, <2>1, <2>5, <2>6, <2>7 DEF Dropped
<1>7. ASSUME NEW t \in talk, t \in kept'
      PROVE  Overtaken(t)'
  <2>1. CASE t \in kept
    BY <1>5, <2>1 DEF Words, Marked
  <2>2. CASE t = s /\ t \notin kept
    <3>1. Dropped(s) /\ Waits(s)
      BY <1>1, <2>2 DEF Words, Marked, Waits
    <3>2. said[s] \notin drops
      BY <1>3, <1>7, <2>2, <3>1
    <3>3. QED
      BY <1>5, <2>2, <3>1, <3>2 DEF Dropped
  <2>3. QED
    BY <1>3, <1>7, <2>1, <2>2
<1>8. QED
  BY <1>2, <1>4, <1>6, <1>7 DEF Words, Marked

LEMMA RestartWords == ASSUME Base, Words, Restart PROVE Words'
<1>1. UNCHANGED <<said, talk, kept, ahead>> /\ syncs' = {} /\ live' = "no" /\ call' = NoCall
  BY DEF Restart
<1>2. \A t : ~Waits(t)' /\ (Overtaken(t) => Overtaken(t)')
  BY <1>1 DEF Waits, Overtaken, Turn
<1>3. QED
  BY <1>1, <1>2 DEF Words, Unsynced, InOrder, Marked

\* The calls: those that mark the turn, and the rest.
LEMMA searchWords == ASSUME Words, search PROVE Words'
<1>1. UNCHANGED <<said, live, syncs, kept, ahead>> /\ call' = NoCall /\ call # NoCall
  BY DEF search, Answer, NoCall
<1>2. \/ drops' = drops \cup {Now} /\ talk' = talk \cup {Turn}
      \/ UNCHANGED <<drops, talk>>
  BY DEF search, mark_drop, Talk
<1>3. QED
  BY <1>1, <1>2, WordsKept, WordsMarked
LEMMA _sweep_notebookWords == ASSUME Words, _sweep_notebook PROVE Words'
<1>1. UNCHANGED <<said, live, syncs, kept, ahead>> /\ call' = NoCall /\ call # NoCall
  BY DEF _sweep_notebook, InConfirm, NoCall
<1>2. drops \cup {Now} \subseteq drops' /\ talk' = talk \cup {Turn}
  BY DEF _sweep_notebook, end_hold, Talk
<1>3. QED
  BY <1>1, <1>2, WordsMarked
LEMMA memory_removeWords == ASSUME Words, memory_remove PROVE Words'
<1>1. UNCHANGED <<said, live, syncs, kept, ahead>> /\ call' = NoCall /\ call # NoCall
  BY DEF memory_remove, NoCall
<1>2. \/ drops' = drops \cup {Now} /\ talk' = talk \cup {Turn}
      \/ UNCHANGED <<drops, talk>>
  BY DEF memory_remove, mark_drop, Talk, memory
<1>3. QED
  BY <1>1, <1>2, WordsKept, WordsMarked
LEMMA CallWords ==
    ASSUME Words,
           \/ \E pc \in {"searching", "confirming", "removing"} : pre_tool_call_hook(pc)
           \/ origin_refused \/ take_forget_widen \/ confirm_refused \/ confirm
           \/ _run_bound_proactive \/ erase_episodes \/ _delete_named_entities
           \/ Arrive \/ on_session_switch
    PROVE  Words'
<1>1. UNCHANGED <<said, live, syncs, kept, talk, ahead, drops>>
  BY DEF pre_tool_call_hook, origin_refused, take_forget_widen, confirm_refused, confirm,
         _run_bound_proactive, erase_episodes, _delete_named_entities, Arrive, on_session_switch,
         InConfirm, memory, history
<1>2. live' \in {live, "no"}
  BY DEF pre_tool_call_hook, origin_refused, take_forget_widen, confirm_refused, confirm,
         _run_bound_proactive, erase_episodes, _delete_named_entities, Arrive, on_session_switch, InConfirm
<1>3. CASE Arrive \/ on_session_switch
  BY <1>1, <1>2, <1>3, WordsKept DEF Arrive, on_session_switch
<1>4. CASE \E pc \in {"searching", "confirming", "removing"} : pre_tool_call_hook(pc)
  BY <1>1, <1>2, <1>4, WordsKept DEF pre_tool_call_hook
<1>5. CASE call.pc \in {"searching", "confirming", "store", "episodes", "entity"}
  BY <1>1, <1>2, <1>5, WordsKept DEF NoCall
<1>6. QED
  BY <1>3, <1>4, <1>5 DEF origin_refused, take_forget_widen, confirm_refused, confirm,
                          _run_bound_proactive, erase_episodes, _delete_named_entities

-----------------------------------------------------------------------------
(* What a confirm answers. *)

\* Nothing is answered while a call goes on, and each erase leaves nothing in
\* its place of what is due.
Erasing ==
    /\ call # NoCall => reply = "none"
    /\ call.pc \in {"searching", "confirming", "removing", "store"} => touched = {}
    /\ Locked => /\ call.targets \cap Facts = {}
                 /\ due \subseteq bound
                 /\ \A r \in due : r.of \in call.targets \ PassedOver(call.targets)
    /\ call.pc \in {"episodes", "entity", "notebook"} => \A r \in due \cap held : r.in # "store"
    /\ call.pc \in {"entity", "notebook"} /\ call.ok => \A r \in due \cap held : r.in # "episodes"
Honest == Erasing /\ AnswerMatchesErases

\* A step that goes on with no erase, and one that ends a call without.
LEMMA HonestKept ==
    ASSUME Honest, UNCHANGED <<call, reply, touched, due>>, held' \subseteq held,
           bound' = bound \/ ~Locked
    PROVE  Honest'
  BY DEF Honest, Erasing, AnswerMatchesErases, Locked
LEMMA HonestEnds ==
    ASSUME Honest, call' = NoCall, UNCHANGED <<touched, due>>, held' \subseteq held,
           reply' = reply \/ reply' \in {"shown", "refused", "partial"}
    PROVE  Honest'
  BY DEF Honest, Erasing, AnswerMatchesErases, Locked, NoCall

LEMMA QuietStepsHonest ==
    ASSUME Honest,
           \/ \E m \in Msgs : OtherTurn(m)
           \/ TurnEnds \/ sync_turn \/ on_session_switch
    PROVE  Honest'
<1>1. UNCHANGED <<call, reply, touched, due, held>>
  BY DEF OtherTurn, TurnEnds, sync_turn, on_session_switch, history
<1>2. bound' = bound \/ ~Locked
  BY DEF OtherTurn, TurnEnds, sync_turn, on_session_switch, memory, Locked, NoCall
<1>3. QED
  BY <1>1, <1>2, HonestKept
LEMMA EndedCallsHonest ==
    ASSUME Honest, origin_refused \/ confirm_refused \/ search \/ memory_remove \/ Restart
    PROVE  Honest'
<1>1. call' = NoCall /\ UNCHANGED <<touched, due>>
  BY DEF origin_refused, confirm_refused, search, memory_remove, Restart, Answer
<1>2. held' \subseteq held
  BY DEF origin_refused, confirm_refused, search, memory_remove, Restart
<1>3. reply' = reply \/ reply' \in {"shown", "refused", "partial"}
  BY DEF origin_refused, confirm_refused, search, memory_remove, Restart, Answer
<1>4. QED
  BY <1>1, <1>2, <1>3, HonestEnds
LEMMA OwnersTurnHonest ==
    ASSUME Honest, NEW m \in Msgs, OwnersTurn(m)
    PROVE  Honest'
<1>1. ~Locked /\ call' = call /\ reply' = "none" /\ touched' = {}
  BY DEF OwnersTurn, NewMessage
<1>2. QED
  BY <1>1 DEF Honest, Erasing, AnswerMatchesErases, Locked
LEMMA pre_tool_callHonest ==
    ASSUME Honest, NEW pc \in {"searching", "confirming", "removing"}, pre_tool_call_hook(pc)
    PROVE  Honest'
<1>1. call'.pc = pc /\ reply' = "none" /\ touched' = {}
  BY DEF pre_tool_call_hook, _mint_modify, NoCall
<1>2. QED
  BY <1>1 DEF Honest, Erasing, AnswerMatchesErases, Locked
LEMMA ArriveHonest == ASSUME Honest, Arrive PROVE Honest'
<1>1. PICK r \in Rows \ held : held' = held \cup {r} /\ bound' = bound \ {r} /\ due' = due \ {r}
  BY DEF Arrive
<1>2. UNCHANGED <<call, reply, touched>>
  BY DEF Arrive
<1>3. due' \cap held' \subseteq due \cap held /\ due' \subseteq due
  BY <1>1
<1>4. Erasing'
  <2>1. Locked' => due' \subseteq bound'
    BY <1>1, <1>2 DEF Honest, Erasing, Locked
  <2>2. QED
    BY <1>2, <1>3, <2>1 DEF Honest, Erasing, Locked
<1>5. AnswerMatchesErases'
  BY <1>2, <1>3 DEF Honest, AnswerMatchesErases
<1>6. QED
  BY <1>4, <1>5 DEF Honest

LEMMA take_forget_widenHonest == ASSUME Honest, take_forget_widen PROVE Honest'
<1>1. touched = {} /\ call' = NoCall
  BY DEF take_forget_widen, Answer, Honest, Erasing
<1>2. Erasing'
  BY <1>1 DEF Erasing, Locked, NoCall
<1>3. CASE /\ forget_subject({Owner[widen]}, {})
           /\ due' = held \cap At("store", {Owner[widen]}) /\ Answer("ok")
  <2>1. At("store", {Owner[widen]}) \subseteq At("store", {Owner[widen]} \cup {} \cup NumbersOf({Owner[widen]}))
    BY DEF At
  <2>2. due' \cap held' = {}
    BY <1>3, <2>1 DEF forget_subject, Erase
  <2>3. QED
    BY <1>2, <1>3, <2>2 DEF Honest, AnswerMatchesErases, Answer
<1>4. CASE UNCHANGED <<held, due, touched>> /\ Answer("nothing")
  BY <1>1, <1>2, <1>4 DEF Honest, AnswerMatchesErases, Answer
<1>5. QED
  BY <1>3, <1>4 DEF take_forget_widen

LEMMA confirmHonest == ASSUME Base, Honest, confirm PROVE Honest'
<1>1. PICK targets \in SUBSET (cands \ Facts) \ {{}} :
        /\ call' = [call EXCEPT !.pc = "store", !.targets = targets]
        /\ due' = {r \in bound \cap held : r.of \in targets \ PassedOver(targets)}
  BY DEF confirm
<1>2. call \in Calls /\ call.pc = "confirming" /\ call # NoCall
  BY DEF Base, TypeOK, confirm, NoCall
<1>3. call'.pc = "store" /\ call'.targets = targets
  BY <1>1, <1>2 DEF Calls
<1>4. reply = "none" /\ touched = {}
  BY <1>2 DEF Honest, Erasing
<1>5. UNCHANGED <<bound, held, reply, touched>>
  BY DEF confirm, memory
<1>6. targets \cap Facts = {}
  BY <1>1
<1>7. QED
  BY <1>1, <1>3, <1>4, <1>5, <1>6 DEF Honest, Erasing, AnswerMatchesErases

\* The steps of the erase.
LEMMA _run_bound_proactiveHonest ==
    ASSUME Base, Honest, _run_bound_proactive
    PROVE  Honest'
<1> DEFINE persons == call.targets \cap Persons
           numbers == IF persons = {} THEN call.targets \cap Numbers ELSE {}
<1>1. /\ call \in Calls /\ call.pc = "store" /\ call # NoCall /\ due \subseteq Rows
      /\ UNCHANGED <<due, bound>>
  BY DEF Base, TypeOK, _run_bound_proactive, NoCall, memory, InConfirm
<1>2. reply = "none" /\ touched = {}
  BY <1>1 DEF Honest, Erasing
<1>3. /\ call.targets \cap Facts = {} /\ due \subseteq bound
      /\ \A r \in due : r.of \in call.targets \ PassedOver(call.targets)
  BY <1>1 DEF Honest, Erasing, Locked
<1>4. CASE nothing_changed
  BY <1>2, <1>4 DEF nothing_changed, Honest, Erasing, AnswerMatchesErases, Answer, NoCall, Locked
<1>5. CASE /\ IF persons \cup numbers = {} THEN UNCHANGED <<held, touched>> ELSE forget_subject(persons, numbers)
           /\ call' = [call EXCEPT !.pc = "episodes"] /\ reply' = reply
  <2>1. call'.pc = "episodes" /\ call'.targets = call.targets
    BY <1>1, <1>5 DEF Calls
  <2>2. ASSUME NEW r \in due, r.in = "store"
        PROVE  r \in At("store", persons \cup numbers \cup NumbersOf(persons))
    <3>1. r \in Rows /\ r.of \in Persons \cup Numbers /\ r.of \in call.targets \ PassedOver(call.targets)
      BY <1>1, <1>3, <2>2 DEF Rows
    <3>2. CASE r.of \in Persons
      BY <2>2, <3>1, <3>2 DEF At
    <3>3. CASE r.of \in Numbers /\ persons = {}
      BY <2>2, <3>1, <3>3 DEF At
    <3>4. CASE r.of \in Numbers /\ persons # {}
      BY <2>2, <3>1, <3>4 DEF At, PassedOver, NumbersOf
    <3>5. QED
      BY <3>1, <3>2, <3>3, <3>4
  <2>3. \A r \in due \cap held' : r.in # "store"
    <3>1. CASE persons \cup numbers = {}
      BY <2>2, <3>1 DEF At, NumbersOf
    <3>2. CASE forget_subject(persons, numbers)
      BY <2>2, <3>2 DEF forget_subject, Erase
    <3>3. QED
      BY <1>5, <3>1, <3>2
  <2>4. QED
    BY <1>1, <1>2, <1>3, <1>5, <2>1, <2>3 DEF Honest, Erasing, AnswerMatchesErases, Locked
<1>6. QED
  BY <1>4, <1>5 DEF _run_bound_proactive

LEMMA erase_episodesHonest == ASSUME Base, Honest, erase_episodes PROVE Honest'
<1> DEFINE rows == {r \in bound : r.in = "episodes" /\ r.of \in call.targets}
<1>1. /\ call \in Calls /\ call.pc = "episodes" /\ call # NoCall
      /\ UNCHANGED <<due, bound, reply>>
  BY DEF Base, TypeOK, erase_episodes, NoCall, memory, InConfirm
<1>2. /\ reply = "none" /\ call.targets \cap Facts = {} /\ due \subseteq bound
      /\ \A r \in due : r.of \in call.targets \ PassedOver(call.targets)
      /\ \A r \in due \cap held : r.in # "store"
  BY <1>1 DEF Honest, Erasing, Locked
<1>3. CASE /\ IF rows = {} THEN UNCHANGED <<held, touched>> ELSE forget_cascade(rows)
           /\ call' = [call EXCEPT !.pc = "entity"]
  <2>1. call'.pc = "entity" /\ call'.targets = call.targets
    BY <1>1, <1>3 DEF Calls
  <2>2. held' \subseteq held \ rows
    BY <1>3 DEF forget_cascade, Erase
  <2>3. \A r \in due \cap held' : r.in # "store" /\ r.in # "episodes"
    BY <1>2, <2>2
  <2>4. QED
    BY <1>1, <1>2, <2>1, <2>3 DEF Honest, Erasing, AnswerMatchesErases, Locked
<1>4. CASE call' = [call EXCEPT !.pc = "notebook", !.ok = FALSE] /\ UNCHANGED <<held, touched>>
  <2>1. call'.pc = "notebook" /\ call'.targets = call.targets /\ call'.ok = FALSE
    BY <1>1, <1>4 DEF Calls
  <2>2. QED
    BY <1>1, <1>2, <1>4, <2>1 DEF Honest, Erasing, AnswerMatchesErases, Locked
<1>5. QED
  BY <1>3, <1>4 DEF erase_episodes

LEMMA _delete_named_entitiesHonest ==
    ASSUME Base, Honest, _delete_named_entities
    PROVE  Honest'
<1>1. /\ call \in Calls /\ call.pc = "entity" /\ call # NoCall
      /\ UNCHANGED <<due, bound, reply>> /\ call' = [call EXCEPT !.pc = "notebook"]
  BY DEF Base, TypeOK, _delete_named_entities, NoCall, memory, InConfirm
<1>2. call'.pc = "notebook" /\ call'.targets = call.targets /\ call'.ok = call.ok
  BY <1>1 DEF Calls
<1>3. held' \subseteq held
  BY DEF _delete_named_entities, Erase
<1>4. QED
  BY <1>1, <1>2, <1>3 DEF Honest, Erasing, AnswerMatchesErases, Locked

LEMMA _sweep_notebookHonest == ASSUME Base, Honest, _sweep_notebook PROVE Honest'
<1> DEFINE rows == held \cap At("notebook", call.targets \cap Persons)
<1>1. /\ call \in Calls /\ call.pc = "notebook" /\ call # NoCall /\ due \subseteq Rows
      /\ due' = due /\ call' = NoCall
  BY DEF Base, TypeOK, _sweep_notebook, NoCall, InConfirm
<1>2. /\ call.targets \cap Facts = {} /\ \A r \in due : r.of \in call.targets
      /\ \A r \in due \cap held : r.in # "store"
      /\ call.ok => \A r \in due \cap held : r.in # "episodes"
  BY <1>1 DEF Honest, Erasing, Locked
<1>3. ASSUME NEW r \in due \cap held, call.ok, r.in # "entity"
      PROVE  r \in rows
  <2>1. r \in Rows /\ r.in = "notebook"
    BY <1>1, <1>2, <1>3 DEF Rows, Places
  <2>2. r.of \in call.targets \cap Persons
    BY <1>2, <2>1 DEF Rows
  <2>3. QED
    BY <2>1, <2>2 DEF At
<1>4. CASE reply' = "ok"
  <2>1. call.ok /\ held' = held \ rows
    <3>1. CASE call.ok /\ rows # {} /\ Erase(rows)
      BY <3>1 DEF Erase
    <3>2. CASE ~(call.ok /\ rows # {}) /\ UNCHANGED held /\ Told(call.ok)
      BY <1>4, <3>2 DEF Told
    <3>3. QED
      BY <1>4, <3>1, <3>2 DEF _sweep_notebook, Told
  <2>2. \A r \in due' \cap held' : r.in = "entity"
    BY <1>1, <1>3, <2>1
  <2>3. QED
    BY <1>1, <1>4, <2>2 DEF Honest, Erasing, AnswerMatchesErases, Locked, NoCall
<1>5. CASE reply' = "partial"
  BY <1>1, <1>5 DEF Honest, Erasing, AnswerMatchesErases, Locked, NoCall
<1>6. QED
  BY <1>4, <1>5 DEF _sweep_notebook, Told

-----------------------------------------------------------------------------
(* The owner is asked first. *)

\* The question about several subjects is open in the turn it was asked in, and
\* a confirm that comes to several comes in a later one.
Several == Cardinality(group_candidates(cands)) > 1
Confirming == call.pc = "confirming" \/ Locked
Asks ==
    /\ Several /\ ~asking => asked < Turn
    /\ Several /\ Confirming => asked < call.turn

LEMMA NoneIsNotSeveral == ASSUME cands = {} PROVE ~Several
<1>1. group_candidates(cands) = {}
  BY DEF group_candidates
<1>2. QED
  BY <1>1, FS_EmptySet DEF Several

\* What is listed is put away, or stays as it is.
LEMMA AsksKept ==
    ASSUME Asks, UNCHANGED <<said, asked>>,
           ~Several' \/ (cands' = cands /\ asking' = asking),
           call' = NoCall \/ (call'.turn = call.turn /\ (Confirming' => Confirming))
    PROVE  Asks'
<1>1. Several' => Several /\ asking' = asking
  BY DEF Several
<1>2. Confirming' => Confirming /\ call'.turn = call.turn
  BY DEF Confirming, NoCall, Locked
<1>3. QED
  BY <1>1, <1>2 DEF Asks, Turn
LEMMA PutAway == ASSUME clear_hold_process PROVE ~Several'
<1>1. group_candidates(cands)' = {}
  BY DEF clear_hold_process, group_candidates
<1>2. QED
  BY <1>1, FS_EmptySet DEF Several

LEMMA NewTurnAsks ==
    ASSUME Base, Asks, NEW m \in Msgs, OwnersTurn(m) \/ OtherTurn(m)
    PROVE  Asks'
<1>1. Turn' = Turn + 1 /\ Turn \in Nat /\ asked \in Nat /\ asked <= Turn /\ asked' = asked /\ call' = call
  BY NextTurn, TurnIsNat DEF Base, Begun, TypeOK, OwnersTurn, OtherTurn, history
<1>2. ~Several' \/ cands' = cands
  <2>1. CASE _expire_hold
    BY <2>1, PutAway DEF _expire_hold
  <2>2. CASE cands' = cands
    BY <2>2
  <2>3. QED
    BY <2>1, <2>2 DEF OwnersTurn, OtherTurn, on_turn_start_forget_hooks, memory
<1>3. QED
  BY <1>1, <1>2 DEF Asks, Several, Confirming, Locked
LEMMA pre_tool_callAsks ==
    ASSUME Base, Asks, NEW pc \in {"searching", "confirming", "removing"}, pre_tool_call_hook(pc)
    PROVE  Asks'
<1>1. call'.pc = pc /\ call'.turn = Turn /\ (pc # "searching" => ~asking)
  BY DEF pre_tool_call_hook, _mint_modify, NoCall
<1>2. UNCHANGED <<said, cands, asking, asked>>
  BY DEF pre_tool_call_hook, memory
<1>3. QED
  BY <1>1, <1>2 DEF Asks, Several, Confirming, Locked, Turn
LEMMA searchAsks == ASSUME Base, Asks, search PROVE Asks'
<1>1. asking' = Several' /\ asked' = Turn /\ call' = NoCall
  BY DEF search, Several, Answer
<1>2. QED
  BY <1>1 DEF Asks, Confirming, Locked, NoCall
LEMMA memory_removeAsks == ASSUME Base, Asks, memory_remove PROVE Asks'
<1>1. UNCHANGED <<said, asked>> /\ call' = NoCall
  BY DEF memory_remove
<1>2. clear_hold_process \/ (cands' = cands /\ asking' = asking)
  BY DEF memory_remove, end_hold_if_candidate_removed, memory
<1>3. QED
  BY <1>1, <1>2, PutAway, AsksKept
LEMMA EndsAsks == ASSUME Base, Asks, _sweep_notebook \/ on_session_switch \/ Restart PROVE Asks'
<1>1. UNCHANGED <<said, asked>> /\ call' = NoCall
  BY DEF _sweep_notebook, InConfirm, on_session_switch, Restart, history
<1>2. clear_hold_process
  BY DEF _sweep_notebook, end_hold, on_session_switch, _expire_hold, Restart
<1>3. QED
  BY <1>1, <1>2, PutAway, AsksKept
LEMMA QuietStepsAsks ==
    ASSUME Base, Asks, TurnEnds \/ sync_turn \/ Arrive \/ origin_refused \/ take_forget_widen \/ confirm_refused
    PROVE  Asks'
<1>1. UNCHANGED <<said, cands, asking, asked>>
  BY DEF TurnEnds, sync_turn, Arrive, origin_refused, take_forget_widen, confirm_refused, memory, history
<1>2. call' = call \/ call' = NoCall
  BY DEF TurnEnds, sync_turn, Arrive, origin_refused, take_forget_widen, confirm_refused, Answer
<1>3. QED
  BY <1>1, <1>2, AsksKept DEF Confirming, Locked
LEMMA ConfirmAsks ==
    ASSUME Base, Asks,
           confirm \/ _run_bound_proactive \/ erase_episodes \/ _delete_named_entities
    PROVE  Asks'
<1>1. UNCHANGED <<said, cands, asking, asked>>
  BY DEF confirm, _run_bound_proactive, erase_episodes, _delete_named_entities, InConfirm, memory
<1>2. Confirming /\ call \in Calls
  BY DEF Base, TypeOK, Confirming, Locked, confirm, _run_bound_proactive, erase_episodes, _delete_named_entities
<1>3. call' = NoCall \/ call'.turn = call.turn
  <2>1. CASE call' = NoCall
    BY <2>1
  <2>2. CASE \E pc, T : call' = [call EXCEPT !.pc = pc, !.targets = T]
    BY <1>2, <2>2 DEF Calls
  <2>3. CASE \E pc : call' = [call EXCEPT !.pc = pc]
    BY <1>2, <2>3 DEF Calls
  <2>4. CASE \E pc : call' = [call EXCEPT !.pc = pc, !.ok = FALSE]
    BY <1>2, <2>4 DEF Calls
  <2>5. QED
    BY <2>1, <2>2, <2>3, <2>4
       DEF confirm, _run_bound_proactive, nothing_changed, Answer, erase_episodes, _delete_named_entities
<1>4. QED
  BY <1>1, <1>2, <1>3, AsksKept

-----------------------------------------------------------------------------
(* The theorems. *)

IInv == Base /\ Words /\ Honest /\ Asks

LEMMA Initially == Init => IInv
<1> SUFFICES ASSUME Init PROVE IInv
  OBVIOUS
<1>1. Base
  BY InitTyped
<1>2. Words
  BY DEF Init, Words, Unsynced, InOrder, Marked
<1>3. Honest
  BY DEF Init, Honest, Erasing, AnswerMatchesErases, Locked, NoCall
<1>4. Asks
  BY NoneIsNotSeveral DEF Init, Asks
<1>5. QED
  BY <1>1, <1>2, <1>3, <1>4 DEF IInv

LEMMA Steps == IInv /\ [Next]_vars => IInv'
<1> SUFFICES ASSUME IInv, [Next]_vars PROVE IInv'
  OBVIOUS
<1> USE DEF IInv
<1>1. ASSUME NEW m \in Msgs, OwnersTurn(m) PROVE IInv'
  BY <1>1, OwnersTurnTyped, OwnersTurnWords, OwnersTurnHonest, NewTurnAsks
<1>2. ASSUME NEW m \in Msgs, OtherTurn(m) PROVE IInv'
  BY <1>2, OtherTurnTyped, OtherTurnWords, QuietStepsHonest, NewTurnAsks
<1>3. CASE TurnEnds
  BY <1>3, TurnEndsTyped, TurnEndsWords, QuietStepsHonest, QuietStepsAsks
<1>4. CASE sync_turn
  BY <1>4, sync_turnTyped, sync_turnWords, QuietStepsHonest, QuietStepsAsks
<1>5. CASE on_session_switch
  BY <1>5, on_session_switchTyped, CallWords, QuietStepsHonest, EndsAsks
<1>6. CASE Restart
  BY <1>6, RestartTyped, RestartWords, EndedCallsHonest, EndsAsks
<1>7. CASE Arrive
  BY <1>7, ArriveTyped, CallWords, ArriveHonest, QuietStepsAsks
<1>8. ASSUME NEW pc \in {"searching", "confirming", "removing"}, pre_tool_call_hook(pc) PROVE IInv'
  BY <1>8, pre_tool_callTyped, CallWords, pre_tool_callHonest, pre_tool_callAsks
<1>9. CASE origin_refused
  BY <1>9, origin_refusedTyped, CallWords, EndedCallsHonest, QuietStepsAsks
<1>10. CASE search
  BY <1>10, searchTyped, searchWords, EndedCallsHonest, searchAsks
<1>11. CASE take_forget_widen
  BY <1>11, take_forget_widenTyped, CallWords, take_forget_widenHonest, QuietStepsAsks
<1>12. CASE confirm_refused
  BY <1>12, confirm_refusedTyped, CallWords, EndedCallsHonest, QuietStepsAsks
<1>13. CASE confirm
  BY <1>13, confirmTyped, CallWords, confirmHonest, ConfirmAsks
<1>14. CASE _run_bound_proactive
  BY <1>14, _run_bound_proactiveTyped, CallWords, _run_bound_proactiveHonest, ConfirmAsks
<1>15. CASE erase_episodes
  BY <1>15, erase_episodesTyped, CallWords, erase_episodesHonest, ConfirmAsks
<1>16. CASE _delete_named_entities
  BY <1>16, _delete_named_entitiesTyped, CallWords, _delete_named_entitiesHonest, ConfirmAsks
<1>17. CASE _sweep_notebook
  BY <1>17, _sweep_notebookTyped, _sweep_notebookWords, _sweep_notebookHonest, EndsAsks
<1>18. CASE memory_remove
  BY <1>18, memory_removeTyped, memory_removeWords, EndedCallsHonest, memory_removeAsks
<1>19. CASE UNCHANGED vars
  <2>1. Base'
    BY <1>19 DEF vars, memory, bounds, history, Base, TypeOK, Begun, Turn
  <2>2. Words'
    BY <1>19, WordsKept DEF vars, memory, bounds, history
  <2>3. Honest'
    BY <1>19, HonestKept DEF vars, memory, bounds, history
  <2>4. Asks'
    BY <1>19, AsksKept DEF vars, memory, bounds, history, Confirming, Locked
  <2>5. QED
    BY <2>1, <2>2, <2>3, <2>4
<1>20. QED
  BY <1>1, <1>2, <1>3, <1>4, <1>5, <1>6, <1>7, <1>8, <1>9, <1>10, <1>11, <1>12, <1>13, <1>14, <1>15,
     <1>16, <1>17, <1>18, <1>19 DEF Next, Turns, Tools

\* Every reachable state satisfies the invariant the other theorems rest on.
THEOREM Invariant == Spec => []IInv
  BY Initially, Steps, PTL DEF Spec

\* Every variable keeps its type: what a call binds, presents and erases are
\* rows, and the turns that wait, are kept or were about forgetting have begun.
THEOREM TypeCorrect == Spec => []TypeOK
<1>1. IInv => TypeOK
  BY DEF IInv, Base
<1>2. QED
  BY <1>1, Invariant, PTL

\* "ok" leaves no row of the store, the episodes or the notes of what the confirm
\* set out to erase, and "nothing was changed" is said only when nothing was
\* (_run_bound_proactive, erase_episodes, _sweep_notebook), however the erases
\* fail and rows arrive.  Entities and passed-over numbers are excepted.
THEOREM AnswersMatchErases == Spec => []AnswerMatchesErases
<1>1. IInv => AnswerMatchesErases
  BY DEF IInv, Honest
<1>2. QED
  BY <1>1, Invariant, PTL

\* A list of several subjects is not acted on in the turn that was shown it
\* (ask_brian_pending, pre_tool_call_hook).
THEOREM SeveralAskedFirst == Spec => []AskedFirst
<1>1. IInv => AskedFirst
  <2> SUFFICES ASSUME IInv, Locked, Several PROVE call.turn > asked
    BY DEF AskedFirst, Several
  <2>1. asked < call.turn
    BY DEF IInv, Asks, Confirming
  <2>2. asked \in Nat /\ call.turn \in Nat
    BY DEF IInv, Base, TypeOK, Calls
  <2>3. QED
    BY <2>1, <2>2
<1>2. QED
  BY <1>1, Invariant, PTL

\* A turn that was about forgetting becomes memory only when an earlier turn that
\* was synced after it began has its words and used its mark up
\* (turn_disposition), however the hold ended.
THEOREM ForgetTalkIsDropped == Spec => []ForgetTalkGoes
<1>1. IInv => ForgetTalkGoes
  BY DEF IInv, Words, Marked, ForgetTalkGoes
<1>2. QED
  BY <1>1, Invariant, PTL
=============================================================================
