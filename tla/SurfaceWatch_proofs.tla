-------------------------- MODULE SurfaceWatch_proofs --------------------------
(***************************************************************************)
(* Proofs about the two modules of the owner's turn, for any number of     *)
(* sessions, items, watches, turns and faults, and every cap.              *)
(*                                                                         *)
(* Surface: the types, that what is counted as told was in the turn that   *)
(* counts it, that the session is tainted before it is given retrieved     *)
(* text, and what alone closes the gap over an item not counted.           *)
(*                                                                         *)
(* Watch: the types, that a yes does what was asked, and that a watch that *)
(* made room left its cover to one that did not.                           *)
(***************************************************************************)
EXTENDS Surface, Watch, WellFoundedInduction, TLAPS

-----------------------------------------------------------------------------
(* Surface: the types. *)

ItemRows == [st : {"new", "open", "done"}, conv : {"none", "selected", "possibly_surfaced"},
             told : 0..ReinjectCap, attempt : 0..MaxAttempts, rested : BOOLEAN]
LapseRows == [st : {"expired", "told"}, attempt : 0..MaxAttempts]
Markers == [attempt : 0..MaxAttempts, confirmed : BOOLEAN, old : BOOLEAN]
SpeechRows == [of : SUBSET Items, recent : BOOLEAN]
Steps == Before \cup {"idle", "note", "model", "mark", "post"}
HookRows == [pc : Steps, attempt : 0..MaxAttempts, todo : SUBSET Items, kept : SUBSET Items,
             lapses : SUBSET Lapses, more : BOOLEAN, post : 0..MaxSpeech, ok : BOOLEAN,
             shown : SUBSET (Items \cup Lapses)]
Typed ==
    /\ item \in [Items -> ItemRows] /\ lapse \in [Lapses -> LapseRows]
    /\ marker \in Markers /\ speech \in [Speeches -> SpeechRows] /\ noted \in 0..MaxSpeech
    /\ hook \in [Sessions -> HookRows] /\ listing \in [Sessions -> SUBSET Items]
    /\ tainted \subseteq Sessions /\ attempts \in 0..MaxAttempts /\ faults \in 0..MaxFaults
    /\ owed \subseteq Items /\ missed \subseteq Sessions /\ raced \in BOOLEAN
LEMMA TypedIsTypeOK == Typed <=> TypeOK
  BY DEF Typed, TypeOK, ItemRows, LapseRows, Markers, SpeechRows, HookRows, Steps

LEMMA Numerals ==
    /\ MaxAttempts \in Nat /\ MaxSpeech \in Nat /\ MaxFaults \in Nat /\ ItemCap \in Nat
    /\ ReinjectCap \in Nat /\ ReinjectCap > 0
  BY SurfaceParameters

LEMMA Becomes ==
    ASSUME Typed, NEW s \in Sessions, NEW h, Become(s, h)
    PROVE  /\ hook'[s] = h /\ \A r \in Sessions \ {s} : hook'[r] = hook[r]
           /\ h \in HookRows => hook' \in [Sessions -> HookRows]
  BY DEF Typed, Become
LEMMA IdleTyped == Idle \in HookRows
  BY Numerals DEF Idle, HookRows, Steps, Before
LEMMA Ends ==
    ASSUME Typed, NEW s \in Sessions, End(s)
    PROVE  /\ hook'[s] = Idle /\ \A r \in Sessions \ {s} : hook'[r] = hook[r]
           /\ hook' \in [Sessions -> HookRows]
  BY Becomes, IdleTyped DEF End
LEMMA FaultTyped == ASSUME Typed, Fault \/ NoFault \/ UNCHANGED faults PROVE faults' \in 0..MaxFaults
  BY Numerals DEF Typed, Fault, NoFault
LEMMA MarkerTyped ==
    ASSUME Typed, NEW a \in 0..MaxAttempts, NEW b \in BOOLEAN, SetMarker(a, b)
    PROVE  /\ marker' \in Markers /\ marker'.attempt = a /\ marker'.confirmed = b /\ marker'.old = FALSE
  BY DEF SetMarker, Markers
LEMMA MarkTyped ==
    ASSUME Typed, NEW s \in Sessions, NEW K, _mark(s, K)
    PROVE  tainted' \subseteq Sessions /\ tainted \subseteq tainted' /\ (K \cap Mail # {} => s \in tainted')
  BY DEF Typed, _mark

\* A set of deliveries has a latest.
LEMMA LatestExists ==
    ASSUME NEW n \in Nat, NEW S \in SUBSET (1..n), S # {}
    PROVE  \E d \in S : \A e \in S : e <= d
<1> DEFINE More == {p \in Nat \X Nat : p[1] < p[2]}
           Rest == {n - d : d \in S}
<1>1. IsWellFoundedOn(More, Nat)
  BY NatLessThanWellFounded DEF OpToRel
<1>2. Rest \subseteq Nat /\ Rest # {}
  <2>1. \A d \in S : n - d \in Nat
    OBVIOUS
  <2>2. QED
    BY <2>1
<1>3. PICK x \in Rest : \A y \in Rest : ~ (<<y, x>> \in More)
  BY <1>1, <1>2, WFMin
<1>4. PICK d \in S : x = n - d
  BY <1>3
<1>5. ASSUME NEW e \in S PROVE e <= d
  <2>1. n - e \in Rest /\ n - e \in Nat
    OBVIOUS
  <2>2. ~ (n - e < n - d)
    BY <1>2, <1>3, <1>4, <2>1
  <2>3. n \in Int /\ d \in Int /\ e \in Int
    OBVIOUS
  <2>4. QED
    BY <2>2, <2>3
<1>6. QED
  BY <1>4, <1>5
LEMMA CandidateTyped ==
    ASSUME Typed
    PROVE  /\ post_speech_candidate \in 0..MaxSpeech
           /\ post_speech_candidate # 0 => post_speech_candidate \in Speeches
<1> DEFINE ds == {d \in Speeches \ {noted} : speech[d].recent /\ \E i \in speech[d].of : Open(i)}
<1>1. ds \in SUBSET (1..MaxSpeech) /\ MaxSpeech \in Nat
  BY Numerals DEF Speeches
<1>2. post_speech_candidate = IF ds = {} THEN 0 ELSE CHOOSE d \in ds : \A e \in ds : e <= d
  BY DEF post_speech_candidate
<1> HIDE DEF ds
<1>3. CASE ds = {}
  BY <1>1, <1>2, <1>3
<1>4. CASE ds # {}
  <2>1. \E d \in ds : \A e \in ds : e <= d
    BY <1>1, <1>4, LatestExists
  <2>2. post_speech_candidate \in ds
    BY <1>2, <1>4, <2>1
  <2>3. QED
    BY <1>1, <2>2 DEF Speeches
<1>5. QED
  BY <1>3, <1>4

\* The rows a step of the store leaves.
LEMMA ReleaseTyped ==
    ASSUME Typed, NEW s \in Sessions, release_surface_attempt(s)
    PROVE  /\ item' \in [Items -> ItemRows] /\ lapse' \in [Lapses -> LapseRows]
           /\ \A i \in Items : item'[i] \in {item[i], [item[i] EXCEPT !.attempt = 0]}
           /\ \A l \in Lapses : lapse'[l] \in {lapse[l], [lapse[l] EXCEPT !.attempt = 0]}
<1>1. \A i \in Items : item'[i] \in {item[i], [item[i] EXCEPT !.attempt = 0]}
  BY DEF release_surface_attempt
<1>2. \A l \in Lapses : lapse'[l] \in {lapse[l], [lapse[l] EXCEPT !.attempt = 0]}
  BY DEF release_surface_attempt
<1>3. \A i \in Items : item[i] \in ItemRows /\ [item[i] EXCEPT !.attempt = 0] \in ItemRows
  BY Numerals DEF Typed, ItemRows
<1>4. \A l \in Lapses : lapse[l] \in LapseRows /\ [lapse[l] EXCEPT !.attempt = 0] \in LapseRows
  BY Numerals DEF Typed, LapseRows
<1>5. item' = [i \in Items |-> item'[i]] /\ lapse' = [l \in Lapses |-> lapse'[l]]
  BY DEF release_surface_attempt
<1>6. item' \in [Items -> ItemRows]
  BY <1>1, <1>3, <1>5
<1>7. lapse' \in [Lapses -> LapseRows]
  BY <1>2, <1>4, <1>5
<1>8. QED
  BY <1>1, <1>2, <1>6, <1>7

LEMMA InitTyped == Init => Typed
<1> SUFFICES ASSUME Init PROVE Typed
  OBVIOUS
<1>1. [st |-> "open", conv |-> "selected", told |-> 1, attempt |-> 0, rested |-> TRUE] \in ItemRows
  BY Numerals DEF ItemRows
<1>2. [st |-> "new", conv |-> "none", told |-> 0, attempt |-> 0, rested |-> TRUE] \in ItemRows
  BY Numerals DEF ItemRows
<1>3. item \in [Items -> ItemRows]
  BY <1>1, <1>2 DEF Init
<1>4. lapse \in [Lapses -> LapseRows] /\ marker \in Markers /\ speech \in [Speeches -> SpeechRows]
  BY Numerals DEF Init, LapseRows, Markers, SpeechRows
<1>5. hook \in [Sessions -> HookRows]
  BY IdleTyped DEF Init
<1>6. noted \in 0..MaxSpeech /\ attempts \in 0..MaxAttempts /\ faults \in 0..MaxFaults
  BY Numerals DEF Init
<1>7. /\ listing \in [Sessions -> SUBSET Items] /\ tainted \subseteq Sessions
      /\ owed \subseteq Items /\ missed \subseteq Sessions /\ raced \in BOOLEAN
  BY DEF Init
<1>8. QED
  BY <1>3, <1>4, <1>5, <1>6, <1>7 DEF Typed

LEMMA BeginTurnTyped == ASSUME Typed, NEW s \in Sessions, BeginTurn(s) PROVE Typed'
<1> DEFINE d == post_speech_candidate
<1>1. attempts' = attempts + 1 /\ attempts' \in 0..MaxAttempts
  BY Numerals DEF Typed, BeginTurn
<1>2. d \in 0..MaxSpeech /\ (d # 0 => d \in Speeches)
  BY CandidateTyped
<1>4. hook' \in [Sessions -> HookRows] /\ tainted' \subseteq Sessions /\ faults' \in 0..MaxFaults
  <2>1. CASE d # 0 /\ _post_speech_note(s, d)
    <3>1. speech[d].of \subseteq Items
      BY <1>2, <2>1 DEF Typed, SpeechRows
    <3>2. [Idle EXCEPT !.pc = "note", !.post = d, !.shown = speech[d].of] \in HookRows
      BY <1>2, <3>1, IdleTyped DEF HookRows, Steps
    <3>3. faults' \in 0..MaxFaults
      BY <2>1, FaultTyped DEF _post_speech_note
    <3>4. tainted' \subseteq Sessions
      BY <2>1, MarkTyped DEF _post_speech_note, Typed
    <3>5. hook' \in [Sessions -> HookRows]
      BY <2>1, <3>2, Becomes DEF _post_speech_note, Typed
    <3>6. QED
      BY <3>3, <3>4, <3>5
  <2>2. ASSUME NEW pc \in {"list", "touch"},
               Become(s, [Idle EXCEPT !.pc = pc, !.attempt = attempts + 1, !.post = d]),
               NoFault, UNCHANGED tainted
        PROVE  hook' \in [Sessions -> HookRows] /\ tainted' \subseteq Sessions /\ faults' \in 0..MaxFaults
    <3>1. [Idle EXCEPT !.pc = pc, !.attempt = attempts + 1, !.post = d] \in HookRows
      BY <1>1, <1>2, IdleTyped DEF HookRows, Steps, Before
    <3>2. QED
      BY <2>2, <3>1, Becomes, FaultTyped DEF Typed
  <2>3. QED
    BY <2>1, <2>2 DEF BeginTurn
<1>5. QED
  BY <1>1, <1>4 DEF Typed, BeginTurn, store, history

LEMMA write_surface_markerTyped == ASSUME Typed, NEW s \in Sessions, write_surface_marker(s) PROVE Typed'
<1>1. hook' \in [Sessions -> HookRows]
  BY Ends DEF write_surface_marker
<1>2. faults' \in 0..MaxFaults /\ marker' \in Markers
  <2>1. SetMarker(0, TRUE) => marker' \in Markers
    BY Numerals DEF SetMarker, Markers
  <2>2. QED
    BY <2>1, FaultTyped DEF write_surface_marker, Typed
<1>3. QED
  BY <1>1, <1>2 DEF Typed, write_surface_marker, history

LEMMA ListTyped == ASSUME Typed, NEW s \in Sessions, List(s) PROVE Typed'
<1>1. PICK picked \in SUBSET Items, more \in BOOLEAN :
        Become(s, [hook[s] EXCEPT !.pc = "select", !.todo = picked, !.more = more,
                                  !.lapses = list_untold_lapses])
  BY DEF List, list_surface_rows
<1>2. hook[s] \in HookRows /\ list_untold_lapses \subseteq Lapses
  BY DEF Typed, list_untold_lapses
<1>3. [hook[s] EXCEPT !.pc = "select", !.todo = picked, !.more = more, !.lapses = list_untold_lapses] \in HookRows
  BY <1>2 DEF HookRows, Steps, Before
<1>4. hook' \in [Sessions -> HookRows]
  BY <1>1, <1>3, Becomes
<1>5. QED
  BY <1>4 DEF Typed, List, store, history

LEMMA provisional_selectTyped ==
    ASSUME Typed, NEW s \in Sessions, NEW i \in Items, provisional_select(s, i)
    PROVE  Typed'
<1>1. hook[s] \in HookRows /\ item[i] \in ItemRows /\ hook[s].attempt \in 0..MaxAttempts
  BY DEF Typed, HookRows
<1>2. /\ [hook[s] EXCEPT !.todo = @ \ {i}, !.kept = @ \cup {i}] \in HookRows
      /\ [hook[s] EXCEPT !.todo = @ \ {i}, !.more = TRUE] \in HookRows
  BY <1>1 DEF HookRows
<1>3. hook' \in [Sessions -> HookRows]
  BY <1>2, Becomes DEF provisional_select
<1>4. [item[i] EXCEPT !.attempt = hook[s].attempt] \in ItemRows
  BY <1>1 DEF ItemRows
<1>5. item' \in [Items -> ItemRows]
  BY <1>4 DEF provisional_select, Typed
<1>6. faults' \in 0..MaxFaults
  BY Numerals DEF provisional_select, Typed, NoFault
<1>7. QED
  BY <1>3, <1>5, <1>6 DEF Typed, provisional_select, history

LEMMA GiveUpTyped ==
    ASSUME Typed, NEW s \in Sessions, GiveUp(s)
    PROVE  /\ hook' \in [Sessions -> HookRows]
           /\ item' \in [Items -> ItemRows] /\ lapse' \in [Lapses -> LapseRows]
  BY Ends, ReleaseTyped DEF GiveUp

LEMMA _finish_textTyped == ASSUME Typed, NEW s \in Sessions, _finish_text(s) PROVE Typed'
<1> DEFINE h == hook[s]
<1>1. h \in HookRows
  BY DEF Typed
<1>2. /\ hook' \in [Sessions -> HookRows]
      /\ item' \in [Items -> ItemRows] /\ lapse' \in [Lapses -> LapseRows]
  <2>1. CASE GiveUp(s)
    BY <2>1, GiveUpTyped
  <2>2. CASE Become(s, [h EXCEPT !.pc = "lapses", !.more = FALSE]) /\ UNCHANGED <<item, lapse>>
    <3>1. [h EXCEPT !.pc = "lapses", !.more = FALSE] \in HookRows
      BY <1>1 DEF HookRows, Steps, Before
    <3>2. QED
      BY <2>2, <3>1, Becomes DEF Typed
  <2>3. QED
    BY <2>1, <2>2 DEF _finish_text
<1>3. marker' \in Markers /\ faults' \in 0..MaxFaults
  <2>1. SetMarker(0, TRUE) => marker' \in Markers
    BY Numerals DEF SetMarker, Markers
  <2>2. QED
    BY <2>1, FaultTyped DEF _finish_text, Typed
<1>4. tainted' \subseteq Sessions
  BY MarkTyped DEF _finish_text, Typed
<1>5. QED
  BY <1>2, <1>3, <1>4 DEF Typed, _finish_text, history

LEMMA note_lapse_attemptTyped == ASSUME Typed, NEW s \in Sessions, note_lapse_attempt(s) PROVE Typed'
<1> DEFINE h == hook[s]
<1>1. h \in HookRows /\ h.attempt \in 0..MaxAttempts
  BY DEF Typed, HookRows
<1>2. /\ hook' \in [Sessions -> HookRows]
      /\ item' \in [Items -> ItemRows] /\ lapse' \in [Lapses -> LapseRows]
  <2>1. CASE GiveUp(s)
    BY <2>1, GiveUpTyped
  <2>2. CASE /\ Become(s, [h EXCEPT !.pc = "seal"]) /\ UNCHANGED item
             /\ lapse' = [l \in Lapses |-> IF l \in h.lapses THEN [lapse[l] EXCEPT !.attempt = h.attempt] ELSE lapse[l]]
    <3>1. [h EXCEPT !.pc = "seal"] \in HookRows
      BY <1>1 DEF HookRows, Steps, Before
    <3>2. \A l \in Lapses : lapse[l] \in LapseRows /\ [lapse[l] EXCEPT !.attempt = h.attempt] \in LapseRows
      BY <1>1 DEF Typed, LapseRows
    <3>3. lapse' \in [Lapses -> LapseRows]
      BY <2>2, <3>2
    <3>4. QED
      BY <2>2, <3>1, <3>3, Becomes DEF Typed
  <2>3. QED
    BY <2>1, <2>2 DEF note_lapse_attempt
<1>3. faults' \in 0..MaxFaults
  BY FaultTyped DEF note_lapse_attempt
<1>4. QED
  BY <1>2, <1>3 DEF Typed, note_lapse_attempt, history

LEMMA SealTyped == ASSUME Typed, NEW s \in Sessions, Seal(s) PROVE Typed'
<1> DEFINE h == hook[s]
<1>1. h \in HookRows /\ h.attempt \in 0..MaxAttempts /\ h.kept \subseteq Items /\ h.lapses \subseteq Lapses
  BY DEF Typed, HookRows
<1>2. CASE GiveUp(s) /\ Fault /\ UNCHANGED <<marker, owed, raced>>
  BY <1>2, GiveUpTyped, FaultTyped DEF Typed, Seal
<1>3. CASE /\ SetMarker(h.attempt, FALSE) /\ NoFault
           /\ Become(s, [h EXCEPT !.pc = "model", !.shown = h.kept \cup h.lapses,
                                  !.post = IF @ # 0 /\ speech[@].of \cap h.kept # {} THEN @ ELSE 0])
           /\ owed' = owed \cup {i \in h.kept : _offerable(i)}
           /\ raced' = \E r \in Sessions \ {s} : hook[r].pc \in Before
           /\ UNCHANGED <<item, lapse>>
  <2>1. PICK post \in {h.post, 0} : post = IF h.post # 0 /\ speech[h.post].of \cap h.kept # {} THEN h.post ELSE 0
    OBVIOUS
  <2>2. h.post \in 0..MaxSpeech /\ 0 \in 0..MaxSpeech
    BY <1>1, Numerals DEF HookRows
  <2>3. [h EXCEPT !.pc = "model", !.shown = h.kept \cup h.lapses, !.post = post] \in HookRows
    BY <1>1, <2>1, <2>2 DEF HookRows, Steps
  <2>4. Become(s, [h EXCEPT !.pc = "model", !.shown = h.kept \cup h.lapses, !.post = post])
    BY <1>3, <2>1
  <2>5. hook' \in [Sessions -> HookRows]
    BY <2>3, <2>4, Becomes
  <2>6. marker' \in Markers /\ faults' \in 0..MaxFaults /\ raced' \in BOOLEAN
    BY <1>1, <1>3, MarkerTyped, FaultTyped
  <2>7. QED
    BY <1>1, <1>3, <2>5, <2>6 DEF Typed, Seal
<1>4. QED
  BY <1>2, <1>3 DEF Seal

\* What is counted.
Confirmed(s, counted, told) ==
    /\ item' = [i \in Items |->
          IF i \in counted THEN [item[i] EXCEPT !.conv = "selected", !.told = @ + 1, !.attempt = 0,
                                                !.rested = FALSE]
          ELSE item[i]]
    /\ lapse' = [l \in Lapses |-> IF l \in told THEN [lapse[l] EXCEPT !.st = "told"] ELSE lapse[l]]
    /\ hook' = [hook EXCEPT ![s] = [hook[s] EXCEPT !.pc = "mark", !.ok = (counted \cup told # {})]]
LEMMA ConfirmedTyped ==
    ASSUME Typed, NEW s \in Sessions, NEW counted \in {Counted(s), {}}, NEW told, Confirmed(s, counted, told)
    PROVE  /\ hook' \in [Sessions -> HookRows]
           /\ item' \in [Items -> ItemRows] /\ lapse' \in [Lapses -> LapseRows]
<1>1. hook[s] \in HookRows
  BY DEF Typed
<1>2. PICK ok \in BOOLEAN : ok = (counted \cup told # {})
  OBVIOUS
<1>3. [hook[s] EXCEPT !.pc = "mark", !.ok = ok] \in HookRows
  BY <1>1 DEF HookRows, Steps
<1>4. hook' \in [Sessions -> HookRows]
  BY <1>2, <1>3, Becomes DEF Confirmed, Become
<1>5. \A i \in counted : item[i] \in ItemRows /\ item[i].told + 1 \in 0..ReinjectCap
  BY Numerals DEF Typed, ItemRows, Counted
<1>6. \A i \in counted : [item[i] EXCEPT !.conv = "selected", !.told = @ + 1, !.attempt = 0, !.rested = FALSE] \in ItemRows
  <2> SUFFICES ASSUME NEW i \in counted
               PROVE  [item[i] EXCEPT !.conv = "selected", !.told = @ + 1, !.attempt = 0, !.rested = FALSE] \in ItemRows
    OBVIOUS
  <2>1. PICK n \in 0..ReinjectCap : n = item[i].told + 1
    BY <1>5
  <2>2. item[i] \in ItemRows /\ 0 \in 0..MaxAttempts
    BY <1>5, Numerals
  <2>3. [item[i] EXCEPT !.conv = "selected", !.told = n, !.attempt = 0, !.rested = FALSE] \in ItemRows
    BY <2>2 DEF ItemRows
  <2>4. QED
    BY <2>1, <2>3
<1>7. item' \in [Items -> ItemRows]
  BY <1>6 DEF Confirmed, Typed
<1>8. \A l \in Lapses : lapse[l] \in LapseRows /\ [lapse[l] EXCEPT !.st = "told"] \in LapseRows
  BY DEF Typed, LapseRows
<1>9. lapse' \in [Lapses -> LapseRows]
  BY <1>8 DEF Confirmed
<1>10. QED
  BY <1>4, <1>7, <1>9
LEMMA ConfirmCases ==
    ASSUME NEW s \in Sessions, confirm_surface_attempt(s)
    PROVE  /\ hook[s].pc = "model"
           /\ \/ \E counted \in {Counted(s), {}} :
                   /\ NoFault
                   /\ Confirmed(s, counted, {l \in Lapses : lapse[l].st = "expired" /\ lapse[l].attempt = hook[s].attempt})
                   /\ owed' = owed \ counted
                   /\ missed' = IF counted = Counted(s) THEN missed ELSE missed \cup {s}
              \/ /\ Fault /\ Become(s, [hook[s] EXCEPT !.pc = "mark"]) /\ UNCHANGED <<item, lapse, owed>>
                 /\ missed' = missed \cup {s}
           /\ UNCHANGED <<marker, speech, noted, listing, tainted, attempts, raced>>
  BY DEF confirm_surface_attempt, Confirmed, Become
LEMMA confirm_surface_attemptTyped ==
    ASSUME Typed, NEW s \in Sessions, confirm_surface_attempt(s)
    PROVE  Typed'
<1>1. /\ hook' \in [Sessions -> HookRows]
      /\ item' \in [Items -> ItemRows] /\ lapse' \in [Lapses -> LapseRows]
  <2>1. CASE Become(s, [hook[s] EXCEPT !.pc = "mark"]) /\ UNCHANGED <<item, lapse>>
    <3>1. [hook[s] EXCEPT !.pc = "mark"] \in HookRows
      BY DEF Typed, HookRows, Steps
    <3>2. QED
      BY <2>1, <3>1, Becomes DEF Typed
  <2>2. QED
    BY <2>1, ConfirmCases, ConfirmedTyped
<1>2. faults' \in 0..MaxFaults
  BY ConfirmCases, FaultTyped
<1>3. owed' \subseteq Items /\ missed' \subseteq Sessions
  BY ConfirmCases DEF Typed
<1>4. QED
  BY <1>1, <1>2, <1>3, ConfirmCases DEF Typed

LEMMA _post_llmTyped == ASSUME Typed, NEW s \in Sessions, _post_llm(s) PROVE Typed'
<1> DEFINE h == hook[s]
<1>1. hook' \in [Sessions -> HookRows]
  <2>1. [h EXCEPT !.pc = "post"] \in HookRows
    BY DEF Typed, HookRows, Steps
  <2>2. QED
    BY <2>1, Becomes, Ends DEF _post_llm
<1>2. item' \in [Items -> ItemRows] /\ marker' \in Markers
  <2>1. CASE UNCHANGED <<item, marker>>
    BY <2>1 DEF Typed
  <2>2. ASSUME mark_surface_confirmed(s), NEW named, mark_possibly_surfaced(named)
        PROVE  item' \in [Items -> ItemRows] /\ marker' \in Markers
    <3>1. \A i \in Items : item[i] \in ItemRows /\ [item[i] EXCEPT !.conv = "possibly_surfaced"] \in ItemRows
      BY DEF Typed, ItemRows
    <3>2. item' \in [Items -> ItemRows]
      BY <2>2, <3>1 DEF mark_possibly_surfaced
    <3>3. marker' \in Markers
      BY <2>2 DEF mark_surface_confirmed, Typed, Markers
    <3>4. QED
      BY <2>2, <3>2, <3>3
  <2>3. QED
    BY <2>1, <2>2 DEF _post_llm
<1>3. faults' \in 0..MaxFaults
  BY FaultTyped DEF _post_llm, mark_surface_confirmed
<1>4. QED
  BY <1>1, <1>2, <1>3 DEF Typed, _post_llm

LEMMA note_post_speechTyped == ASSUME Typed, NEW s \in Sessions, note_post_speech(s) PROVE Typed'
<1>1. hook' \in [Sessions -> HookRows] /\ faults' \in 0..MaxFaults
  BY Ends, FaultTyped DEF note_post_speech
<1>2. noted' \in 0..MaxSpeech
  BY DEF Typed, HookRows, note_post_speech
<1>3. QED
  BY <1>1, <1>2 DEF Typed, note_post_speech, history
LEMMA TurnDiesTyped == ASSUME Typed, NEW s \in Sessions, TurnDies(s) PROVE Typed'
<1>1. hook' \in [Sessions -> HookRows]
  BY Ends DEF TurnDies
<1>2. QED
  BY <1>1 DEF Typed, TurnDies, store, history
LEMMA PendingTyped ==
    ASSUME Typed, NEW s \in Sessions, _pending_list(s) \/ _pending_change(s) \/ HandlesAge(s)
    PROVE  Typed'
<1>1. CASE _pending_list(s)
  <2>1. listing' \in [Sessions -> SUBSET Items] /\ tainted' \subseteq Sessions
    BY <1>1, MarkTyped DEF _pending_list, Typed, list_surface_rows
  <2>2. QED
    BY <1>1, <2>1 DEF Typed, _pending_list, store, history
<1>2. CASE _pending_change(s)
  <2>1. PICK targets, changed : dismiss_item(changed) /\ listing' = [listing EXCEPT ![s] = @ \ targets]
    BY <1>2 DEF _pending_change
  <2>2. \A i \in Items : item[i] \in ItemRows /\ [item[i] EXCEPT !.st = "done"] \in ItemRows
    BY DEF Typed, ItemRows
  <2>3. item' \in [Items -> ItemRows] /\ listing' \in [Sessions -> SUBSET Items]
    BY <2>1, <2>2 DEF dismiss_item, Typed
  <2>4. QED
    BY <1>2, <2>3 DEF Typed, _pending_change, history
<1>3. CASE HandlesAge(s)
  BY <1>3 DEF Typed, HandlesAge, store, history
<1>4. QED
  BY <1>1, <1>2, <1>3
LEMMA RestTyped ==
    ASSUME Typed,
           \/ \E i \in Items : Arrive(i) \/ Speak(i) \/ QuietPasses(i)
           \/ \E d \in Speeches : WindowPasses(d)
           \/ GapPasses
    PROVE  Typed'
<1>1. ASSUME NEW i \in Items, Arrive(i) \/ QuietPasses(i) PROVE Typed'
  <2>1. [item[i] EXCEPT !.st = "open"] \in ItemRows /\ [item[i] EXCEPT !.rested = TRUE] \in ItemRows
    BY DEF Typed, ItemRows
  <2>2. item' \in [Items -> ItemRows]
    BY <1>1, <2>1 DEF Arrive, QuietPasses, Typed
  <2>3. QED
    BY <1>1, <2>2 DEF Typed, Arrive, QuietPasses, history
<1>2. ASSUME NEW i \in Items, Speak(i) PROVE Typed'
  <2>1. [of |-> {i}, recent |-> TRUE] \in SpeechRows
    BY DEF SpeechRows
  <2>2. speech' \in [Speeches -> SpeechRows]
    BY <1>2, <2>1 DEF Speak, Typed
  <2>3. QED
    BY <1>2, <2>2 DEF Typed, Speak, history
<1>3. ASSUME NEW d \in Speeches, WindowPasses(d) PROVE Typed'
  <2>1. [speech[d] EXCEPT !.recent = FALSE] \in SpeechRows
    BY DEF Typed, SpeechRows
  <2>2. speech' \in [Speeches -> SpeechRows]
    BY <1>3, <2>1 DEF WindowPasses, Typed
  <2>3. QED
    BY <1>3, <2>2 DEF Typed, WindowPasses, history
<1>4. CASE GapPasses
  <2>1. marker' \in Markers /\ raced' \in BOOLEAN
    BY <1>4 DEF GapPasses, Typed, Markers
  <2>2. QED
    BY <1>4, <2>1 DEF Typed, GapPasses, history
<1>5. QED
  BY <1>1, <1>2, <1>3, <1>4

-----------------------------------------------------------------------------
(* Attempts: a row that carries the attempt of a turn is in its block.     *)

\* Attempts are numbered as they begin, and no two turns have the same.
Numbered ==
    /\ \A s \in Sessions : hook[s].attempt <= attempts
    /\ \A r, s \in Sessions : hook[r].attempt = hook[s].attempt /\ hook[s].attempt > 0 => r = s
    /\ \A i \in Items : item[i].attempt <= attempts
    /\ \A l \in Lapses : lapse[l].attempt <= attempts
Owns(s) == hook[s].attempt > 0 =>
    /\ \A i \in Items : item[i].attempt = hook[s].attempt => i \in hook[s].kept
    /\ \A l \in Lapses : lapse[l].attempt = hook[s].attempt => l \in hook[s].lapses
Shape(h) ==
    /\ h.pc \in {"idle", "note"} <=> h.attempt = 0
    /\ h.pc = "list" => h.lapses = {}
    /\ h.pc = "model" => h.kept \cup h.lapses \subseteq h.shown
Numbering == Numbered /\ \A s \in Sessions : Owns(s) /\ Shape(hook[s])

\* A turn goes on, or ends.
GoesOn(h, g) ==
    /\ g.attempt \in {h.attempt, 0}
    /\ g.attempt > 0 => h.kept \subseteq g.kept /\ h.lapses \subseteq g.lapses
    /\ Shape(g)
\* No row takes an attempt.
NoneTaken ==
    /\ \A i \in Items : item'[i].attempt \in {item[i].attempt, 0}
    /\ \A l \in Lapses : lapse'[l].attempt \in {lapse[l].attempt, 0}
LEMMA AttemptsAreNat ==
    ASSUME Typed
    PROVE  /\ attempts \in Nat /\ \A s \in Sessions : hook[s].attempt \in Nat
           /\ \A i \in Items : item[i].attempt \in Nat
           /\ \A l \in Lapses : lapse[l].attempt \in Nat
  BY Numerals DEF Typed, ItemRows, LapseRows, HookRows
LEMMA IdsKept ==
    ASSUME Typed, Numbering, attempts' = attempts, NoneTaken,
           \A s \in Sessions : GoesOn(hook[s], hook'[s])
    PROVE  Numbering'
<1>1. Numbered'
  BY AttemptsAreNat DEF Numbering, Numbered, NoneTaken, GoesOn
<1>2. \A s \in Sessions : Owns(s)'
  BY AttemptsAreNat DEF Numbering, Owns, NoneTaken, GoesOn
<1>3. QED
  BY <1>1, <1>2 DEF Numbering, GoesOn
LEMMA StaysOn == ASSUME Numbering, NEW s \in Sessions PROVE GoesOn(hook[s], hook[s])
  BY DEF Numbering, GoesOn
LEMMA IdsEnd ==
    ASSUME Typed, Numbering, attempts' = attempts, NoneTaken, NEW s \in Sessions, End(s)
    PROVE  Numbering'
<1>1. GoesOn(hook[s], Idle)
  BY DEF GoesOn, Shape, Idle
<1>2. QED
  BY <1>1, Ends, StaysOn, IdsKept
LEMMA IdsMove ==
    ASSUME Typed, Numbering, attempts' = attempts, NoneTaken, NEW s \in Sessions, NEW h, Become(s, h), GoesOn(hook[s], h)
    PROVE  Numbering'
  BY Becomes, StaysOn, IdsKept
LEMMA IdsRest ==
    ASSUME Typed, Numbering, UNCHANGED <<attempts, hook>>, NoneTaken
    PROVE  Numbering'
  BY StaysOn, IdsKept
LEMMA NoRowNoneTaken == ASSUME UNCHANGED <<item, lapse>> PROVE NoneTaken
  BY DEF NoneTaken
LEMMA ReleaseTakesNone == ASSUME Typed, NEW s \in Sessions, GiveUp(s) PROVE NoneTaken
<1>1. release_surface_attempt(s)
  BY DEF GiveUp
<1>2. \A i \in Items : [item[i] EXCEPT !.attempt = 0].attempt = 0
  BY DEF Typed, ItemRows
<1>3. \A l \in Lapses : [lapse[l] EXCEPT !.attempt = 0].attempt = 0
  BY DEF Typed, LapseRows
<1>4. QED
  BY <1>1, <1>2, <1>3, ReleaseTyped DEF NoneTaken

LEMMA BeginTurnIds == ASSUME Typed, Numbering, NEW s \in Sessions, BeginTurn(s) PROVE Numbering'
<1> DEFINE d == post_speech_candidate
<1>1. /\ attempts' = attempts + 1 /\ hook[s].pc = "idle" /\ UNCHANGED <<item, lapse>>
  BY DEF BeginTurn, store
<1>2. /\ \A r \in Sessions \ {s} : hook'[r] = hook[r]
      /\ Shape(hook'[s]) /\ hook'[s].attempt \in {0, attempts + 1}
      /\ (hook'[s].kept = {} /\ hook'[s].lapses = {}) \/ hook'[s] = hook[s]
  <2>1. CASE Become(s, [Idle EXCEPT !.pc = "note", !.post = d, !.shown = speech[d].of])
    <3> DEFINE h == [Idle EXCEPT !.pc = "note", !.post = d, !.shown = speech[d].of]
    <3>1. h.pc = "note" /\ h.attempt = 0 /\ h.kept = {} /\ h.lapses = {}
      BY DEF Idle
    <3>2. hook'[s] = h /\ \A r \in Sessions \ {s} : hook'[r] = hook[r]
      BY <2>1, Becomes
    <3>3. QED
      BY <3>1, <3>2 DEF Shape
  <2>2. CASE UNCHANGED hook
    BY <1>1, <2>2 DEF Numbering, Shape
  <2>3. ASSUME NEW pc \in {"list", "touch"},
               Become(s, [Idle EXCEPT !.pc = pc, !.attempt = attempts + 1, !.post = d])
        PROVE  <1>2!:
    <3> DEFINE h == [Idle EXCEPT !.pc = pc, !.attempt = attempts + 1, !.post = d]
    <3>1. h.pc = pc /\ h.attempt = attempts + 1 /\ h.kept = {} /\ h.lapses = {}
      BY DEF Idle
    <3>2. hook'[s] = h /\ \A r \in Sessions \ {s} : hook'[r] = hook[r]
      BY <2>3, Becomes
    <3>3. attempts + 1 # 0
      BY AttemptsAreNat
    <3>4. QED
      BY <2>3, <3>1, <3>2, <3>3 DEF Shape
  <2>4. QED
    BY <2>1, <2>2, <2>3 DEF BeginTurn, _post_speech_note
<1>3. Numbered'
  BY <1>1, <1>2, AttemptsAreNat DEF Numbering, Numbered
<1>4. ASSUME NEW r \in Sessions PROVE Owns(r)'
  <2>1. CASE hook'[r] = hook[r]
    BY <1>1, <2>1 DEF Numbering, Owns
  <2>2. CASE r = s /\ hook'[s].attempt = attempts + 1
    BY <1>1, <2>2, AttemptsAreNat DEF Numbering, Numbered, Owns
  <2>3. CASE r = s /\ hook'[s].attempt = 0
    BY <2>3 DEF Owns
  <2>4. QED
    BY <1>2, <2>1, <2>2, <2>3
<1>5. QED
  BY <1>2, <1>3, <1>4 DEF Numbering

LEMMA ListIds == ASSUME Typed, Numbering, NEW s \in Sessions, List(s) PROVE Numbering'
<1>1. PICK picked \in SUBSET Items, more \in BOOLEAN :
        Become(s, [hook[s] EXCEPT !.pc = "select", !.todo = picked, !.more = more,
                                  !.lapses = list_untold_lapses])
  BY DEF List, list_surface_rows
<1> DEFINE h == [hook[s] EXCEPT !.pc = "select", !.todo = picked, !.more = more, !.lapses = list_untold_lapses]
<1>2. hook[s] \in HookRows /\ hook[s].pc = "list" /\ hook[s].lapses = {} /\ hook[s].attempt # 0
  BY DEF Typed, List, Numbering, Shape
<1>3. h.pc = "select" /\ h.attempt = hook[s].attempt /\ h.kept = hook[s].kept
  BY <1>2 DEF HookRows
<1>4. GoesOn(hook[s], h)
  BY <1>2, <1>3 DEF GoesOn, Shape
<1>5. attempts' = attempts /\ NoneTaken
  BY NoRowNoneTaken DEF List, store
<1>6. QED
  BY <1>1, <1>4, <1>5, IdsMove

LEMMA provisional_selectIds ==
    ASSUME Typed, Numbering, NEW s \in Sessions, NEW i \in Items, provisional_select(s, i)
    PROVE  Numbering'
<1>1. /\ hook[s] \in HookRows /\ hook[s].pc = "select" /\ hook[s].attempt # 0
      /\ UNCHANGED <<lapse, attempts>>
  BY DEF Typed, provisional_select, Numbering, Shape
<1>2. CASE /\ item' = [item EXCEPT ![i].attempt = hook[s].attempt]
           /\ Become(s, [hook[s] EXCEPT !.todo = @ \ {i}, !.kept = @ \cup {i}])
  <2> DEFINE h == [hook[s] EXCEPT !.todo = @ \ {i}, !.kept = @ \cup {i}]
  <2>1. /\ h.pc = "select" /\ h.attempt = hook[s].attempt /\ h.kept = hook[s].kept \cup {i}
        /\ h.lapses = hook[s].lapses
    BY <1>1 DEF HookRows
  <2>2. hook'[s] = h /\ \A r \in Sessions \ {s} : hook'[r] = hook[r]
    BY <1>2, Becomes
  <2>3. /\ item'[i].attempt = hook[s].attempt
        /\ \A j \in Items \ {i} : item'[j] = item[j]
    BY <1>2 DEF Typed, ItemRows
  <2> HIDE DEF h
  <2>4. Numbered'
    BY <1>1, <2>1, <2>2, <2>3, AttemptsAreNat DEF Numbering, Numbered
  <2>5. Owns(s)' /\ Shape(hook'[s])
    BY <1>1, <2>1, <2>2, <2>3 DEF Numbering, Owns, Shape
  <2>6. ASSUME NEW r \in Sessions \ {s} PROVE Owns(r)' /\ Shape(hook'[r])
    BY <1>1, <2>2, <2>3 DEF Numbering, Numbered, Owns
  <2>7. QED
    BY <2>4, <2>5, <2>6 DEF Numbering
<1>3. CASE UNCHANGED item /\ Become(s, [hook[s] EXCEPT !.todo = @ \ {i}, !.more = TRUE])
  <2> DEFINE h == [hook[s] EXCEPT !.todo = @ \ {i}, !.more = TRUE]
  <2>1. h.pc = "select" /\ h.attempt = hook[s].attempt /\ h.kept = hook[s].kept /\ h.lapses = hook[s].lapses
    BY <1>1 DEF HookRows
  <2>2. GoesOn(hook[s], h)
    BY <1>1, <2>1 DEF GoesOn, Shape
  <2>3. QED
    BY <1>1, <1>3, <2>2, NoRowNoneTaken, IdsMove
<1>4. QED
  BY <1>2, <1>3 DEF provisional_select

LEMMA _finish_textIds == ASSUME Typed, Numbering, NEW s \in Sessions, _finish_text(s) PROVE Numbering'
<1>1. /\ hook[s] \in HookRows /\ hook[s].pc = "select" /\ hook[s].attempt # 0 /\ attempts' = attempts
  BY DEF Typed, _finish_text, Numbering, Shape
<1>2. CASE GiveUp(s)
  BY <1>1, <1>2, ReleaseTakesNone, IdsEnd DEF GiveUp
<1>3. CASE Become(s, [hook[s] EXCEPT !.pc = "lapses", !.more = FALSE]) /\ UNCHANGED <<item, lapse>>
  <2> DEFINE h == [hook[s] EXCEPT !.pc = "lapses", !.more = FALSE]
  <2>1. h.pc = "lapses" /\ h.attempt = hook[s].attempt /\ h.kept = hook[s].kept /\ h.lapses = hook[s].lapses
    BY <1>1 DEF HookRows
  <2>2. GoesOn(hook[s], h)
    BY <1>1, <2>1 DEF GoesOn, Shape
  <2>3. QED
    BY <1>1, <1>3, <2>2, NoRowNoneTaken, IdsMove
<1>4. QED
  BY <1>2, <1>3 DEF _finish_text

LEMMA note_lapse_attemptIds == ASSUME Typed, Numbering, NEW s \in Sessions, note_lapse_attempt(s) PROVE Numbering'
<1> DEFINE h == [hook[s] EXCEPT !.pc = "seal"]
<1>1. /\ hook[s] \in HookRows /\ hook[s].pc = "lapses" /\ hook[s].attempt # 0 /\ attempts' = attempts
  BY DEF Typed, note_lapse_attempt, Numbering, Shape
<1>2. CASE GiveUp(s)
  BY <1>1, <1>2, ReleaseTakesNone, IdsEnd DEF GiveUp
<1>3. CASE /\ Become(s, h) /\ UNCHANGED item
           /\ lapse' = [l \in Lapses |-> IF l \in hook[s].lapses THEN [lapse[l] EXCEPT !.attempt = hook[s].attempt]
                                         ELSE lapse[l]]
  <2>1. h.pc = "seal" /\ h.attempt = hook[s].attempt /\ h.kept = hook[s].kept /\ h.lapses = hook[s].lapses
    BY <1>1 DEF HookRows
  <2>2. hook'[s] = h /\ \A r \in Sessions \ {s} : hook'[r] = hook[r]
    BY <1>3, Becomes
  <2>3. /\ \A l \in hook[s].lapses : l \in Lapses /\ lapse'[l].attempt = hook[s].attempt
        /\ \A l \in Lapses \ hook[s].lapses : lapse'[l] = lapse[l]
    BY <1>1, <1>3 DEF Typed, LapseRows, HookRows
  <2> HIDE DEF h
  <2>4. Numbered'
    BY <1>1, <1>3, <2>1, <2>2, <2>3, AttemptsAreNat DEF Numbering, Numbered
  <2>5. Owns(s)' /\ Shape(hook'[s])
    BY <1>1, <1>3, <2>1, <2>2, <2>3 DEF Numbering, Owns, Shape
  <2>6. ASSUME NEW r \in Sessions \ {s} PROVE Owns(r)' /\ Shape(hook'[r])
    BY <1>1, <1>3, <2>2, <2>3 DEF Numbering, Numbered, Owns
  <2>7. QED
    BY <2>4, <2>5, <2>6 DEF Numbering
<1>4. QED
  BY <1>2, <1>3 DEF note_lapse_attempt

LEMMA SealIds == ASSUME Typed, Numbering, NEW s \in Sessions, Seal(s) PROVE Numbering'
<1>1. /\ hook[s] \in HookRows /\ hook[s].pc = "seal" /\ hook[s].attempt # 0 /\ attempts' = attempts
  BY DEF Typed, Seal, Numbering, Shape
<1>2. CASE GiveUp(s)
  BY <1>1, <1>2, ReleaseTakesNone, IdsEnd DEF GiveUp
<1>3. ASSUME NEW post,
             Become(s, [hook[s] EXCEPT !.pc = "model", !.shown = hook[s].kept \cup hook[s].lapses, !.post = post]),
             UNCHANGED <<item, lapse>>
      PROVE  Numbering'
  <2> DEFINE h == [hook[s] EXCEPT !.pc = "model", !.shown = hook[s].kept \cup hook[s].lapses, !.post = post]
  <2>1. /\ h.pc = "model" /\ h.attempt = hook[s].attempt /\ h.kept = hook[s].kept /\ h.lapses = hook[s].lapses
        /\ h.shown = hook[s].kept \cup hook[s].lapses
    BY <1>1 DEF HookRows
  <2>2. GoesOn(hook[s], h)
    BY <1>1, <2>1 DEF GoesOn, Shape
  <2>3. QED
    BY <1>1, <1>3, <2>2, NoRowNoneTaken, IdsMove
<1>4. QED
  BY <1>2, <1>3 DEF Seal

LEMMA confirm_surface_attemptIds ==
    ASSUME Typed, Numbering, NEW s \in Sessions, confirm_surface_attempt(s)
    PROVE  Numbering'
<1>1. /\ hook[s] \in HookRows /\ hook[s].pc = "model" /\ hook[s].attempt # 0 /\ attempts' = attempts
  BY ConfirmCases DEF Typed, Numbering, Shape
<1>2. CASE Become(s, [hook[s] EXCEPT !.pc = "mark"]) /\ UNCHANGED <<item, lapse>>
  <2> DEFINE h == [hook[s] EXCEPT !.pc = "mark"]
  <2>1. h.pc = "mark" /\ h.attempt = hook[s].attempt /\ h.kept = hook[s].kept /\ h.lapses = hook[s].lapses
    BY <1>1 DEF HookRows
  <2>2. GoesOn(hook[s], h)
    BY <1>1, <2>1 DEF GoesOn, Shape
  <2>3. QED
    BY <1>1, <1>2, <2>2, NoRowNoneTaken, IdsMove
<1>3. ASSUME NEW counted \in {Counted(s), {}}, NEW told, Confirmed(s, counted, told)
      PROVE  Numbering'
  <2>1. PICK ok \in BOOLEAN : ok = (counted \cup told # {})
    OBVIOUS
  <2> DEFINE h == [hook[s] EXCEPT !.pc = "mark", !.ok = ok]
  <2>2. h.pc = "mark" /\ h.attempt = hook[s].attempt /\ h.kept = hook[s].kept /\ h.lapses = hook[s].lapses
    BY <1>1 DEF HookRows
  <2>3. Become(s, h)
    BY <1>3, <2>1 DEF Confirmed, Become
  <2>4. GoesOn(hook[s], h)
    BY <1>1, <2>2 DEF GoesOn, Shape
  <2>5. \A i \in Items : item'[i].attempt \in {item[i].attempt, 0}
    <3>1. ASSUME NEW i \in counted, i \in Items PROVE item'[i].attempt = 0
      BY <1>3, <3>1 DEF Confirmed, Typed, ItemRows
    <3>2. ASSUME NEW i \in Items \ counted PROVE item'[i] = item[i]
      BY <1>3, <3>2 DEF Confirmed
    <3>3. QED
      BY <3>1, <3>2
  <2>6. \A l \in Lapses : lapse'[l].attempt = lapse[l].attempt
    BY <1>3 DEF Confirmed, Typed, LapseRows
  <2> HIDE DEF h
  <2>7. NoneTaken
    BY <2>5, <2>6 DEF NoneTaken
  <2>8. QED
    BY <1>1, <2>3, <2>4, <2>7, IdsMove
<1>4. QED
  BY <1>2, <1>3, ConfirmCases

LEMMA _post_llmIds == ASSUME Typed, Numbering, NEW s \in Sessions, _post_llm(s) PROVE Numbering'
<1> DEFINE h == [hook[s] EXCEPT !.pc = "post"]
<1>1. /\ hook[s] \in HookRows /\ hook[s].pc = "mark" /\ hook[s].attempt # 0 /\ attempts' = attempts
      /\ lapse' = lapse
  BY DEF Typed, _post_llm, Numbering, Shape
<1>2. h.pc = "post" /\ h.attempt = hook[s].attempt /\ h.kept = hook[s].kept /\ h.lapses = hook[s].lapses
  BY <1>1 DEF HookRows
<1>3. GoesOn(hook[s], h)
  BY <1>1, <1>2 DEF GoesOn, Shape
<1>4. NoneTaken
  <2>1. CASE UNCHANGED item
    BY <1>1, <2>1, NoRowNoneTaken
  <2>2. ASSUME NEW named, mark_possibly_surfaced(named) PROVE NoneTaken
    BY <1>1, <2>2 DEF mark_possibly_surfaced, NoneTaken, Typed, ItemRows
  <2>3. QED
    BY <2>1, <2>2 DEF _post_llm
<1>5. QED
  BY <1>1, <1>3, <1>4, IdsMove, IdsEnd DEF _post_llm

LEMMA EndsIds ==
    ASSUME Typed, Numbering, NEW s \in Sessions, write_surface_marker(s) \/ note_post_speech(s) \/ TurnDies(s)
    PROVE  Numbering'
  BY NoRowNoneTaken, IdsEnd DEF write_surface_marker, note_post_speech, TurnDies, store
LEMMA PendingIds ==
    ASSUME Typed, Numbering, NEW s \in Sessions, _pending_list(s) \/ _pending_change(s) \/ HandlesAge(s)
    PROVE  Numbering'
<1>1. UNCHANGED <<attempts, hook, lapse>>
  BY DEF _pending_list, _pending_change, HandlesAge, store
<1>2. NoneTaken
  <2>1. CASE UNCHANGED item
    BY <1>1, <2>1, NoRowNoneTaken
  <2>2. ASSUME NEW changed, dismiss_item(changed) PROVE NoneTaken
    BY <1>1, <2>2 DEF dismiss_item, NoneTaken, Typed, ItemRows
  <2>3. QED
    BY <2>1, <2>2 DEF _pending_list, _pending_change, HandlesAge, store
<1>3. QED
  BY <1>1, <1>2, IdsRest
LEMMA RestIds ==
    ASSUME Typed, Numbering,
           \/ \E i \in Items : Arrive(i) \/ Speak(i) \/ QuietPasses(i)
           \/ \E d \in Speeches : WindowPasses(d)
           \/ GapPasses
    PROVE  Numbering'
<1>1. UNCHANGED <<attempts, hook, lapse>>
  BY DEF Arrive, Speak, QuietPasses, WindowPasses, GapPasses
<1>2. NoneTaken
  <2>1. CASE UNCHANGED item
    BY <1>1, <2>1, NoRowNoneTaken
  <2>2. ASSUME NEW i \in Items, Arrive(i) \/ QuietPasses(i) PROVE NoneTaken
    BY <1>1, <2>2 DEF Arrive, QuietPasses, NoneTaken, Typed, ItemRows
  <2>3. QED
    BY <2>1, <2>2 DEF Speak, WindowPasses, GapPasses
<1>3. QED
  BY <1>1, <1>2, IdsRest

-----------------------------------------------------------------------------
(* What may become of an item, at any step.                                *)

\* A row that carries an attempt was not told, or had rested.
Rested == \A i \in Items : item[i].attempt > 0 => item[i].conv = "none" \/ item[i].rested

\* It is not taken in again, nor opened again, nor untold.
ItemGoesOn(x, y) ==
    /\ x.st # "new" => y.st # "new" /\ (y.st = "open" => x.st = "open")
    /\ y.conv = "none" => x.conv = "none"
    /\ y.told >= x.told
\* A step that counts nothing.
Uncounted(x, y) ==
    /\ ItemGoesOn(x, y) /\ y.told = x.told
    /\ x.conv = "none" \/ x.rested => y.conv = "none" \/ y.rested
ItemStays(x, y) ==
    /\ Uncounted(x, y)
    /\ y.attempt \in {x.attempt, 0}
LEMMA SameItemStays == ASSUME NEW x \in ItemRows PROVE ItemStays(x, x)
  BY Numerals DEF ItemStays, Uncounted, ItemGoesOn, ItemRows
LEMMA RestedKept ==
    ASSUME Typed, Rested, \A i \in Items : ItemStays(item[i], item'[i])
    PROVE  Rested' /\ \A i \in Items : Uncounted(item[i], item'[i])
  BY AttemptsAreNat DEF Rested, ItemStays, Uncounted

LEMMA StepItemStays ==
    ASSUME Typed, NEW x \in ItemRows
    PROVE  /\ ItemStays(x, [x EXCEPT !.attempt = 0])
           /\ x.conv = "selected" => ItemStays(x, [x EXCEPT !.conv = "possibly_surfaced"]) \/ ~x.rested
           /\ ItemStays(x, [x EXCEPT !.st = "done"])
           /\ x.st = "new" => ItemStays(x, [x EXCEPT !.st = "open"])
           /\ ItemStays(x, [x EXCEPT !.rested = TRUE])
<1>1. x.told \in Nat /\ x.attempt \in Nat
  BY Numerals DEF ItemRows
<1>2. QED
  BY <1>1 DEF ItemStays, Uncounted, ItemGoesOn, ItemRows
LEMMA RowsStay ==
    ASSUME Typed, Rested,
           \/ UNCHANGED item \/ (\E s \in Sessions : release_surface_attempt(s)) \/ (\E is : dismiss_item(is))
           \/ \E i \in Items : Arrive(i) \/ QuietPasses(i)
    PROVE  Rested' /\ \A i \in Items : Uncounted(item[i], item'[i])
<1>1. \A i \in Items : item[i] \in ItemRows
  BY DEF Typed
<1>2. UNCHANGED item => \A i \in Items : ItemStays(item[i], item'[i])
  BY <1>1, SameItemStays
<1>3. ASSUME NEW s \in Sessions, release_surface_attempt(s) PROVE \A i \in Items : ItemStays(item[i], item'[i])
  <2>1. \A i \in Items : ItemStays(item[i], item[i]) /\ ItemStays(item[i], [item[i] EXCEPT !.attempt = 0])
    BY <1>1, SameItemStays, StepItemStays
  <2>2. \A i \in Items : item'[i] \in {item[i], [item[i] EXCEPT !.attempt = 0]}
    BY <1>3, ReleaseTyped
  <2>3. QED
    BY <2>1, <2>2
<1>4. ASSUME NEW is, dismiss_item(is) PROVE \A i \in Items : ItemStays(item[i], item'[i])
  BY <1>1, <1>4, SameItemStays, StepItemStays DEF dismiss_item
<1>5. ASSUME NEW j \in Items, Arrive(j) PROVE \A i \in Items : ItemStays(item[i], item'[i])
  BY <1>1, <1>5, SameItemStays, StepItemStays DEF Arrive, Typed
<1>6. ASSUME NEW j \in Items, QuietPasses(j) PROVE \A i \in Items : ItemStays(item[i], item'[i])
  BY <1>1, <1>6, SameItemStays, StepItemStays DEF QuietPasses, Typed
<1>7. \A i \in Items : ItemStays(item[i], item'[i])
  BY <1>1, <1>2, <1>3, <1>4, <1>5, <1>6, SameItemStays
<1>8. QED
  BY <1>7, RestedKept

\* The hook after the model marks the items that the reply names.
LEMMA MarkedStay ==
    ASSUME Typed, Rested, NEW named, mark_possibly_surfaced(named)
    PROVE  Rested' /\ \A i \in Items : Uncounted(item[i], item'[i])
<1>1. \A i \in Items : item[i] \in ItemRows
  BY DEF Typed
<1>2. ASSUME NEW i \in Items
      PROVE  Uncounted(item[i], item'[i]) /\ (item'[i].attempt > 0 => item'[i].conv = "none" \/ item'[i].rested)
  <2>1. CASE item'[i] = item[i]
    BY <1>1, <2>1, SameItemStays DEF ItemStays, Rested
  <2>2. CASE item[i].conv = "selected" /\ item'[i] = [item[i] EXCEPT !.conv = "possibly_surfaced"]
    <3>1. /\ item'[i].st = item[i].st /\ item'[i].told = item[i].told /\ item'[i].attempt = item[i].attempt
          /\ item'[i].rested = item[i].rested /\ item'[i].conv = "possibly_surfaced"
      BY <1>1, <2>2 DEF ItemRows
    <3>2. item[i].told \in Nat /\ item[i].attempt \in Nat
      BY <1>1, Numerals DEF ItemRows
    <3>3. QED
      BY <2>2, <3>1, <3>2 DEF Uncounted, ItemGoesOn, Rested
  <2>3. QED
    BY <2>1, <2>2 DEF mark_possibly_surfaced
<1>3. QED
  BY <1>2 DEF Rested

\* A selection takes an item that may be offered.
LEMMA SelectedStay ==
    ASSUME Typed, Rested, NEW s \in Sessions, NEW i \in Items, provisional_select(s, i)
    PROVE  Rested' /\ \A j \in Items : Uncounted(item[j], item'[j])
<1>1. \A j \in Items : item[j] \in ItemRows
  BY DEF Typed
<1>2. CASE UNCHANGED item
  BY <1>2, RowsStay
<1>3. CASE _offerable(i) /\ item' = [item EXCEPT ![i].attempt = hook[s].attempt]
  <2>1. \A j \in Items \ {i} : item'[j] = item[j]
    BY <1>3 DEF Typed
  <2>2. /\ item'[i].st = item[i].st /\ item'[i].told = item[i].told
        /\ item'[i].rested = item[i].rested /\ item'[i].conv = item[i].conv
    BY <1>1, <1>3 DEF Typed, ItemRows
  <2>3. item[i].conv = "none" \/ item[i].rested
    BY <1>3 DEF _offerable
  <2>4. Uncounted(item[i], item'[i])
    BY <1>1, <2>2, Numerals DEF Uncounted, ItemGoesOn, ItemRows
  <2>5. \A j \in Items \ {i} : Uncounted(item[j], item'[j])
    BY <1>1, <2>1, SameItemStays DEF ItemStays
  <2>6. Rested'
    BY <2>1, <2>2, <2>3 DEF Rested
  <2>7. QED
    BY <2>4, <2>5, <2>6
<1>4. QED
  BY <1>2, <1>3 DEF provisional_select

\* A confirmation counts what it counts.
LEMMA CountedGoOn ==
    ASSUME Typed, Rested, NEW s \in Sessions, NEW counted \in {Counted(s), {}}, NEW told,
           Confirmed(s, counted, told)
    PROVE  /\ Rested' /\ \A i \in Items : ItemGoesOn(item[i], item'[i])
           /\ \A i \in Items \ counted : item'[i] = item[i]
<1>1. \A i \in Items : item[i] \in ItemRows /\ item[i].told \in Nat
  BY Numerals DEF Typed, ItemRows
<1>2. \A i \in Items \ counted : item'[i] = item[i]
  BY DEF Confirmed
<1>3. ASSUME NEW i \in Items, i \in counted
      PROVE  ItemGoesOn(item[i], item'[i]) /\ item'[i].attempt = 0
  <2>1. /\ item'[i].st = item[i].st /\ item'[i].told = item[i].told + 1
        /\ item'[i].conv = "selected" /\ item'[i].attempt = 0
    BY <1>1, <1>3 DEF Confirmed, ItemRows
  <2>2. QED
    BY <1>1, <2>1 DEF ItemGoesOn
<1>4. \A i \in Items \ counted : ItemGoesOn(item[i], item'[i])
  BY <1>1, <1>2, SameItemStays DEF ItemStays, Uncounted
<1>5. Rested'
  BY <1>2, <1>3 DEF Rested
<1>6. QED
  BY <1>2, <1>3, <1>4, <1>5

LEMMA EveryItemGoesOn ==
    ASSUME Typed, Rested, Next
    PROVE  /\ Rested' /\ \A i \in Items : ItemGoesOn(item[i], item'[i])
           /\ \/ \A i \in Items : Uncounted(item[i], item'[i])
              \/ \E s \in Sessions : confirm_surface_attempt(s)
<1>1. ASSUME NEW s \in Sessions,
             \/ BeginTurn(s) \/ write_surface_marker(s) \/ List(s)
             \/ _finish_text(s) \/ note_lapse_attempt(s) \/ Seal(s)
             \/ note_post_speech(s) \/ TurnDies(s) \/ _pending_list(s) \/ _pending_change(s) \/ HandlesAge(s)
      PROVE  Rested' /\ \A i \in Items : Uncounted(item[i], item'[i])
  <2>1. UNCHANGED item \/ release_surface_attempt(s) \/ (\E is : dismiss_item(is))
    BY <1>1 DEF BeginTurn, write_surface_marker, List, _finish_text, note_lapse_attempt, Seal, GiveUp,
                note_post_speech, TurnDies, _pending_list, _pending_change, HandlesAge, store
  <2>2. QED
    BY <2>1, RowsStay
<1>2. ASSUME NEW s \in Sessions, NEW i \in Items, provisional_select(s, i)
      PROVE  Rested' /\ \A j \in Items : Uncounted(item[j], item'[j])
  BY <1>2, SelectedStay
<1>3. ASSUME NEW s \in Sessions, confirm_surface_attempt(s)
      PROVE  Rested' /\ \A i \in Items : ItemGoesOn(item[i], item'[i])
  <2>1. CASE UNCHANGED item
    BY <2>1, RowsStay DEF Uncounted
  <2>2. QED
    BY <1>3, <2>1, ConfirmCases, CountedGoOn
<1>4. ASSUME NEW s \in Sessions, _post_llm(s)
      PROVE  Rested' /\ \A i \in Items : Uncounted(item[i], item'[i])
  <2>1. CASE UNCHANGED item
    BY <2>1, RowsStay
  <2>2. QED
    BY <1>4, <2>1, MarkedStay DEF _post_llm
<1>5. ASSUME \/ \E i \in Items : Arrive(i) \/ Speak(i) \/ QuietPasses(i)
             \/ \E d \in Speeches : WindowPasses(d)
             \/ GapPasses
      PROVE  Rested' /\ \A i \in Items : Uncounted(item[i], item'[i])
  <2>1. UNCHANGED item \/ \E i \in Items : Arrive(i) \/ QuietPasses(i)
    BY <1>5 DEF Speak, WindowPasses, GapPasses
  <2>2. QED
    BY <2>1, RowsStay
<1>6. QED
  BY <1>1, <1>2, <1>3, <1>4, <1>5 DEF Next, Uncounted

-----------------------------------------------------------------------------
(* A turn, from one transaction to the next.                               *)

\* The items that the hook listed and has not dropped.
Held(h) == h.todo \cup h.kept
Offered == {i \in list_surface_rows : _offerable(i)}
TaintDue(h) == (h.pc \in {"lapses", "seal"} /\ h.kept \cap Mail # {}) \/ h.shown \cap Mail # {}
\* Nothing that can be offered was left out.
Whole(h) == h.pc = "select" /\ ~h.more

Onward(r) ==
    /\ tainted \subseteq tainted' /\ (TaintDue(hook'[r]) => r \in tainted')
    /\ Held(hook'[r]) \subseteq Held(hook[r]) \cup list_surface_rows
    /\ Whole(hook'[r]) => \/ Whole(hook[r]) /\ Held(hook[r]) \subseteq Held(hook'[r])
                          \/ Offered \subseteq Held(hook'[r])
    /\ hook'[r].pc = "touch" => ~_gap_open \/ hook'[r] = hook[r]
    /\ hook'[r].pc = "mark" => hook'[r] = hook[r] \/ confirm_surface_attempt(r)
Forward == \A r \in Sessions : Onward(r)

\* The session is tainted when it is given retrieved text, or is about to be.
TaintKept == \A s \in Sessions : TaintDue(hook[s]) => s \in tainted

LEMMA EndForward == ASSUME Typed, TaintKept, NEW s \in Sessions, End(s), UNCHANGED tainted PROVE Forward
<1>1. Idle.pc = "idle" /\ Idle.shown = {} /\ Idle.todo = {} /\ Idle.kept = {}
  BY DEF Idle
<1>2. QED
  BY <1>1, Ends DEF Forward, Onward, TaintDue, Held, Whole, TaintKept

LEMMA BeginTurnForward ==
    ASSUME Typed, Numbering, TaintKept, NEW s \in Sessions, BeginTurn(s)
    PROVE  Forward
<1> DEFINE d == post_speech_candidate
<1>1. hook[s].pc = "idle"
  BY DEF BeginTurn
<1>2. CASE UNCHANGED <<hook, tainted>>
  BY <1>1, <1>2 DEF Forward, Onward, TaintKept, Whole
<1>3. CASE Become(s, [Idle EXCEPT !.pc = "note", !.post = d, !.shown = speech[d].of]) /\ _mark(s, speech[d].of)
  <2> DEFINE h == [Idle EXCEPT !.pc = "note", !.post = d, !.shown = speech[d].of]
  <2>1. h.pc = "note" /\ h.todo = {} /\ h.kept = {} /\ h.shown = speech[d].of
    BY DEF Idle
  <2>2. hook'[s] = h /\ \A r \in Sessions \ {s} : hook'[r] = hook[r]
    BY <1>3, Becomes
  <2> HIDE DEF h
  <2>3. QED
    BY <1>1, <1>3, <2>1, <2>2, MarkTyped DEF Forward, Onward, TaintDue, Held, Whole, TaintKept
<1>4. ASSUME NEW pc \in {"list", "touch"}, pc = "touch" => ~_gap_open, UNCHANGED tainted,
             Become(s, [Idle EXCEPT !.pc = pc, !.attempt = attempts + 1, !.post = d])
      PROVE  Forward
  <2> DEFINE h == [Idle EXCEPT !.pc = pc, !.attempt = attempts + 1, !.post = d]
  <2>1. h.pc = pc /\ h.todo = {} /\ h.kept = {} /\ h.shown = {}
    BY DEF Idle
  <2>2. hook'[s] = h /\ \A r \in Sessions \ {s} : hook'[r] = hook[r]
    BY <1>4, Becomes
  <2> HIDE DEF h
  <2>3. QED
    BY <1>4, <2>1, <2>2 DEF Forward, Onward, TaintDue, Held, Whole, TaintKept
<1>5. QED
  BY <1>1, <1>2, <1>3, <1>4 DEF BeginTurn, _post_speech_note

LEMMA ListForward == ASSUME Typed, Numbering, TaintKept, NEW s \in Sessions, List(s) PROVE Forward
<1>1. PICK picked \in SUBSET Offered, more \in BOOLEAN :
        /\ more = (picked # Offered)
        /\ Become(s, [hook[s] EXCEPT !.pc = "select", !.todo = picked, !.more = more,
                                     !.lapses = list_untold_lapses])
  BY DEF List, Offered
<1> DEFINE h == [hook[s] EXCEPT !.pc = "select", !.todo = picked, !.more = more, !.lapses = list_untold_lapses]
<1>2. h.pc = "select" /\ h.todo = picked /\ h.kept = hook[s].kept /\ h.shown = hook[s].shown /\ h.more = more
  BY DEF Typed, HookRows
<1>3. hook'[s] = h /\ \A r \in Sessions \ {s} : hook'[r] = hook[r]
  BY <1>1, Becomes
<1>4. UNCHANGED tainted /\ Offered \subseteq list_surface_rows
  BY DEF List, Offered
<1> HIDE DEF h
<1>5. QED
  BY <1>1, <1>2, <1>3, <1>4 DEF Forward, Onward, TaintDue, Held, Whole, TaintKept

LEMMA provisional_selectForward ==
    ASSUME Typed, Numbering, TaintKept, NEW s \in Sessions, NEW i \in Items, provisional_select(s, i)
    PROVE  Forward
<1>1. hook[s] \in HookRows /\ hook[s].pc = "select" /\ i \in hook[s].todo /\ UNCHANGED tainted
  BY DEF Typed, provisional_select
<1>2. CASE Become(s, [hook[s] EXCEPT !.todo = @ \ {i}, !.kept = @ \cup {i}])
  <2> DEFINE h == [hook[s] EXCEPT !.todo = @ \ {i}, !.kept = @ \cup {i}]
  <2>1. /\ h.pc = "select" /\ h.todo = hook[s].todo \ {i} /\ h.kept = hook[s].kept \cup {i}
        /\ h.shown = hook[s].shown /\ h.more = hook[s].more
    BY <1>1 DEF HookRows
  <2>2. hook'[s] = h /\ \A r \in Sessions \ {s} : hook'[r] = hook[r]
    BY <1>2, Becomes
  <2> HIDE DEF h
  <2>3. QED
    BY <1>1, <2>1, <2>2 DEF Forward, Onward, TaintDue, Held, Whole, TaintKept
<1>3. CASE Become(s, [hook[s] EXCEPT !.todo = @ \ {i}, !.more = TRUE])
  <2> DEFINE h == [hook[s] EXCEPT !.todo = @ \ {i}, !.more = TRUE]
  <2>1. /\ h.pc = "select" /\ h.todo = hook[s].todo \ {i} /\ h.kept = hook[s].kept
        /\ h.shown = hook[s].shown /\ h.more
    BY <1>1 DEF HookRows
  <2>2. hook'[s] = h /\ \A r \in Sessions \ {s} : hook'[r] = hook[r]
    BY <1>3, Becomes
  <2> HIDE DEF h
  <2>3. QED
    BY <1>1, <2>1, <2>2 DEF Forward, Onward, TaintDue, Held, Whole, TaintKept
<1>4. QED
  BY <1>2, <1>3 DEF provisional_select

LEMMA _finish_textForward == ASSUME Typed, Numbering, TaintKept, NEW s \in Sessions, _finish_text(s) PROVE Forward
<1>1. CASE GiveUp(s) /\ UNCHANGED tainted
  BY <1>1, EndForward DEF GiveUp
<1>2. CASE Become(s, [hook[s] EXCEPT !.pc = "lapses", !.more = FALSE]) /\ _mark(s, hook[s].kept)
  <2> DEFINE h == [hook[s] EXCEPT !.pc = "lapses", !.more = FALSE]
  <2>1. h.pc = "lapses" /\ h.todo = hook[s].todo /\ h.kept = hook[s].kept /\ h.shown = hook[s].shown
    BY DEF Typed, HookRows
  <2>2. hook'[s] = h /\ \A r \in Sessions \ {s} : hook'[r] = hook[r]
    BY <1>2, Becomes
  <2> HIDE DEF h
  <2>3. QED
    BY <1>2, <2>1, <2>2, MarkTyped DEF Forward, Onward, TaintDue, Held, Whole, TaintKept
<1>3. QED
  BY <1>1, <1>2 DEF _finish_text

LEMMA note_lapse_attemptForward ==
    ASSUME Typed, Numbering, TaintKept, NEW s \in Sessions, note_lapse_attempt(s)
    PROVE  Forward
<1>1. hook[s].pc = "lapses" /\ UNCHANGED tainted
  BY DEF note_lapse_attempt
<1>2. CASE GiveUp(s)
  BY <1>1, <1>2, EndForward DEF GiveUp
<1>3. CASE Become(s, [hook[s] EXCEPT !.pc = "seal"])
  <2> DEFINE h == [hook[s] EXCEPT !.pc = "seal"]
  <2>1. h.pc = "seal" /\ h.todo = hook[s].todo /\ h.kept = hook[s].kept /\ h.shown = hook[s].shown
    BY DEF Typed, HookRows
  <2>2. hook'[s] = h /\ \A r \in Sessions \ {s} : hook'[r] = hook[r]
    BY <1>3, Becomes
  <2> HIDE DEF h
  <2>3. QED
    BY <1>1, <2>1, <2>2 DEF Forward, Onward, TaintDue, Held, Whole, TaintKept
<1>4. QED
  BY <1>2, <1>3 DEF note_lapse_attempt

\* Items are not watches: a lapse is not retrieved text.
LEMMA SealForward == ASSUME Typed, Numbering, TaintKept, NEW s \in Sessions, Seal(s) PROVE Forward
<1>1. hook[s].pc = "seal" /\ UNCHANGED tainted /\ hook[s] \in HookRows
  BY DEF Seal, Typed
<1>2. CASE GiveUp(s)
  BY <1>1, <1>2, EndForward DEF GiveUp
<1>3. ASSUME NEW post,
             Become(s, [hook[s] EXCEPT !.pc = "model", !.shown = hook[s].kept \cup hook[s].lapses, !.post = post])
      PROVE  Forward
  <2> DEFINE h == [hook[s] EXCEPT !.pc = "model", !.shown = hook[s].kept \cup hook[s].lapses, !.post = post]
  <2>1. /\ h.pc = "model" /\ h.todo = hook[s].todo /\ h.kept = hook[s].kept
        /\ h.shown = hook[s].kept \cup hook[s].lapses
    BY <1>1 DEF HookRows
  <2>2. hook'[s] = h /\ \A r \in Sessions \ {s} : hook'[r] = hook[r]
    BY <1>3, Becomes
  <2>3. hook[s].lapses \cap Mail = {}
    BY <1>1, SurfaceParameters DEF HookRows
  <2> HIDE DEF h
  <2>4. QED
    BY <1>1, <2>1, <2>2, <2>3 DEF Forward, Onward, TaintDue, Held, Whole, TaintKept
<1>4. QED
  BY <1>2, <1>3 DEF Seal

\* After the model nothing is listed, and nothing more is shown.
LEMMA AfterForward ==
    ASSUME Typed, Numbering, TaintKept, NEW s \in Sessions, confirm_surface_attempt(s) \/ _post_llm(s)
    PROVE  Forward
<1>1. UNCHANGED tainted /\ hook[s] \in HookRows
  BY DEF confirm_surface_attempt, _post_llm, Typed
<1>2. CASE End(s)
  BY <1>1, <1>2, EndForward
<1>3. ASSUME NEW pc \in {"mark", "post"}, NEW ok \in BOOLEAN, pc = "post" \/ confirm_surface_attempt(s),
             Become(s, [hook[s] EXCEPT !.pc = pc, !.ok = ok])
      PROVE  Forward
  <2> DEFINE h == [hook[s] EXCEPT !.pc = pc, !.ok = ok]
  <2>1. h.pc = pc /\ h.todo = hook[s].todo /\ h.kept = hook[s].kept /\ h.shown = hook[s].shown
    BY <1>1 DEF HookRows
  <2>2. hook'[s] = h /\ \A r \in Sessions \ {s} : hook'[r] = hook[r]
    BY <1>3, Becomes
  <2> HIDE DEF h
  <2>3. QED
    BY <1>1, <1>3, <2>1, <2>2 DEF Forward, Onward, TaintDue, Held, Whole, TaintKept
<1>4. ASSUME NEW pc \in {"mark", "post"}, pc = "post" \/ confirm_surface_attempt(s), Become(s, [hook[s] EXCEPT !.pc = pc])
      PROVE  Forward
  <2>1. hook[s].ok \in BOOLEAN /\ [hook[s] EXCEPT !.pc = pc] = [hook[s] EXCEPT !.pc = pc, !.ok = hook[s].ok]
    BY <1>1 DEF HookRows
  <2>2. QED
    BY <1>3, <1>4, <2>1
<1>5. CASE confirm_surface_attempt(s)
  <2>1. CASE Become(s, [hook[s] EXCEPT !.pc = "mark"])
    BY <1>4, <1>5, <2>1
  <2>2. ASSUME NEW counted, NEW told, Confirmed(s, counted, told) PROVE Forward
    <3>1. PICK ok \in BOOLEAN : ok = (counted \cup told # {})
      OBVIOUS
    <3>2. QED
      BY <1>3, <1>5, <2>2, <3>1 DEF Confirmed, Become
  <2>3. QED
    BY <1>5, <2>1, <2>2, ConfirmCases
<1>6. CASE _post_llm(s)
  BY <1>2, <1>4, <1>6 DEF _post_llm
<1>7. QED
  BY <1>5, <1>6

LEMMA OtherForward ==
    ASSUME Typed, Numbering, TaintKept,
           \/ \E s \in Sessions :
                 \/ write_surface_marker(s) \/ note_post_speech(s) \/ TurnDies(s)
                 \/ _pending_list(s) \/ _pending_change(s) \/ HandlesAge(s)
           \/ (\E i \in Items : Arrive(i) \/ Speak(i) \/ QuietPasses(i))
           \/ (\E d \in Speeches : WindowPasses(d))
           \/ GapPasses
    PROVE  Forward
<1>1. CASE UNCHANGED hook /\ tainted \subseteq tainted'
  BY <1>1 DEF Forward, Onward, TaintKept, Whole
<1>2. ASSUME NEW s \in Sessions, _pending_list(s) PROVE UNCHANGED hook /\ tainted \subseteq tainted'
  BY <1>2, MarkTyped DEF _pending_list
<1>3. QED
  BY <1>1, <1>2, EndForward DEF write_surface_marker, note_post_speech, TurnDies, _pending_change, HandlesAge,
                                Arrive, Speak, QuietPasses, WindowPasses, GapPasses

-----------------------------------------------------------------------------
(* What is owed keeps the gap open.                                        *)

\* What was told of, not counted since, and may be offered.
Due == {i \in owed : _offerable(i)}
\* What a hook holds was taken in before.
Seen ==
    /\ \A s \in Sessions : \A i \in Held(hook[s]) : item[i].st # "new"
    /\ \A i \in owed : item[i].st # "new"
\* What is owed does not rest: nobody told it anew.
OwedRests == \A i \in owed : item[i].conv = "none" \/ item[i].rested
\* A hook that may move the clock owes nothing that is not in its block.
Clear(s) ==
    /\ hook[s].pc = "touch" => ~_gap_open
    /\ Whole(hook[s]) => Due \subseteq Held(hook[s])
Races == raced \/ \A s \in Sessions : Clear(s)
\* A turn that counted has left no row of its own that could still be told.
CountedAll ==
    \A s \in Sessions \ missed : hook[s].pc = "mark" =>
        \A i \in Items : item[i].attempt = hook[s].attempt => ~(Open(i) /\ item[i].told < ReinjectCap)
Told == Seen /\ OwedRests /\ Races /\ CountedAll

\* What a step does to the items and hooks, whatever it is.
Goes == /\ Typed /\ Numbering /\ Typed' /\ Forward
        /\ \A i \in Items : ItemGoesOn(item[i], item'[i])
        /\ (\A i \in Items : Uncounted(item[i], item'[i])) \/ \E s \in Sessions : confirm_surface_attempt(s)
Confirms == \E s \in Sessions : confirm_surface_attempt(s)

LEMMA DueIsOffered == ASSUME Typed PROVE Due \subseteq Offered
  BY DEF Due, Offered, list_surface_rows, _offerable, Typed

LEMMA SeenKept ==
    ASSUME Goes, Seen, owed' \subseteq owed \/ \E s \in Sessions : owed' \subseteq owed \cup Held(hook[s])
    PROVE  Seen'
<1>1. \A i \in Items : item[i].st # "new" => item'[i].st # "new"
  BY DEF Goes, ItemGoesOn
<1>2. \A i \in list_surface_rows : i \in Items /\ item[i].st # "new"
  BY DEF list_surface_rows, Open
<1>3. \A r \in Sessions : Held(hook[r]) \subseteq Items
  BY DEF Goes, Typed, HookRows, Held
<1>4. \A r \in Sessions : \A i \in Held(hook'[r]) : i \in Items /\ item[i].st # "new"
  BY <1>2, <1>3 DEF Goes, Seen, Forward, Onward
<1>5. \A i \in owed' : i \in Items /\ item[i].st # "new"
  BY <1>3 DEF Goes, Seen, Typed
<1>6. QED
  BY <1>1, <1>4, <1>5 DEF Seen, Held

LEMMA DueShrinks ==
    ASSUME Goes, Seen, OwedRests, owed' \subseteq owed
    PROVE  Due' \subseteq Due
<1> SUFFICES ASSUME NEW i \in Due' PROVE i \in Due
  OBVIOUS
<1>1. i \in owed' /\ item'[i].st = "open" /\ item'[i].told < ReinjectCap
  BY DEF Due, _offerable, Open
<1>2. i \in owed /\ i \in Items /\ item[i].st # "new"
  BY <1>1 DEF Goes, Seen, Typed
<1>3. item[i].st = "open"
  BY <1>1, <1>2 DEF Goes, ItemGoesOn
<1>4. item[i].told \in Nat /\ item'[i].told \in Nat /\ item[i].told <= item'[i].told
  BY <1>2, Numerals DEF Goes, Typed, ItemRows, ItemGoesOn
<1>5. item[i].told < ReinjectCap
  BY <1>1, <1>4, Numerals
<1>6. QED
  BY <1>2, <1>3, <1>5 DEF Due, _offerable, Open, OwedRests

\* A step that is not a seal and does not open the gap.
LEMMA RacesKept ==
    ASSUME Goes, Seen, OwedRests, Races, owed' \subseteq owed, raced' = raced, _gap_open' => _gap_open
    PROVE  Races'
<1> SUFFICES ASSUME ~raced', NEW r \in Sessions PROVE Clear(r)'
  BY DEF Races
<1>1. Due' \subseteq Due /\ Clear(r) /\ Onward(r)
  BY DueShrinks DEF Races, Goes, Forward
<1>2. hook'[r].pc = "touch" => ~_gap_open
  BY <1>1 DEF Onward, Clear
<1>3. Whole(hook'[r]) => Due \subseteq Held(hook'[r])
  BY <1>1, DueIsOffered DEF Goes, Onward, Clear
<1>4. QED
  BY <1>1, <1>2, <1>3 DEF Clear, Whole, Held

\* The rows of a turn that has counted stay as they are; no other turn has its attempt.
LEMMA AttemptsStay ==
    ASSUME Typed, Numbering, Next, NEW i \in Items
    PROVE  \/ item'[i].attempt \in {item[i].attempt, 0}
           \/ \E s \in Sessions : hook[s].pc = "select" /\ hook'[s].pc = "select" /\ item'[i].attempt = hook[s].attempt
<1>1. CASE NoneTaken
  BY <1>1 DEF NoneTaken
<1>2. ASSUME NEW s \in Sessions, NEW j \in Items, provisional_select(s, j)
      PROVE  \/ item'[i].attempt \in {item[i].attempt, 0}
             \/ hook[s].pc = "select" /\ hook'[s].pc = "select" /\ item'[i].attempt = hook[s].attempt
  <2>1. hook[s].pc = "select" /\ hook'[s].pc = "select"
    <3>1. hook[s] \in HookRows /\ hook[s].pc = "select"
      BY <1>2 DEF provisional_select, Typed
    <3>2. CASE Become(s, [hook[s] EXCEPT !.todo = @ \ {j}, !.kept = @ \cup {j}])
      <4> DEFINE h == [hook[s] EXCEPT !.todo = @ \ {j}, !.kept = @ \cup {j}]
      <4>1. h.pc = "select"
        BY <3>1 DEF HookRows
      <4>2. hook'[s] = h
        BY <3>2, Becomes
      <4>3. QED
        BY <3>1, <4>1, <4>2
    <3>3. CASE Become(s, [hook[s] EXCEPT !.todo = @ \ {j}, !.more = TRUE])
      <4> DEFINE h == [hook[s] EXCEPT !.todo = @ \ {j}, !.more = TRUE]
      <4>1. h.pc = "select"
        BY <3>1 DEF HookRows
      <4>2. hook'[s] = h
        BY <3>3, Becomes
      <4>3. QED
        BY <3>1, <4>1, <4>2
    <3>4. QED
      BY <1>2, <3>2, <3>3 DEF provisional_select
  <2>2. item' = item \/ item' = [item EXCEPT ![j].attempt = hook[s].attempt]
    BY <1>2 DEF provisional_select
  <2>3. QED
    BY <2>1, <2>2 DEF Typed, ItemRows
<1>3. ASSUME NEW s \in Sessions, confirm_surface_attempt(s) PROVE item'[i].attempt \in {item[i].attempt, 0}
  <2>1. CASE UNCHANGED item
    BY <2>1
  <2>2. ASSUME NEW counted, NEW told, Confirmed(s, counted, told) PROVE item'[i].attempt \in {item[i].attempt, 0}
    <3>1. i \in counted => item'[i].attempt = 0
      BY <2>2 DEF Confirmed, Typed, ItemRows
    <3>2. i \notin counted => item'[i] = item[i]
      BY <2>2 DEF Confirmed
    <3>3. QED
      BY <3>1, <3>2
  <2>3. QED
    BY <1>3, <2>1, <2>2, ConfirmCases
<1>4. ASSUME NEW s \in Sessions, _post_llm(s) PROVE item'[i].attempt \in {item[i].attempt, 0}
  BY <1>4 DEF _post_llm, mark_possibly_surfaced, Typed, ItemRows
<1>5. ASSUME NEW s \in Sessions,
             \/ BeginTurn(s) \/ write_surface_marker(s) \/ List(s) \/ _finish_text(s) \/ note_lapse_attempt(s) \/ Seal(s)
             \/ note_post_speech(s) \/ TurnDies(s) \/ _pending_list(s) \/ _pending_change(s) \/ HandlesAge(s)
      PROVE  item'[i].attempt \in {item[i].attempt, 0}
  <2>1. UNCHANGED item \/ GiveUp(s) \/ \E is : dismiss_item(is)
    BY <1>5 DEF BeginTurn, write_surface_marker, List, _finish_text, note_lapse_attempt, Seal, note_post_speech,
                TurnDies, _pending_list, _pending_change, HandlesAge, store
  <2>2. GiveUp(s) => item'[i].attempt \in {item[i].attempt, 0}
    BY ReleaseTakesNone DEF NoneTaken
  <2>3. (\E is : dismiss_item(is)) => item'[i].attempt \in {item[i].attempt, 0}
    BY DEF dismiss_item, Typed, ItemRows
  <2>4. QED
    BY <2>1, <2>2, <2>3
<1>6. ASSUME \/ \E j \in Items : Arrive(j) \/ Speak(j) \/ QuietPasses(j)
             \/ \E d \in Speeches : WindowPasses(d)
             \/ GapPasses
      PROVE  item'[i].attempt \in {item[i].attempt, 0}
  <2>1. ASSUME NEW j \in Items, Arrive(j) \/ QuietPasses(j) PROVE item'[i].attempt = item[i].attempt
    BY <2>1 DEF Arrive, QuietPasses, Typed, ItemRows
  <2>2. UNCHANGED item \/ \E j \in Items : Arrive(j) \/ QuietPasses(j)
    BY <1>6 DEF Speak, WindowPasses, GapPasses
  <2>3. QED
    BY <2>1, <2>2
<1>7. QED
  BY <1>2, <1>3, <1>4, <1>5, <1>6 DEF Next

\* The turns other than those that end in this step.
LEMMA CountedKept ==
    ASSUME Goes, Seen, CountedAll, Next, NEW r \in Sessions, hook'[r].pc = "mark", hook'[r] = hook[r], r \notin missed,
           NEW i \in Items, item'[i].attempt = hook'[r].attempt
    PROVE  ~(Open(i)' /\ item'[i].told < ReinjectCap)
<1>1. hook[r].attempt # 0 /\ hook[r].attempt \in Nat
  BY AttemptsAreNat DEF Goes, Numbering, Shape
<1>2. item[i].attempt = hook[r].attempt
  <2>1. ASSUME NEW s \in Sessions, hook[s].pc = "select", item'[i].attempt = hook[s].attempt PROVE FALSE
    <3>1. hook[r].attempt = hook[s].attempt /\ hook[s].attempt > 0
      BY <1>1, <2>1
    <3>2. r = s
      BY <3>1 DEF Goes, Numbering, Numbered
    <3>3. QED
      BY <2>1, <3>2
  <2>2. QED
    BY <1>1, <2>1, AttemptsStay DEF Goes
<1>3. ~(Open(i) /\ item[i].told < ReinjectCap)
  BY <1>2 DEF CountedAll
<1>4. item[i].st # "new"
  <2>1. i \in hook[r].kept
    BY <1>1, <1>2 DEF Goes, Numbering, Owns
  <2>2. QED
    BY <2>1 DEF Seen, Held
<1>5. item[i].told \in Nat /\ item'[i].told \in Nat /\ item'[i].told >= item[i].told
  BY Numerals DEF Goes, Typed, ItemRows, ItemGoesOn
<1>6. item'[i].st = "open" => item[i].st = "open"
  BY <1>4 DEF Goes, ItemGoesOn
<1>7. QED
  BY <1>3, <1>5, <1>6, Numerals DEF Open

\* A step other than a seal, a confirmation and the passing of the gap.
LEMMA ToldKept ==
    ASSUME Goes, Told, Next, ~Confirms, owed' = owed, raced' = raced, _gap_open' => _gap_open,
           \A r \in Sessions : hook'[r].pc = "mark" /\ r \in missed => r \in missed'
    PROVE  Told'
<1>1. Seen' /\ Races'
  BY SeenKept, RacesKept DEF Told
<1>2. OwedRests'
  <2>1. \A i \in owed : i \in Items /\ Uncounted(item[i], item'[i])
    BY DEF Goes, Typed, Confirms
  <2>2. QED
    BY <2>1 DEF Told, OwedRests, Uncounted
<1>3. ASSUME NEW r \in Sessions, r \notin missed', hook'[r].pc = "mark"
      PROVE  hook'[r] = hook[r] /\ r \notin missed
  BY <1>3 DEF Goes, Forward, Onward, Confirms
<1>4. CountedAll'
  BY <1>3, CountedKept DEF Told, CountedAll
<1>5. QED
  BY <1>1, <1>2, <1>4 DEF Told

LEMMA ConfirmTold ==
    ASSUME Goes, Told, Next, NEW s \in Sessions, confirm_surface_attempt(s)
    PROVE  Told'
<1>0. Typed /\ hook[s].pc = "model" /\ hook[s] \in HookRows /\ hook[s].attempt # 0 /\ UNCHANGED <<marker, raced>>
  BY ConfirmCases DEF Goes, Typed, Numbering, Shape
<1>1. /\ owed' \subseteq owed /\ missed \subseteq missed' /\ missed' \subseteq missed \cup {s}
      /\ \A i \in owed' : item'[i] = item[i]
      /\ s \notin missed' => \A i \in Items : item'[i].attempt = hook[s].attempt => i \notin Counted(s) /\ item'[i] = item[i]
  <2>1. CASE UNCHANGED <<item, owed>> /\ missed' = missed \cup {s}
    BY <2>1
  <2>2. ASSUME NEW counted \in {Counted(s), {}}, NEW told, Confirmed(s, counted, told), owed' = owed \ counted,
               missed' = IF counted = Counted(s) THEN missed ELSE missed \cup {s}
        PROVE  /\ owed' \subseteq owed /\ missed \subseteq missed' /\ missed' \subseteq missed \cup {s}
               /\ \A i \in owed' : item'[i] = item[i]
               /\ s \notin missed' => \A i \in Items : item'[i].attempt = hook[s].attempt => i \notin Counted(s) /\ item'[i] = item[i]
    <3>1. \A i \in Items \ counted : item'[i] = item[i]
      BY <2>2 DEF Confirmed
    <3>2. \A i \in Items : i \in counted => item'[i].attempt = 0
      BY <1>0, <2>2 DEF Confirmed, Typed, ItemRows
    <3>3. \A i \in owed' : i \in Items \ counted
      BY <1>0, <2>2 DEF Typed
    <3>4. s \notin missed' => counted = Counted(s)
      BY <2>2
    <3>5. QED
      BY <1>0, <2>2, <3>1, <3>2, <3>3, <3>4
  <2>3. QED
    BY <2>1, <2>2, ConfirmCases
<1>2. Seen' /\ Races'
  <2>1. _gap_open' = _gap_open
    BY <1>0 DEF _gap_open
  <2>2. QED
    BY <1>0, <1>1, <2>1, SeenKept, RacesKept DEF Told
<1>3. OwedRests'
  BY <1>1 DEF Told, OwedRests
<1>4. ASSUME s \notin missed', NEW i \in Items, item'[i].attempt = hook'[s].attempt
      PROVE  ~(Open(i)' /\ item'[i].told < ReinjectCap)
  <2>1. hook'[s].attempt = hook[s].attempt
    <3>1. CASE Become(s, [hook[s] EXCEPT !.pc = "mark"])
      <4> DEFINE h == [hook[s] EXCEPT !.pc = "mark"]
      <4>1. h.attempt = hook[s].attempt
        BY <1>0 DEF HookRows
      <4>2. hook'[s] = h
        BY <1>0, <3>1, Becomes
      <4>3. QED
        BY <4>1, <4>2
    <3>2. ASSUME NEW counted, NEW told, Confirmed(s, counted, told) PROVE hook'[s].attempt = hook[s].attempt
      <4>1. PICK ok \in BOOLEAN : ok = (counted \cup told # {})
        OBVIOUS
      <4> DEFINE h == [hook[s] EXCEPT !.pc = "mark", !.ok = ok]
      <4>2. h.attempt = hook[s].attempt
        BY <1>0 DEF HookRows
      <4>3. Become(s, h)
        BY <3>2, <4>1 DEF Confirmed, Become
      <4>4. hook'[s] = h
        BY <1>0, <4>3, Becomes
      <4>5. QED
        BY <4>2, <4>4
    <3>3. QED
      BY <3>1, <3>2, ConfirmCases
  <2>2. i \notin Counted(s) /\ item'[i] = item[i]
    BY <1>1, <1>4, <2>1
  <2>3. QED
    BY <1>4, <2>1, <2>2 DEF Counted, Open
<1>5. ASSUME NEW r \in Sessions, r # s PROVE hook'[r] = hook[r]
  <2>1. \E h : Become(s, h)
    BY ConfirmCases DEF Confirmed, Become
  <2>2. QED
    BY <1>0, <1>5, <2>1, Becomes
<1>6. CountedAll'
  <2> SUFFICES ASSUME NEW r \in Sessions, r \notin missed', hook'[r].pc = "mark",
                      NEW i \in Items, item'[i].attempt = hook'[r].attempt
               PROVE  ~(Open(i)' /\ item'[i].told < ReinjectCap)
    BY DEF CountedAll
  <2>1. CASE r = s
    BY <1>4, <2>1
  <2>2. CASE r # s
    BY <1>1, <1>5, <2>2, CountedKept DEF Told
  <2>3. QED
    BY <2>1, <2>2
<1>7. QED
  BY <1>2, <1>3, <1>6 DEF Told

LEMMA SealTold ==
    ASSUME Goes, Told, Next, ~Confirms, NEW s \in Sessions, Seal(s)
    PROVE  Told'
<1>0. hook[s].pc = "seal" /\ missed' = missed
  BY DEF Seal
<1>1. CASE UNCHANGED <<marker, owed, raced>>
  BY <1>0, <1>1, ToldKept DEF _gap_open
<1>2. CASE /\ SetMarker(hook[s].attempt, FALSE) /\ item' = item
           /\ owed' = owed \cup {i \in hook[s].kept : _offerable(i)}
           /\ raced' = \E r \in Sessions \ {s} : hook[r].pc \in Before
  <2>1. Seen'
    BY <1>2, SeenKept DEF Held, Told
  <2>2. OwedRests'
    BY <1>2 DEF Told, OwedRests, _offerable
  <2>3. Races'
    <3>1. hook[s] \in HookRows
      BY DEF Goes, Typed
    <3>2. hook'[s].pc \notin Before /\ \A r \in Sessions \ {s} : hook'[r] = hook[r]
      <4>1. CASE End(s)
        BY <4>1, Ends DEF Goes, Idle, Before
      <4>2. ASSUME NEW post,
                   Become(s, [hook[s] EXCEPT !.pc = "model", !.shown = hook[s].kept \cup hook[s].lapses, !.post = post])
            PROVE  hook'[s].pc \notin Before /\ \A r \in Sessions \ {s} : hook'[r] = hook[r]
        <5> DEFINE h == [hook[s] EXCEPT !.pc = "model", !.shown = hook[s].kept \cup hook[s].lapses, !.post = post]
        <5>1. h.pc = "model"
          BY <3>1 DEF HookRows
        <5>2. hook'[s] = h /\ \A r \in Sessions \ {s} : hook'[r] = hook[r]
          BY <4>2, Becomes DEF Goes
        <5> HIDE DEF h
        <5>3. QED
          BY <5>1, <5>2 DEF Before
      <4>3. QED
        BY <4>1, <4>2 DEF Seal, GiveUp
    <3>3. QED
      BY <1>2, <3>2 DEF Races, Clear, Whole, Before
  <2>4. ASSUME NEW r \in Sessions, r \notin missed', hook'[r].pc = "mark"
        PROVE  hook'[r] = hook[r] /\ r \notin missed
    BY <1>0, <2>4 DEF Goes, Forward, Onward, Confirms
  <2>5. CountedAll'
    BY <2>4, CountedKept DEF Told, CountedAll
  <2>6. QED
    BY <2>1, <2>2, <2>3, <2>5 DEF Told
<1>3. QED
  BY <1>1, <1>2 DEF Seal

LEMMA GapTold == ASSUME Goes, Told, Next, GapPasses PROVE Told'
<1>1. UNCHANGED <<item, hook, owed, missed>> /\ raced' = IF _gap_open THEN raced ELSE \E s \in Sessions : hook[s].pc \in Before
  BY DEF GapPasses
<1>2. Seen' /\ OwedRests' /\ CountedAll'
  BY <1>1 DEF Told, Seen, Held, OwedRests, CountedAll, Open
<1>3. Races'
  <2>1. Due' = Due
    BY <1>1 DEF Due, _offerable, Open
  <2>2. CASE _gap_open
    BY <1>1, <2>1, <2>2 DEF Told, Races, Clear, Whole, Held
  <2>3. CASE ~_gap_open
    BY <1>1, <2>3 DEF Races, Clear, Whole, Before
  <2>4. QED
    BY <2>2, <2>3
<1>4. QED
  BY <1>2, <1>3 DEF Told

LEMMA EveryTold == ASSUME Goes, Told, Next PROVE Told'
<1>1. CASE Confirms
  BY <1>1, ConfirmTold DEF Confirms
<1>2. CASE GapPasses
  BY <1>2, GapTold
<1>3. ASSUME ~Confirms, NEW s \in Sessions, Seal(s) PROVE Told'
  BY <1>3, SealTold
<1>4. ASSUME ~Confirms, NEW s \in Sessions, write_surface_marker(s) \/ _finish_text(s) PROVE Told'
  <2>1. UNCHANGED history /\ (marker' = marker \/ SetMarker(0, TRUE))
    BY <1>4 DEF write_surface_marker, _finish_text
  <2>2. _gap_open' => _gap_open
    BY <2>1 DEF _gap_open, SetMarker
  <2>3. QED
    BY <1>4, <2>1, <2>2, ToldKept DEF history
<1>5. ASSUME ~Confirms, NEW s \in Sessions, _post_llm(s) \/ TurnDies(s) PROVE Told'
  <2>1. UNCHANGED <<owed, raced>> /\ missed' = missed \ {s}
    BY <1>5 DEF _post_llm, TurnDies
  <2>2. _gap_open' => _gap_open
    BY <1>5 DEF _gap_open, _post_llm, mark_surface_confirmed, TurnDies, store, Goes, Typed, Markers
  <2>3. hook'[s].pc # "mark"
    <3>1. Idle.pc = "idle" /\ hook[s] \in HookRows
      BY DEF Idle, Goes, Typed
    <3>2. \E h : Become(s, h) /\ h.pc # "mark"
      BY <1>5, <3>1 DEF _post_llm, TurnDies, End, HookRows
    <3>3. QED
      BY <3>2, Becomes DEF Goes
  <2>4. QED
    BY <1>5, <2>1, <2>2, <2>3, ToldKept
<1>6. ASSUME ~Confirms, UNCHANGED <<marker, history>> PROVE Told'
  BY <1>6, ToldKept DEF history, _gap_open
<1>7. ASSUME NEW s \in Sessions,
             \/ BeginTurn(s) \/ List(s) \/ (\E i \in Items : provisional_select(s, i)) \/ note_lapse_attempt(s)
             \/ note_post_speech(s) \/ _pending_list(s) \/ _pending_change(s) \/ HandlesAge(s)
      PROVE  UNCHANGED <<marker, history>>
  BY <1>7 DEF BeginTurn, List, provisional_select, note_lapse_attempt, note_post_speech,
              _pending_list, _pending_change, HandlesAge, store
<1>8. ASSUME \/ \E i \in Items : Arrive(i) \/ Speak(i) \/ QuietPasses(i)
             \/ \E d \in Speeches : WindowPasses(d)
      PROVE  UNCHANGED <<marker, history>>
  BY <1>8 DEF Arrive, Speak, QuietPasses, WindowPasses
<1>9. QED
  BY <1>1, <1>2, <1>3, <1>4, <1>5, <1>6, <1>7, <1>8 DEF Next, Confirms

\* What closes the gap over an item that is owed.
RetoldStep ==
    \A i \in owed' : _offerable(i) /\ _gap_open /\ ~_gap_open' =>
        \/ \E s \in Sessions : /\ hook[s].pc = "mark" /\ marker.attempt = hook[s].attempt
                              /\ (s \in missed \/ item[i].attempt # hook[s].attempt)
        \/ (raced /\ marker'.attempt = 0)

LEMMA StepRetells == ASSUME Goes, Told, Next PROVE RetoldStep
<1> SUFFICES ASSUME NEW i \in owed', _offerable(i), _gap_open, ~_gap_open'
             PROVE  \/ \E s \in Sessions : /\ hook[s].pc = "mark" /\ marker.attempt = hook[s].attempt
                                         /\ (s \in missed \/ item[i].attempt # hook[s].attempt)
                    \/ (raced /\ marker'.attempt = 0)
  BY DEF RetoldStep
<1>1. marker' # marker /\ i \in Items
  BY DEF _gap_open, Goes, Typed
<1>2. ~GapPasses
  BY DEF GapPasses, _gap_open, Goes, Typed, Markers
<1>3. ASSUME NEW s \in Sessions, Seal(s) PROVE FALSE
  <2>1. hook[s].attempt # 0
    BY <1>3 DEF Seal, Goes, Numbering, Shape
  <2>2. SetMarker(hook[s].attempt, FALSE)
    BY <1>1, <1>3 DEF Seal
  <2>3. marker'.attempt = hook[s].attempt /\ marker'.confirmed = FALSE
    BY <2>2 DEF SetMarker
  <2>4. QED
    BY <2>1, <2>3 DEF _gap_open
<1>4. ASSUME NEW s \in Sessions, write_surface_marker(s) PROVE raced /\ marker'.attempt = 0
  BY <1>1, <1>4 DEF write_surface_marker, SetMarker, Told, Races, Clear
<1>5. ASSUME NEW s \in Sessions, _finish_text(s) PROVE raced /\ marker'.attempt = 0
  <2>1. hook[s].pc = "select" /\ hook[s].todo = {} /\ hook[s].kept = {} /\ ~hook[s].more /\ marker'.attempt = 0
    BY <1>1, <1>5 DEF _finish_text, SetMarker
  <2>2. i \in Due
    BY <1>5 DEF _finish_text, history, Due
  <2>3. QED
    BY <2>1, <2>2 DEF Told, Races, Clear, Whole, Held
<1>6. ASSUME NEW s \in Sessions, _post_llm(s)
      PROVE  /\ hook[s].pc = "mark" /\ marker.attempt = hook[s].attempt
             /\ (s \in missed \/ item[i].attempt # hook[s].attempt)
  <2>1. hook[s].pc = "mark" /\ marker.attempt = hook[s].attempt
    BY <1>1, <1>6 DEF _post_llm, mark_surface_confirmed
  <2>2. QED
    BY <1>1, <2>1 DEF Told, CountedAll, _offerable
<1>7. ASSUME NEW s \in Sessions,
             \/ BeginTurn(s) \/ List(s) \/ (\E j \in Items : provisional_select(s, j)) \/ note_lapse_attempt(s)
             \/ confirm_surface_attempt(s) \/ note_post_speech(s) \/ TurnDies(s)
             \/ _pending_list(s) \/ _pending_change(s) \/ HandlesAge(s)
      PROVE  FALSE
  BY <1>1, <1>7 DEF BeginTurn, List, provisional_select, note_lapse_attempt, confirm_surface_attempt, note_post_speech,
                    TurnDies, _pending_list, _pending_change, HandlesAge, store
<1>8. ASSUME \/ \E j \in Items : Arrive(j) \/ Speak(j) \/ QuietPasses(j)
             \/ \E d \in Speeches : WindowPasses(d)
      PROVE  FALSE
  BY <1>1, <1>8 DEF Arrive, Speak, QuietPasses, WindowPasses
<1>9. QED
  BY <1>2, <1>3, <1>4, <1>5, <1>6, <1>7, <1>8 DEF Next

-----------------------------------------------------------------------------
(* The inductive invariant.                                                *)

IInv == Typed /\ Numbering /\ Rested /\ TaintKept /\ Told

LEMMA Initially == Init => IInv
<1> SUFFICES ASSUME Init PROVE IInv
  OBVIOUS
<1>1. Typed
  BY InitTyped
<1>2. \A s \in Sessions : hook[s] = Idle
  BY DEF Init
<1>3. /\ Idle.pc = "idle" /\ Idle.attempt = 0 /\ Idle.todo = {} /\ Idle.kept = {} /\ Idle.lapses = {}
      /\ Idle.shown = {} /\ Idle.more = FALSE
  BY DEF Idle
<1>4. /\ attempts = 0 /\ \A i \in Items : item[i].attempt = 0
      /\ \A l \in Lapses : lapse[l].attempt = 0
  BY DEF Init
<1>5. Numbering
  BY <1>2, <1>3, <1>4 DEF Numbering, Numbered, Owns, Shape
<1>6. Rested
  BY <1>4 DEF Rested
<1>7. TaintKept
  BY <1>2, <1>3 DEF TaintKept, TaintDue
<1>8. owed = {} /\ Due = {}
  BY DEF Init, Due
<1>9. Seen /\ OwedRests /\ Races /\ CountedAll
  BY <1>2, <1>3, <1>8 DEF Seen, OwedRests, Races, Clear, Whole, Held, CountedAll
<1>10. QED
  BY <1>1, <1>5, <1>6, <1>7, <1>9 DEF IInv, Told

LEMMA NextTyped == ASSUME Typed, Next PROVE Typed'
  BY BeginTurnTyped, write_surface_markerTyped, ListTyped, provisional_selectTyped, _finish_textTyped,
     note_lapse_attemptTyped, SealTyped, confirm_surface_attemptTyped, _post_llmTyped, note_post_speechTyped,
     TurnDiesTyped, PendingTyped, RestTyped DEF Next
LEMMA NextIds == ASSUME Typed, Numbering, Next PROVE Numbering'
  BY BeginTurnIds, ListIds, provisional_selectIds, _finish_textIds, note_lapse_attemptIds, SealIds,
     confirm_surface_attemptIds, _post_llmIds, EndsIds, PendingIds, RestIds DEF Next
LEMMA NextForward == ASSUME Typed, Numbering, TaintKept, Next PROVE Forward
  BY BeginTurnForward, ListForward, provisional_selectForward, _finish_textForward, note_lapse_attemptForward,
     SealForward, AfterForward, OtherForward DEF Next

LEMMA EveryStep == IInv /\ [Next]_vars => IInv'
<1> SUFFICES ASSUME IInv, [Next]_vars PROVE IInv'
  OBVIOUS
<1>1. CASE Next
  <2>1. Typed /\ Numbering /\ Rested /\ TaintKept /\ Told
    BY DEF IInv
  <2>2. Typed' /\ Numbering' /\ Forward
    BY <1>1, <2>1, NextTyped, NextIds, NextForward
  <2>3. Rested' /\ Goes
    BY <1>1, <2>1, <2>2, EveryItemGoesOn DEF Goes
  <2>4. TaintKept'
    BY <2>2 DEF Forward, Onward, TaintKept, TaintDue
  <2>5. Told'
    BY <1>1, <2>1, <2>3, EveryTold
  <2>6. QED
    BY <2>2, <2>3, <2>4, <2>5 DEF IInv
<1>2. CASE UNCHANGED vars
  BY <1>2 DEF IInv, Typed, Numbering, Numbered, Owns, Shape, Rested, TaintKept, TaintDue, Told, Seen, Races, Clear, Whole,
              Held, Due, OwedRests, CountedAll, _offerable, Open, _gap_open, vars, store, history
<1>3. QED
  BY <1>1, <1>2

LEMMA StepsRetell == IInv /\ [Next]_vars => RetoldStep \/ UNCHANGED vars
<1> SUFFICES ASSUME IInv, Next PROVE RetoldStep
  OBVIOUS
<1>1. Typed /\ Numbering /\ Rested /\ TaintKept /\ Told
  BY DEF IInv
<1>2. Goes
  BY <1>1, NextTyped, NextForward, EveryItemGoesOn DEF Goes
<1>3. QED
  BY <1>1, <1>2, StepRetells

(* The inductive invariant holds in every reachable state.                 *)
THEOREM Invariant == Spec => []IInv
  BY Initially, EveryStep, PTL DEF Spec

(* Every variable keeps its shape: no item is counted more often than the  *)
(* cap, however many sessions took it (confirm_surface_attempt).           *)
THEOREM TypeCorrect == Spec => []TypeOK
<1>1. IInv => TypeOK
  BY TypedIsTypeOK DEF IInv
<1>2. QED
  BY <1>1, Invariant, PTL

(* A session is tainted before the turn is given retrieved text, in the    *)
(* block or in the note on speech, also when the transaction after that is *)
(* refused (_finish_text, _post_speech_note; P9-D10).                      *)
THEOREM TaintedBeforeShown == Spec => []TaintedFirst
<1>1. IInv => TaintedFirst
  BY DEF IInv, TaintKept, TaintDue, TaintedFirst
<1>2. QED
  BY <1>1, Invariant, PTL

(* The gap is closed over an item that was told of and not counted only by *)
(* a turn that ended without counting it: its confirmation was refused or  *)
(* too late, or the row was not its own; or by a turn with nothing to say  *)
(* that was under way when the gap opened (_post_llm, _gap_open).          *)
THEOREM GapStaysForOwed == Spec => OwedKeepsGapOpen
<1>1. IInv /\ [Next]_vars => [RetoldStep]_vars
  BY StepsRetell
<1>2. QED
  BY <1>1, Invariant, PTL DEF Spec, OwedKeepsGapOpen, RetoldStep

-----------------------------------------------------------------------------
(* What is counted was shown.                                              *)

CountStep ==
    /\ \A i \in Items : item'[i].told > item[i].told =>
          /\ \E s \in Sessions : hook[s].pc = "model" /\ hook'[s].pc = "mark" /\ i \in hook[s].shown
          /\ item[i].conv = "none" \/ item[i].rested
    /\ \A l \in Lapses : lapse[l].st # "told" /\ lapse'[l].st = "told" =>
          \E s \in Sessions : hook[s].pc = "model" /\ hook'[s].pc = "mark" /\ l \in hook[s].shown

\* Only a confirmation tells a lapse.
LEMMA LapsesStay ==
    ASSUME Typed, Next
    PROVE  \/ \A l \in Lapses : lapse'[l].st = lapse[l].st
           \/ \E s \in Sessions : confirm_surface_attempt(s)
<1>1. CASE UNCHANGED lapse
  BY <1>1
<1>2. ASSUME NEW s \in Sessions, release_surface_attempt(s) PROVE \A l \in Lapses : lapse'[l].st = lapse[l].st
  BY <1>2 DEF release_surface_attempt, Typed, LapseRows
<1>3. ASSUME NEW s \in Sessions, note_lapse_attempt(s) PROVE \A l \in Lapses : lapse'[l].st = lapse[l].st
  <2>1. CASE GiveUp(s)
    BY <1>2, <2>1 DEF GiveUp
  <2>2. QED
    BY <1>3, <2>1 DEF note_lapse_attempt, Typed, LapseRows
<1>4. ASSUME NEW s \in Sessions, _finish_text(s) \/ Seal(s)
      PROVE  UNCHANGED lapse \/ release_surface_attempt(s)
  BY <1>4 DEF _finish_text, Seal, GiveUp
<1>5. ASSUME NEW s \in Sessions,
             \/ BeginTurn(s) \/ write_surface_marker(s) \/ List(s) \/ (\E i \in Items : provisional_select(s, i))
             \/ _post_llm(s) \/ note_post_speech(s) \/ TurnDies(s)
             \/ _pending_list(s) \/ _pending_change(s) \/ HandlesAge(s)
      PROVE  UNCHANGED lapse
  BY <1>5 DEF BeginTurn, write_surface_marker, List, provisional_select, _post_llm, note_post_speech, TurnDies,
              _pending_list, _pending_change, HandlesAge, store
<1>6. ASSUME \/ \E i \in Items : Arrive(i) \/ Speak(i) \/ QuietPasses(i)
             \/ \E d \in Speeches : WindowPasses(d)
             \/ GapPasses
      PROVE  UNCHANGED lapse
  BY <1>6 DEF Arrive, Speak, QuietPasses, WindowPasses, GapPasses
<1>7. QED
  BY <1>1, <1>2, <1>3, <1>4, <1>5, <1>6 DEF Next

LEMMA ConfirmCounts == ASSUME IInv, NEW s \in Sessions, confirm_surface_attempt(s) PROVE CountStep
<1>1. /\ Typed /\ hook[s] \in HookRows /\ hook[s].pc = "model" /\ hook[s].attempt > 0
      /\ hook[s].kept \cup hook[s].lapses \subseteq hook[s].shown
  <2>1. Typed /\ Shape(hook[s]) /\ hook[s].pc = "model"
    BY ConfirmCases DEF IInv, Numbering
  <2>2. hook[s] \in HookRows
    BY <2>1 DEF Typed
  <2>3. hook[s].attempt \in Nat /\ hook[s].attempt # 0
    BY <2>1, AttemptsAreNat DEF Shape
  <2>4. QED
    BY <2>1, <2>2, <2>3 DEF Shape
<1>2. CASE UNCHANGED <<item, lapse>>
  BY <1>1, <1>2, Numerals DEF CountStep, Typed, ItemRows
<1> DEFINE toldNow == {l \in Lapses : lapse[l].st = "expired" /\ lapse[l].attempt = hook[s].attempt}
<1>3. ASSUME NEW counted \in {Counted(s), {}}, Confirmed(s, counted, toldNow)
      PROVE  CountStep
  <2>1. hook'[s].pc = "mark"
    BY <1>1, <1>3 DEF Confirmed, Typed, HookRows
  <2>2. ASSUME NEW i \in Items, item'[i].told > item[i].told
        PROVE  i \in hook[s].shown /\ (item[i].conv = "none" \/ item[i].rested)
    <3>1. i \in counted
      <4>1. i \notin counted => item'[i] = item[i]
        BY <1>3 DEF Confirmed
      <4>2. item[i].told \in Nat
        BY <1>1, Numerals DEF Typed, ItemRows
      <4>3. QED
        BY <2>2, <4>1, <4>2
    <3>2. item[i].attempt = hook[s].attempt
      BY <3>1 DEF Counted
    <3>3. QED
      BY <1>1, <3>2 DEF IInv, Numbering, Owns, Rested
  <2>3. ASSUME NEW l \in Lapses, lapse[l].st # "told", lapse'[l].st = "told"
        PROVE  l \in hook[s].shown
    <3>1. l \in toldNow
      <4>1. l \notin toldNow => lapse'[l] = lapse[l]
        BY <1>3 DEF Confirmed
      <4>2. QED
        BY <2>3, <4>1
    <3>2. QED
      BY <1>1, <3>1 DEF IInv, Numbering, Owns
  <2>4. QED
    BY <1>1, <2>1, <2>2, <2>3 DEF CountStep
<1>4. QED
  BY <1>2, <1>3, ConfirmCases

LEMMA StepsCount == IInv /\ [Next]_vars => CountStep \/ UNCHANGED vars
<1> SUFFICES ASSUME IInv, Next PROVE CountStep
  OBVIOUS
<1>1. Typed /\ Rested
  BY DEF IInv
<1>2. CASE \E s \in Sessions : confirm_surface_attempt(s)
  BY <1>2, ConfirmCounts
<1>3. CASE ~ \E s \in Sessions : confirm_surface_attempt(s)
  <2>1. \A i \in Items : item'[i].told = item[i].told /\ item[i].told \in Nat
    BY <1>1, <1>3, EveryItemGoesOn, Numerals DEF Uncounted, Typed, ItemRows
  <2>2. \A l \in Lapses : lapse'[l].st = lapse[l].st
    BY <1>1, <1>3, LapsesStay
  <2>3. QED
    BY <2>1, <2>2 DEF CountStep
<1>4. QED
  BY <1>2, <1>3

(* What is counted as told was in the text of the turn that counts it, and *)
(* an item that two sessions took is counted once before it rests          *)
(* (confirm_surface_attempt, provisional_select; P9-D10).                  *)
THEOREM OnlyTheShownIsCounted == Spec => CountedWasShown
<1>1. IInv /\ [Next]_vars => [CountStep]_vars
  BY StepsCount
<1>2. QED
  BY <1>1, Invariant, PTL DEF Spec, CountedWasShown, CountStep

-----------------------------------------------------------------------------
(* Watch: the rows, the question that is open, and what the session holds. *)

Tokens == [action : Questions \cup {"none"}, plan : Plan, armed : BOOLEAN]
Askings == [action : Questions \cup {"none"}, plan : Plan, turn : 0..MaxTurns, used : BOOLEAN]
SessionTyped == listed \subseteq Rows /\ made \subseteq Rows /\ people \in [People -> {None, 0} \cup Rows]

\* A plan has what its answer will use.
PlanFits(action, plan) ==
    /\ action \in {"watch_person", "watch_widen"} => plan.who \in People /\ plan.ids # {}
    /\ action = "watch_person" => plan.channel \in Channels /\ plan.lifetime \in {"once", "standing"}
    /\ action = "forget_widen" => plan.who \in People
    /\ action = "watch_groups" => plan.loop \in Rows
    /\ action = "watch_lifetime" => plan.intent \in {"person", "number"}
\* The open question is the last that was asked, in this turn or, once his words
\* answered it, in the turn before; no yes was taken for it.
TokenAsked == token.action # "none" =>
    /\ asked.action = token.action /\ asked.plan = token.plan /\ ~asked.used
    /\ turn <= asked.turn + (IF token.armed THEN 1 ELSE 0)
    /\ PlanFits(token.action, token.plan)
Question == token \in Tokens /\ asked \in Askings /\ TokenAsked

WInv == WatchTypeOK /\ Question /\ CoverStays

LEMMA Bounds == MaxLoops \in Nat /\ MaxTurns \in Nat /\ MaxEdits \in Nat
  BY WatchParameters

LEMMA NoPlanTyped == NoPlan \in Plan /\ Silence \in Sentence /\ NoRow \in Row /\ NoToken \in Tokens
<1>1. NoPlan \in Plan
  BY DEF NoPlan, Plan
<1>2. Silence \in Sentence
  BY DEF Silence, Sentence, Channels
<1>3. NoRow \in Row
  BY DEF NoRow, Row
<1>4. NoToken \in Tokens
  BY <1>1 DEF NoToken, Tokens
<1>5. QED
  BY <1>1, <1>2, <1>3, <1>4

LEMMA Minted ==
    ASSUME WatchTypeOK, NEW action \in Questions, NEW plan \in Plan, PlanFits(action, plan),
           _mint(action, plan), turn' = turn
    PROVE  Question'
<1>1. action # "none" /\ turn \in 0..MaxTurns
  BY DEF Questions, WatchTypeOK
<1>2. /\ token'.action = action /\ token'.plan = plan /\ token'.armed = FALSE
      /\ asked'.action = action /\ asked'.plan = plan /\ asked'.turn = turn /\ asked'.used = FALSE
  BY DEF _mint
<1>3. token' \in Tokens /\ asked' \in Askings
  BY <1>1 DEF _mint, Tokens, Askings
<1>4. turn' <= asked'.turn + 0
  BY <1>1, <1>2, Bounds
<1>5. TokenAsked'
  BY <1>2, <1>4 DEF TokenAsked, PlanFits
<1>6. QED
  BY <1>3, <1>5 DEF Question

LEMMA NoQuestion ==
    ASSUME Question, token' = NoToken, asked' = asked \/ asked' = [asked EXCEPT !.used = @ \/ token.action # "none"]
    PROVE  Question'
<1>1. PICK used \in BOOLEAN : used = (asked.used \/ token.action # "none")
  OBVIOUS
<1>2. asked' \in Askings
  <2>1. [asked EXCEPT !.used = used] \in Askings
    BY DEF Question, Askings
  <2>2. QED
    BY <1>1, <2>1 DEF Question
<1>3. token' \in Tokens /\ token'.action = "none"
  BY NoPlanTyped DEF NoToken
<1>4. QED
  BY <1>2, <1>3 DEF Question, TokenAsked
LEMMA Popped == ASSUME Question, Pop PROVE Question'
  BY NoQuestion DEF Pop
LEMMA StillOpen == ASSUME Question, UNCHANGED <<token, asked, turn>> PROVE Question'
  BY DEF Question, TokenAsked, PlanFits
LEMMA Refused ==
    ASSUME WatchTypeOK, Question, Refuse
    PROVE  Question' /\ SessionTyped' /\ UNCHANGED loops
  BY Popped DEF Refuse, SessionTyped, WatchTypeOK

\* A row is made in a free place.
Stored(l, row) == l \in Free /\ row \in Row /\ row.st = "open" /\ loops' = [loops EXCEPT ![l] = row]
LEMMA StoreTyped ==
    ASSUME WatchTypeOK, NEW l \in Free, NEW row \in Row, row.who = None \/ row.who \in People, _store_watch(l, row)
    PROVE  SessionTyped' /\ loops' = [loops EXCEPT ![l] = row]
<1>1. l \in Rows
  BY DEF Free
<1>2. listed' \subseteq Rows /\ made' \subseteq Rows
  BY <1>1 DEF _store_watch, WatchTypeOK
<1>3. people' \in [People -> {None, 0} \cup Rows]
  BY <1>1 DEF _store_watch, WatchTypeOK
<1>4. QED
  BY <1>2, <1>3 DEF _store_watch, SessionTyped

LEMMA PredicateTyped ==
    ASSUME WatchTypeOK, NEW plan \in Plan, plan.who \in People, plan.channel \in Channels,
           plan.lifetime \in {"once", "standing"}
    PROVE  /\ _predicate_for(plan) \in Row /\ _predicate_for(plan).st = "open"
           /\ _predicate_for(plan).intent = "person" /\ _predicate_for(plan).who = plan.who
<1>1. OnChannel(book[plan.who], plan.channel) \subseteq Ids
  <2>1. book[plan.who] \subseteq Ids
    BY DEF WatchTypeOK
  <2>2. QED
    BY <2>1 DEF OnChannel, Ids
<1>2. PICK groups \in BOOLEAN : groups = ~plan.direct
  OBVIOUS
<1>3. PICK ids \in SUBSET Ids : ids = OnChannel(book[plan.who], plan.channel)
  BY <1>1
<1> DEFINE row == [st |-> "open", intent |-> "person", who |-> plan.who, ids |-> ids, channel |-> plan.channel,
                   lifetime |-> plan.lifetime, groups |-> groups]
<1>4. row \in Row /\ row.st = "open" /\ row.intent = "person" /\ row.who = plan.who
  BY DEF Row, Channels
<1>5. _predicate_for(plan) = row
  BY <1>2, <1>3, Zenon DEF _predicate_for
<1> HIDE DEF row
<1>6. QED
  BY <1>4, <1>5

LEMMA CommitPlan ==
    ASSUME WatchTypeOK, Question, NEW plan \in Plan, plan.who \in People, plan.channel \in Channels,
           plan.lifetime \in {"once", "standing"}, _commit_person_plan(plan), turn' = turn
    PROVE  /\ Question' /\ SessionTyped'
           /\ UNCHANGED loops \/ (~confirm_stale(plan) /\ \E l \in Rows : Stored(l, _predicate_for(plan)))
<1>1. CASE Refuse
  BY <1>1, Refused
<1>2. ASSUME NEW l \in Free, ~confirm_stale(plan), _store_watch(l, _predicate_for(plan)),
             \/ plan.direct /\ _mint("watch_groups", [NoPlan EXCEPT !.loop = l])
             \/ Pop
      PROVE  /\ Question' /\ SessionTyped'
             /\ Stored(l, _predicate_for(plan))
  <2>1. l \in Rows
    BY DEF Free
  <2>2. [NoPlan EXCEPT !.loop = l] \in Plan /\ [NoPlan EXCEPT !.loop = l].loop = l
    BY <2>1 DEF NoPlan, Plan
  <2>3. PlanFits("watch_groups", [NoPlan EXCEPT !.loop = l]) /\ "watch_groups" \in Questions
    BY <2>1, <2>2 DEF PlanFits, Questions
  <2>4. Question'
    BY <1>2, <2>2, <2>3, Minted, Popped
  <2>5. QED
    BY <1>2, <2>4, PredicateTyped, StoreTyped DEF Stored
<1>3. QED
  <2>1. \A l \in Free : l \in Rows
    BY DEF Free
  <2>2. QED
    BY <1>1, <1>2, <2>1 DEF _commit_person_plan

LEMMA LifetimeTyped ==
    ASSUME NEW s \in Sentence, _lifetime_of(s) # "ask"
    PROVE  _lifetime_of(s) \in {"once", "standing"}
  BY DEF _lifetime_of

LEMMA NumberWatch ==
    ASSUME WatchTypeOK, Question, NEW number \in Texts \cup {None}, number_watch(number), turn' = turn
    PROVE  /\ Question' /\ SessionTyped'
           /\ \E l \in Rows, row \in Row : row.intent = "number" /\ Stored(l, row)
<1>1. number \in Texts /\ number \in Ids
  BY DEF number_watch, Ids
<1> DEFINE row == [NoRow EXCEPT !.st = "open", !.intent = "number", !.ids = {number},
                                !.channel = "text", !.lifetime = "once", !.groups = TRUE]
<1>2. row \in Row /\ row.st = "open" /\ row.intent = "number" /\ row.who = None
  BY <1>1 DEF NoRow, Row, Channels
<1>3. PICK l \in Free : _store_watch(l, row)
  BY DEF number_watch
<1> HIDE DEF row
<1>4. SessionTyped' /\ Stored(l, row)
  BY <1>2, <1>3, StoreTyped DEF Stored
<1>5. ASSUME NEW p \in People, number \in book[p], _mint("watch_widen", [NoPlan EXCEPT !.who = p, !.ids = book[p]])
      PROVE  Question'
  <2> DEFINE plan == [NoPlan EXCEPT !.who = p, !.ids = book[p]]
  <2>1. book[p] \in SUBSET Ids /\ book[p] # {}
    BY <1>5 DEF WatchTypeOK
  <2>2. plan \in Plan /\ plan.who = p /\ plan.ids = book[p]
    BY <2>1 DEF NoPlan, Plan
  <2> HIDE DEF plan
  <2>3. PlanFits("watch_widen", plan) /\ "watch_widen" \in Questions
    BY <2>1, <2>2 DEF PlanFits, Questions
  <2>4. QED
    BY <1>5, <2>2, <2>3, Minted DEF plan
<1>6. Question'
  BY <1>5, Popped DEF number_watch
<1>7. QED
  BY <1>2, <1>4, <1>6 DEF Free

LEMMA PersonWatch ==
    ASSUME WatchTypeOK, Question, NEW name \in Names, NEW s \in Sentence, _lifetime_of(s) # "ask",
           person_watch(name, s), turn' = turn
    PROVE  /\ Question' /\ SessionTyped'
           /\ UNCHANGED loops \/ \E l \in Rows, row \in Row : row.intent = "person" /\ Stored(l, row)
<1> DEFINE plan(p) == [NoPlan EXCEPT !.who = p, !.channel = s.channel, !.lifetime = _lifetime_of(s),
                                     !.direct = _lifetime_of(s) = "standing" /\ s.groups # "withGroups"]
<1>1. PICK p \in {q \in Hits[name] : book[q] # {}} :
        IF name \in Plain THEN _commit_person_plan(plan(p))
        ELSE /\ _mint("watch_person", [plan(p) EXCEPT !.ids = book[p]])
             /\ UNCHANGED <<loops, listed, made, people>>
  BY DEF person_watch
<1>2. p \in People /\ book[p] # {} /\ book[p] \in SUBSET Ids
  BY WatchParameters DEF WatchTypeOK
<1>3. PICK direct \in BOOLEAN : direct = (_lifetime_of(s) = "standing" /\ s.groups # "withGroups")
  OBVIOUS
<1>4. PICK lifetime \in {"once", "standing"} : lifetime = _lifetime_of(s)
  BY LifetimeTyped
<1> DEFINE known == [NoPlan EXCEPT !.who = p, !.channel = s.channel, !.lifetime = lifetime, !.direct = direct]
           asking == [NoPlan EXCEPT !.who = p, !.channel = s.channel, !.lifetime = lifetime, !.direct = direct,
                                    !.ids = book[p]]
<1>5. plan(p) = known
  BY <1>3, <1>4, Zenon
<1>6. s.channel \in Channels
  BY DEF Sentence
<1>7. known \in Plan /\ known.who = p /\ known.channel = s.channel /\ known.lifetime = lifetime
  BY <1>2, <1>6 DEF NoPlan, Plan
<1>8. /\ asking \in Plan /\ asking.who = p /\ asking.channel = s.channel /\ asking.lifetime = lifetime
      /\ asking.ids = book[p] /\ asking = [known EXCEPT !.ids = book[p]]
  BY <1>2, <1>6 DEF NoPlan, Plan
<1> HIDE DEF known, asking
<1>9. CASE _commit_person_plan(known)
  <2>1. _predicate_for(known) \in Row /\ _predicate_for(known).intent = "person"
    BY <1>2, <1>6, <1>7, PredicateTyped
  <2>2. QED
    BY <1>2, <1>6, <1>7, <1>9, <2>1, CommitPlan
<1>10. CASE _mint("watch_person", asking) /\ UNCHANGED <<loops, listed, made, people>>
  <2>1. PlanFits("watch_person", asking) /\ "watch_person" \in Questions
    BY <1>2, <1>6, <1>8 DEF PlanFits, Questions
  <2>2. QED
    BY <1>8, <1>10, <2>1, Minted DEF SessionTyped, WatchTypeOK
<1>11. QED
  BY <1>1, <1>5, <1>8, <1>9, <1>10

LEMMA ContactWatch ==
    ASSUME WatchTypeOK, Question, NEW args, args.intent \in {"person", "number"},
           args.name \in Names \cup {None}, args.number \in Texts \cup {None},
           NEW s \in Sentence, _create_contact_watch(args, s), turn' = turn
    PROVE  /\ Question' /\ SessionTyped'
           /\ UNCHANGED loops \/ \E l \in Rows, row \in Row : row.intent = args.intent /\ Stored(l, row)
<1>1. CASE /\ _mint("watch_lifetime", [NoPlan EXCEPT !.intent = args.intent, !.name = args.name, !.number = args.number])
           /\ UNCHANGED <<loops, listed, made, people>>
  <2> DEFINE plan == [NoPlan EXCEPT !.intent = args.intent, !.name = args.name, !.number = args.number]
  <2>1. plan \in Plan /\ plan.intent = args.intent
    BY DEF NoPlan, Plan
  <2> HIDE DEF plan
  <2>2. PlanFits("watch_lifetime", plan) /\ "watch_lifetime" \in Questions
    BY <2>1 DEF PlanFits, Questions
  <2>3. QED
    BY <1>1, <2>1, <2>2, Minted DEF SessionTyped, WatchTypeOK, plan
<1>2. CASE args.intent = "number" /\ number_watch(s.number)
  <2>1. s.number \in Texts \cup {None}
    BY DEF Sentence
  <2>2. QED
    BY <1>2, <2>1, NumberWatch
<1>3. CASE args.intent = "person" /\ _lifetime_of(s) # "ask" /\ s.name \in Names /\ person_watch(s.name, s)
  BY <1>3, PersonWatch
<1>4. CASE Refuse
  BY <1>4, Refused
<1>5. s.name \in Names \cup {None}
  BY DEF Sentence
<1>6. QED
  BY <1>1, <1>2, <1>3, <1>4, <1>5 DEF _create_contact_watch

LEMMA MailWatch ==
    ASSUME WatchTypeOK, Question, mail_watch, turn' = turn
    PROVE  /\ Question' /\ SessionTyped'
           /\ UNCHANGED loops \/ \E l \in Rows, row \in Row : Stored(l, row)
<1>1. CASE Refuse
  BY <1>1, Refused
<1>2. ASSUME NEW l \in Free, NEW e \in Emails,
             loops' = [loops EXCEPT ![l] = [NoRow EXCEPT !.st = "open", !.intent = "mail", !.ids = {e}, !.groups = TRUE]],
             listed' = listed \cup {l}, Pop, UNCHANGED <<made, people>>
      PROVE  Question' /\ SessionTyped' /\ \E k \in Rows, row \in Row : Stored(k, row)
  <2> DEFINE row == [NoRow EXCEPT !.st = "open", !.intent = "mail", !.ids = {e}, !.groups = TRUE]
  <2>1. row \in Row /\ row.st = "open"
    BY DEF NoRow, Row, Ids
  <2> HIDE DEF row
  <2>2. l \in Rows
    BY DEF Free
  <2>3. QED
    BY <1>2, <2>1, <2>2, Popped DEF Stored, SessionTyped, WatchTypeOK, row
<1>3. QED
  BY <1>1, <1>2 DEF mail_watch

-----------------------------------------------------------------------------
(* Watch: a create, and what a yes may do.                                 *)

\* The step of YesIsTheProposal.
YesStep ==
    \A l \in Rows : Taken(l) =>
        LET plan == asked.plan
            Person(ids, channel, lifetime, direct) ==
                [st |-> "open", intent |-> "person", who |-> plan.who, ids |-> ids,
                 channel |-> channel, lifetime |-> lifetime, groups |-> ~direct]
        IN /\ ~asked.used /\ turn <= asked.turn + 1
           /\ CASE asked.action = "watch_person" ->
                    loops'[l] = Person(OnChannel(plan.ids, plan.channel), plan.channel, plan.lifetime, plan.direct)
                [] asked.action = "watch_widen" -> loops'[l] = Person(plan.ids, "both", "once", FALSE)
                [] asked.action = "watch_groups" ->
                    l = plan.loop /\ OpenWatch(l) /\ loops'[l] = [loops[l] EXCEPT !.groups = TRUE]
                [] asked.action = "watch_lifetime" -> loops'[l].intent = plan.intent
                [] OTHER -> FALSE

\* What a create may do to the rows.
Untouched == UNCHANGED loops
Grouped(l) == OpenWatch(l) /\ loops' = [loops EXCEPT ![l].groups = TRUE]
Created == Untouched \/ (\E l \in Rows, row \in Row : Stored(l, row)) \/ (\E l \in Rows : Grouped(l))

LEMMA UntouchedYes == ASSUME WatchTypeOK, UNCHANGED loops PROVE YesStep
  BY DEF YesStep, Taken, Made
\* Only the row that is stored is made.
LEMMA StoredAlone ==
    ASSUME WatchTypeOK, NEW l \in Rows, NEW row \in Row, Stored(l, row), NEW k \in Rows, Taken(k)
    PROVE  k = l /\ loops'[l] = row
  BY DEF Stored, Taken, Made, WatchTypeOK
LEMMA AnsweredInTime ==
    ASSUME WatchTypeOK, Question, token.action # "none"
    PROVE  /\ asked.action = token.action /\ asked.plan = token.plan /\ ~asked.used /\ turn <= asked.turn + 1
           /\ PlanFits(token.action, token.plan) /\ token.plan \in Plan
<1>1. /\ asked.action = token.action /\ asked.plan = token.plan /\ ~asked.used
      /\ turn <= asked.turn + (IF token.armed THEN 1 ELSE 0)
      /\ PlanFits(token.action, token.plan) /\ token.plan \in Plan
  BY DEF Question, TokenAsked, Tokens
<1>2. turn \in Nat /\ asked.turn \in Nat
  BY Bounds DEF WatchTypeOK
<1>3. turn <= asked.turn + 1
  BY <1>1, <1>2
<1>4. QED
  BY <1>1, <1>3

\* The answer to "once, or every time?".
LEMMA LifetimeAnswered ==
    ASSUME WatchTypeOK, Question, token.action = "watch_lifetime", answer_lifetime, turn' = turn
    PROVE  Question' /\ SessionTyped' /\ Created /\ YesStep
<1> DEFINE rewritten == IF said.lifetime = "next" /\ said.ask = "no" THEN [said EXCEPT !.ask = "contact"] ELSE said
<1>1. /\ asked.action = "watch_lifetime" /\ asked.plan = token.plan /\ ~asked.used /\ turn <= asked.turn + 1
      /\ token.plan.intent \in {"person", "number"} /\ token.plan \in Plan
  BY AnsweredInTime DEF PlanFits
<1>2. token.plan.name \in Names \cup {None} /\ token.plan.number \in Texts \cup {None}
  BY <1>1 DEF Plan
<1>3. rewritten \in Sentence
  BY DEF WatchTypeOK, Sentence
<1>4. Refuse \/ _create_contact_watch(token.plan, rewritten)
  BY DEF answer_lifetime
<1> HIDE DEF rewritten
<1>5. /\ Question' /\ SessionTyped'
      /\ UNCHANGED loops \/ \E l \in Rows, row \in Row : row.intent = token.plan.intent /\ Stored(l, row)
  BY <1>1, <1>2, <1>3, <1>4, ContactWatch, Refused
<1>6. YesStep
  <2>1. ASSUME NEW l \in Rows, NEW row \in Row, row.intent = token.plan.intent, Stored(l, row) PROVE YesStep
    <3>1. ASSUME NEW k \in Rows, Taken(k) PROVE loops'[k].intent = asked.plan.intent
      BY <1>1, <2>1, <3>1, StoredAlone
    <3>2. QED
      BY <1>1, <3>1 DEF YesStep
  <2>2. QED
    BY <1>5, <2>1, UntouchedYes
<1>7. QED
  BY <1>5, <1>6 DEF Created, Untouched

\* A plan of a person, with the identifiers it was proposed with.
LEMMA FreshPredicate ==
    ASSUME NEW plan, plan.ids # {}, ~confirm_stale(plan)
    PROVE  book[plan.who] = plan.ids
  BY DEF confirm_stale

LEMMA PersonAnswered ==
    ASSUME WatchTypeOK, Question, token.action = "watch_person", _commit_person_plan(token.plan), turn' = turn
    PROVE  Question' /\ SessionTyped' /\ Created /\ YesStep
<1> DEFINE plan == token.plan
<1>1. /\ asked.action = "watch_person" /\ asked.plan = plan /\ ~asked.used /\ turn <= asked.turn + 1
      /\ plan \in Plan /\ plan.who \in People /\ plan.ids # {}
      /\ plan.channel \in Channels /\ plan.lifetime \in {"once", "standing"}
  BY AnsweredInTime DEF PlanFits
<1> HIDE DEF plan
<1>2. /\ Question' /\ SessionTyped'
      /\ UNCHANGED loops \/ (~confirm_stale(plan) /\ \E l \in Rows : Stored(l, _predicate_for(plan)))
  BY <1>1, CommitPlan DEF plan
<1>3. _predicate_for(plan) \in Row
  BY <1>1, PredicateTyped
<1>4. ASSUME NEW l \in Rows, ~confirm_stale(plan), Stored(l, _predicate_for(plan)) PROVE YesStep
  <2>1. book[plan.who] = plan.ids
    BY <1>1, <1>4, FreshPredicate
  <2>2. ASSUME NEW k \in Rows, Taken(k)
        PROVE  loops'[k] = [st |-> "open", intent |-> "person", who |-> plan.who, ids |-> OnChannel(plan.ids, plan.channel),
                            channel |-> plan.channel, lifetime |-> plan.lifetime, groups |-> ~plan.direct]
    <3>1. loops'[k] = _predicate_for(plan)
      BY <1>3, <1>4, <2>2, StoredAlone
    <3>2. QED
      BY <2>1, <3>1, Zenon DEF _predicate_for
  <2>3. QED
    BY <1>1, <2>2 DEF YesStep
<1>5. QED
  BY <1>2, <1>3, <1>4, UntouchedYes DEF Created, Untouched

\* "Watch whoever has this number": the whole contact, once.
LEMMA WidenAnswered ==
    ASSUME WatchTypeOK, Question, token.action = "watch_widen", turn' = turn,
           _commit_person_plan([token.plan EXCEPT !.channel = "both", !.lifetime = "once", !.direct = FALSE])
    PROVE  Question' /\ SessionTyped' /\ Created /\ YesStep
<1> DEFINE plan == [token.plan EXCEPT !.channel = "both", !.lifetime = "once", !.direct = FALSE]
<1>1. /\ asked.action = "watch_widen" /\ asked.plan = token.plan /\ ~asked.used /\ turn <= asked.turn + 1
      /\ token.plan \in Plan /\ token.plan.who \in People /\ token.plan.ids # {}
  BY AnsweredInTime DEF PlanFits
<1>2. /\ plan \in Plan /\ plan.who = token.plan.who /\ plan.ids = token.plan.ids
      /\ plan.channel = "both" /\ plan.lifetime = "once" /\ plan.direct = FALSE
  BY <1>1 DEF Plan, Channels
<1>3. _commit_person_plan(plan)
  OBVIOUS
<1> HIDE DEF plan
<1>4. plan.channel \in Channels
  BY <1>2 DEF Channels
<1>5. /\ Question' /\ SessionTyped'
      /\ UNCHANGED loops \/ (~confirm_stale(plan) /\ \E l \in Rows : Stored(l, _predicate_for(plan)))
  BY <1>1, <1>2, <1>3, <1>4, CommitPlan
<1>6. _predicate_for(plan) \in Row
  BY <1>1, <1>2, <1>4, PredicateTyped
<1>7. ASSUME NEW l \in Rows, ~confirm_stale(plan), Stored(l, _predicate_for(plan)) PROVE YesStep
  <2>1. book[plan.who] = plan.ids
    BY <1>1, <1>2, <1>7, FreshPredicate
  <2>2. OnChannel(book[plan.who], plan.channel) = token.plan.ids
    BY <1>2, <2>1 DEF OnChannel
  <2>3. ASSUME NEW k \in Rows, Taken(k)
        PROVE  loops'[k] = [st |-> "open", intent |-> "person", who |-> token.plan.who, ids |-> token.plan.ids,
                            channel |-> "both", lifetime |-> "once", groups |-> ~FALSE]
    <3>1. loops'[k] = _predicate_for(plan)
      BY <1>6, <1>7, <2>3, StoredAlone
    <3>2. QED
      BY <1>2, <2>2, <3>1 DEF _predicate_for
  <2>4. QED
    BY <1>1, <2>3 DEF YesStep
<1>8. QED
  BY <1>5, <1>6, <1>7, UntouchedYes DEF Created, Untouched

LEMMA GroupsAnswered ==
    ASSUME WatchTypeOK, Question, token.action = "watch_groups", answer_groups, turn' = turn
    PROVE  Question' /\ SessionTyped' /\ Created /\ YesStep
<1> DEFINE l == token.plan.loop
<1>1. /\ asked.action = "watch_groups" /\ asked.plan = token.plan /\ ~asked.used /\ turn <= asked.turn + 1
      /\ l \in Rows
  BY AnsweredInTime DEF PlanFits
<1>2. Question' /\ SessionTyped'
  BY Popped DEF answer_groups, SessionTyped, WatchTypeOK
<1>3. UNCHANGED loops \/ Grouped(l)
  BY DEF answer_groups, Grouped
<1>4. ASSUME Grouped(l) PROVE YesStep
  <2>1. \A k \in Rows : loops'[k] = IF k = l THEN [loops[k] EXCEPT !.groups = TRUE] ELSE loops[k]
    BY <1>1, <1>4 DEF Grouped, WatchTypeOK
  <2>2. OpenWatch(l) /\ loops[l].st # "none"
    BY <1>4 DEF Grouped, OpenWatch
  <2>3. ASSUME NEW k \in Rows, Taken(k)
        PROVE  k = l /\ OpenWatch(k) /\ loops'[k] = [loops[k] EXCEPT !.groups = TRUE]
    BY <1>1, <2>1, <2>2, <2>3 DEF Taken, Made
  <2>4. QED
    BY <1>1, <2>3 DEF YesStep
<1>5. QED
  BY <1>1, <1>2, <1>3, <1>4, UntouchedYes DEF Created, Untouched

LEMMA CreateStep ==
    ASSUME WatchTypeOK, Question, NEW intent \in {"person", "number", "mail"}, create_loop(intent)
    PROVE  Question' /\ SessionTyped' /\ Created /\ YesStep
<1>1. turn' = turn
  BY DEF create_loop, words
<1>2. CASE Refuse
  BY <1>2, Refused, UntouchedYes DEF Created, Untouched
<1>3. CASE token.action # "none" /\ _apply_confirmation(intent)
  <2>1. token.action \in Questions
    BY <1>3 DEF WatchTypeOK
  <2>2. CASE token.action = "watch_lifetime"
    BY <1>1, <1>3, <2>2, LifetimeAnswered DEF _apply_confirmation
  <2>3. CASE token.action = "forget_widen"
    BY <1>2, <1>3, <2>3 DEF _apply_confirmation
  <2>4. CASE token.action = "watch_person"
    <3>1. Refuse \/ _commit_person_plan(token.plan)
      BY <1>3, <2>4 DEF _apply_confirmation
    <3>2. QED
      BY <1>1, <1>2, <2>4, <3>1, PersonAnswered
  <2>5. CASE token.action = "watch_widen"
    <3>1. Refuse \/ _commit_person_plan([token.plan EXCEPT !.channel = "both", !.lifetime = "once", !.direct = FALSE])
      BY <1>3, <2>5 DEF _apply_confirmation
    <3>2. QED
      BY <1>1, <1>2, <2>5, <3>1, WidenAnswered
  <2>6. CASE token.action = "watch_groups"
    <3>1. Refuse \/ answer_groups
      BY <1>3, <2>6 DEF _apply_confirmation
    <3>2. QED
      BY <1>1, <1>2, <2>6, <3>1, GroupsAnswered
  <2>7. QED
    BY <2>1, <2>2, <2>3, <2>4, <2>5, <2>6 DEF Questions
<1>4. ASSUME token.action = "none" PROVE YesStep
  BY <1>4 DEF YesStep, Taken
<1>5. CASE token.action = "none" /\ intent = "mail" /\ mail_watch
  BY <1>1, <1>4, <1>5, MailWatch DEF Created, Untouched
<1>6. CASE /\ token.action = "none" /\ intent # "mail"
           /\ _create_contact_watch([intent |-> intent, name |-> said.name, number |-> said.number], said)
  <2>1. said \in Sentence /\ said.name \in Names \cup {None} /\ said.number \in Texts \cup {None}
    BY DEF WatchTypeOK, Sentence
  <2>2. QED
    BY <1>1, <1>4, <1>6, <2>1, ContactWatch DEF Created, Untouched
<1>7. QED
  BY <1>3, <1>5, <1>6 DEF create_loop

-----------------------------------------------------------------------------
(* Watch: what ends a watch, and the rest.                                 *)

\* A row is not made anew, and is what it was but for its state and identifiers.
Ages(x, y) ==
    /\ y.st = "none" <=> x.st = "none"
    /\ y.st = "open" => x.st = "open"
    /\ x.st = "widened" => y.st = "widened"
    /\ y.lifetime = x.lifetime /\ y.channel = x.channel /\ y.groups = x.groups
RowsAge == loops' \in [Rows -> Row] /\ \A l \in Rows : Ages(loops[l], loops'[l])
NotWidened == \A l \in Rows : loops'[l].st = "widened" => loops[l].st = "widened"

LEMMA AgingYes == ASSUME RowsAge PROVE YesStep
  BY DEF RowsAge, Ages, YesStep, Taken, Made
LEMMA SameAges == ASSUME WatchTypeOK, UNCHANGED loops PROVE RowsAge /\ NotWidened
  BY DEF WatchTypeOK, RowsAge, NotWidened, Ages
LEMMA EndAges ==
    ASSUME WatchTypeOK, NEW ls, NEW how \in Ended, EndWatches(ls, how), \A l \in ls \cap Rows : OpenWatch(l)
    PROVE  RowsAge /\ (how # "widened" => NotWidened)
<1>1. \A l \in Rows : loops[l] \in Row /\ [loops[l] EXCEPT !.st = how] \in Row
  BY DEF WatchTypeOK, Row
<1>2. loops' \in [Rows -> Row]
  BY <1>1 DEF EndWatches
<1>3. ASSUME NEW l \in Rows
      PROVE  Ages(loops[l], loops'[l]) /\ (how # "widened" /\ loops'[l].st = "widened" => loops[l].st = "widened")
  <2>1. CASE l \in ls
    <3>1. /\ loops'[l].st = how /\ loops[l].st = "open" /\ loops'[l].lifetime = loops[l].lifetime
          /\ loops'[l].channel = loops[l].channel /\ loops'[l].groups = loops[l].groups
      BY <1>1, <2>1 DEF EndWatches, OpenWatch, Row
    <3>2. QED
      BY <3>1 DEF Ages, Ended
  <2>2. CASE l \notin ls
    BY <2>2 DEF EndWatches, Ages
  <2>3. QED
    BY <2>1, <2>2
<1>4. QED
  BY <1>2, <1>3 DEF RowsAge, NotWidened
\* A row stays a row.
LEMMA RowEdits ==
    ASSUME NEW row \in Row
    PROVE  [row EXCEPT !.st = "closed", !.ids = {}] \in Row /\ [row EXCEPT !.groups = TRUE] \in Row
<1>1. \A s \in {"none", "open"} \cup Ended : [row EXCEPT !.st = s] \in Row
  BY DEF Row
<1>2. \A r \in Row : \A ids \in SUBSET Ids : [r EXCEPT !.ids = ids] \in Row
  BY DEF Row
<1>3. [row EXCEPT !.st = "closed"] \in Row
  BY <1>1 DEF Ended
<1>4. {} \in SUBSET Ids
  OBVIOUS
<1>5. [row EXCEPT !.st = "closed", !.ids = {}] \in Row
  BY <1>2, <1>3, <1>4
<1>6. \A b \in BOOLEAN : [row EXCEPT !.groups = b] \in Row
  BY DEF Row
<1>7. [row EXCEPT !.groups = TRUE] \in Row
  BY <1>6, Zenon
<1>8. QED
  BY <1>5, <1>7
LEMMA ForgottenAges == ASSUME WatchTypeOK, NEW ids, Forgotten(ids) PROVE RowsAge /\ NotWidened
<1>1. \A l \in Rows : loops[l] \in Row /\ [loops[l] EXCEPT !.st = "closed", !.ids = {}] \in Row
  BY RowEdits DEF WatchTypeOK
<1>2. loops' \in [Rows -> Row]
  BY <1>1 DEF Forgotten
<1>3. ASSUME NEW l \in Rows
      PROVE  Ages(loops[l], loops'[l]) /\ (loops'[l].st = "widened" => loops[l].st = "widened")
  <2>1. CASE loops[l].st \in {"open", "delivered"} /\ loops'[l] = [loops[l] EXCEPT !.st = "closed", !.ids = {}]
    <3>1. /\ loops'[l].st = "closed" /\ loops'[l].lifetime = loops[l].lifetime
          /\ loops'[l].channel = loops[l].channel /\ loops'[l].groups = loops[l].groups
      BY <1>1, <2>1 DEF Row
    <3>2. QED
      BY <2>1, <3>1 DEF Ages
  <2>2. CASE loops'[l] = loops[l]
    BY <2>2 DEF Ages
  <2>3. QED
    BY <2>1, <2>2 DEF Forgotten
<1>4. QED
  BY <1>2, <1>3 DEF RowsAge, NotWidened

\* A watch goes on with the channel and lifetime it was made with.
LEMMA CoverKept ==
    ASSUME WatchTypeOK, CoverStays, NotWidened,
           \A l \in Rows : loops[l].st # "none" =>
               /\ loops'[l].st # "none" /\ loops'[l].lifetime = loops[l].lifetime
               /\ loops'[l].channel = loops[l].channel
    PROVE  CoverStays'
<1> SUFFICES ASSUME NEW l \in Rows, loops'[l].st = "widened"
             PROVE  \E n \in Rows : loops'[n].st \notin {"none", "widened"} /\ _covers(loops'[n], loops'[l])
  BY DEF CoverStays, _covers
<1>1. loops[l].st = "widened"
  BY DEF NotWidened
<1>2. PICK n \in Rows : loops[n].st \notin {"none", "widened"} /\ _covers(loops[n], loops[l])
  BY <1>1 DEF CoverStays
<1>3. loops'[n].st \notin {"none", "widened"}
  BY <1>2 DEF NotWidened
<1>4. _covers(loops'[n], loops'[l])
  BY <1>1, <1>2 DEF _covers
<1>5. QED
  BY <1>3, <1>4
LEMMA AgingCovers == ASSUME WatchTypeOK, CoverStays, RowsAge, NotWidened PROVE CoverStays'
  BY CoverKept DEF RowsAge, Ages

\* What covers is covered by what covers it.
LEMMA CoversOn ==
    ASSUME NEW x, NEW y, NEW z, _covers(z, y), _covers(y, x)
    PROVE  _covers(z, x)
  BY DEF _covers
LEMMA WidenCovers ==
    ASSUME WatchTypeOK, CoverStays, NEW l \in Rows, OpenWatch(l), NEW n \in Rows, _widen_close(l, n),
           EndWatches({l}, "widened")
    PROVE  CoverStays'
<1>1. /\ loops'[l].st = "widened" /\ loops'[l].lifetime = loops[l].lifetime /\ loops'[l].channel = loops[l].channel
      /\ \A k \in Rows \ {l} : loops'[k] = loops[k]
  BY DEF EndWatches, WatchTypeOK, Row
<1>2. n # l /\ loops[n].st = "open" /\ _covers(loops[n], loops[l])
  BY DEF _widen_close, OpenWatch
<1>3. ASSUME NEW k \in Rows, loops'[k].st = "widened"
      PROVE  \E m \in Rows : loops'[m].st \notin {"none", "widened"} /\ _covers(loops'[m], loops'[k])
  <2>1. CASE k = l
    BY <1>1, <1>2, <2>1 DEF _covers
  <2>2. CASE k # l
    <3>1. loops'[k] = loops[k]
      BY <1>1, <2>2
    <3>2. PICK m \in Rows : loops[m].st \notin {"none", "widened"} /\ _covers(loops[m], loops[k])
      BY <1>3, <3>1 DEF CoverStays
    <3>3. CASE m = l
      BY <1>1, <1>2, <3>1, <3>2, <3>3, CoversOn
    <3>4. CASE m # l
      BY <1>1, <3>1, <3>2, <3>4
    <3>5. QED
      BY <3>3, <3>4
  <2>3. QED
    BY <2>1, <2>2
<1>4. QED
  BY <1>3 DEF CoverStays, _covers
LEMMA CreatedCovers ==
    ASSUME WatchTypeOK, CoverStays, Created
    PROVE  loops' \in [Rows -> Row] /\ CoverStays'
<1>1. CASE UNCHANGED loops
  BY <1>1, SameAges, AgingCovers DEF RowsAge
<1>2. ASSUME NEW l \in Rows, NEW row \in Row, Stored(l, row)
      PROVE  loops' \in [Rows -> Row] /\ CoverStays'
  <2>1. /\ loops' \in [Rows -> Row] /\ loops'[l].st = "open" /\ loops[l].st = "none"
        /\ \A k \in Rows \ {l} : loops'[k] = loops[k]
    BY <1>2 DEF Stored, Free, WatchTypeOK
  <2>2. NotWidened
    BY <2>1 DEF NotWidened
  <2>3. QED
    BY <2>1, <2>2, CoverKept
<1>3. ASSUME NEW l \in Rows, Grouped(l)
      PROVE  loops' \in [Rows -> Row] /\ CoverStays'
  <2>1. loops[l] \in Row /\ [loops[l] EXCEPT !.groups = TRUE] \in Row
    BY RowEdits DEF WatchTypeOK
  <2>2. /\ loops' \in [Rows -> Row] /\ \A k \in Rows \ {l} : loops'[k] = loops[k]
        /\ loops'[l].st = loops[l].st /\ loops'[l].lifetime = loops[l].lifetime
        /\ loops'[l].channel = loops[l].channel
    BY <1>3, <2>1 DEF Grouped, WatchTypeOK, Row
  <2>3. NotWidened
    BY <2>2 DEF NotWidened
  <2>4. QED
    BY <2>2, <2>3, CoverKept
<1>4. QED
  BY <1>1, <1>2, <1>3 DEF Created, Untouched

\* The turn that follows a question arms it, when his words answer it.
LEMMA TurnAsks ==
    ASSUME WatchTypeOK, Question, NEW s \in Sentences, NEW ticket \in BOOLEAN, NextTurn(s, ticket)
    PROVE  WatchTypeOK' /\ Question'
<1>1. turn' = turn + 1 /\ turn' \in 0..MaxTurns /\ turn \in Nat /\ asked.turn \in Nat /\ asked' = asked
  BY Bounds DEF NextTurn, WatchTypeOK
<1>2. said' \in Sentence /\ owner' \in BOOLEAN
  BY NoPlanTyped, WatchParameters DEF NextTurn
<1>3. Question'
  <2>1. CASE token' = NoToken
    BY <1>1, <2>1, NoQuestion
  <2>2. CASE ~token.armed /\ token.action # "none" /\ token' = [token EXCEPT !.armed = TRUE]
    <3>1. /\ token' \in Tokens /\ token'.action = token.action /\ token'.plan = token.plan /\ token'.armed = TRUE
      BY <2>2 DEF Question, Tokens
    <3>2. turn <= asked.turn + 0
      BY <2>2 DEF Question, TokenAsked
    <3>3. turn' <= asked'.turn + 1
      BY <1>1, <3>2
    <3>4. QED
      BY <1>1, <2>2, <3>1, <3>3 DEF Question, TokenAsked, PlanFits
  <2>3. QED
    BY <2>1, <2>2 DEF NextTurn, note_turn
<1>4. QED
  BY <1>1, <1>2, <1>3 DEF WatchTypeOK, NextTurn, Question, Tokens, Askings

\* What does not ask nor answer.
Elsewhere ==
    \/ list_loops \/ (\E l \in Rows : close_listed(l) \/ purge_retention(l))
    \/ _close_by_reference \/ Lapse \/ Restart
    \/ (\E i \in Ids, group \in BOOLEAN : _satisfy_matched_watches(i, group))
    \/ (\E p \in People, ids \in SUBSET Ids : EditBook(p, ids)) \/ (\E p \in People : note_session_person(p))

\* The watches a pronoun means, and their end.
Meant(p) ==
    LET his == {l \in Rows : OpenWatch(l) /\ loops[l].who = p} IN
    IF people[p] # 0 THEN {people[p]} ELSE {l \in his : \A k \in his : l <= k}
_close_by_reference_to(p) ==
    /\ people[p] # None /\ listed' = listed \cup Meant(p) /\ UNCHANGED <<made, people>>
    /\ EndWatches({l \in Meant(p) : OpenWatch(l)}, "closed")

LEMMA RestSession ==
    ASSUME WatchTypeOK, Question, Elsewhere
    PROVE  /\ Question' /\ SessionTyped' /\ book' \in [People -> SUBSET Ids] /\ edits' \in 0..MaxEdits
           /\ UNCHANGED <<said, turn>> /\ owner' \in BOOLEAN
<1>1. UNCHANGED <<said, turn>> /\ owner' \in BOOLEAN
  BY DEF Elsewhere, list_loops, close_listed, _close_by_reference, purge_retention, Lapse, Restart,
         _satisfy_matched_watches, EditBook, note_session_person, words, WatchTypeOK
<1>2. book' \in [People -> SUBSET Ids] /\ edits' \in 0..MaxEdits
  <2>1. ASSUME NEW p \in People, NEW ids \in SUBSET Ids, EditBook(p, ids)
        PROVE  book' \in [People -> SUBSET Ids] /\ edits' \in 0..MaxEdits
    BY <2>1, Bounds DEF EditBook, WatchTypeOK
  <2>2. CASE UNCHANGED <<book, edits>>
    BY <2>2 DEF WatchTypeOK
  <2>3. QED
    BY <2>1, <2>2 DEF Elsewhere, list_loops, close_listed, _close_by_reference, purge_retention, Lapse, Restart,
                      _satisfy_matched_watches, note_session_person, words
<1>3. Question'
  <2>1. CASE UNCHANGED <<token, asked>>
    BY <1>1, <2>1, StillOpen
  <2>2. CASE token' = NoToken /\ asked' = asked
    BY <2>2, NoQuestion
  <2>3. QED
    BY <2>1, <2>2 DEF Elsewhere, list_loops, close_listed, _close_by_reference, purge_retention, Lapse, Restart,
                      _satisfy_matched_watches, EditBook, note_session_person, session, words
<1>4. SessionTyped'
  <2>1. CASE UNCHANGED <<listed, made, people>>
    BY <2>1 DEF SessionTyped, WatchTypeOK
  <2>2. CASE list_loops \/ Restart
    BY <2>2 DEF list_loops, Restart, SessionTyped, WatchTypeOK
  <2>3. CASE _close_by_reference
    <3>1. PICK p \in People : _close_by_reference_to(p)
      BY <2>3 DEF _close_by_reference, _close_by_reference_to, Meant
    <3>2. /\ people[p] \in Rows \/ people[p] = 0
          /\ listed' = listed \cup Meant(p) /\ UNCHANGED <<made, people>>
      BY <3>1 DEF _close_by_reference_to, WatchTypeOK
    <3>3. Meant(p) \subseteq Rows
      BY <3>2 DEF Meant
    <3>4. QED
      BY <3>2, <3>3 DEF SessionTyped, WatchTypeOK
  <2>4. ASSUME NEW p \in People, note_session_person(p) PROVE SessionTyped'
    BY <2>4 DEF note_session_person, SessionTyped, WatchTypeOK
  <2>5. QED
    BY <2>1, <2>2, <2>3, <2>4 DEF Elsewhere, close_listed, purge_retention, Lapse, _satisfy_matched_watches,
                                  EditBook, session
<1>5. QED
  BY <1>1, <1>2, <1>3, <1>4

LEMMA RestRows ==
    ASSUME WatchTypeOK, CoverStays, Elsewhere
    PROVE  RowsAge /\ CoverStays'
<1>1. CASE UNCHANGED loops
  BY <1>1, SameAges, AgingCovers
<1>2. ASSUME NEW l \in Rows, close_listed(l) PROVE RowsAge /\ CoverStays'
  <2>1. CASE EndWatches({l}, "closed")
    BY <1>2, <2>1, EndAges, AgingCovers DEF close_listed, Ended
  <2>2. CASE EndWatches({l}, "widened") /\ \E n \in made : _widen_close(l, n)
    BY <1>2, <2>2, EndAges, WidenCovers DEF close_listed, Ended, WatchTypeOK
  <2>3. QED
    BY <1>2, <2>1, <2>2 DEF close_listed
<1>3. CASE _close_by_reference
  <2>1. PICK p \in People : EndWatches({k \in Meant(p) : OpenWatch(k)}, "closed")
    BY <1>3 DEF _close_by_reference, Meant
  <2>2. \A k \in {k \in Meant(p) : OpenWatch(k)} \cap Rows : OpenWatch(k)
    OBVIOUS
  <2>3. QED
    BY <2>1, <2>2, EndAges, AgingCovers DEF Ended
<1>4. ASSUME NEW l \in Rows, purge_retention(l) PROVE RowsAge /\ CoverStays'
  BY <1>4, EndAges, AgingCovers DEF purge_retention, Ended
<1>5. ASSUME NEW i \in Ids, NEW group \in BOOLEAN, _satisfy_matched_watches(i, group) PROVE RowsAge /\ CoverStays'
  <2> DEFINE ls == {k \in Rows : /\ OpenWatch(k) /\ loops[k].intent # "mail" /\ loops[k].lifetime = "once"
                                 /\ i \in OnChannel(loops[k].ids, loops[k].channel) /\ (group => loops[k].groups)}
  <2>1. EndWatches(ls, "delivered")
    BY <1>5 DEF _satisfy_matched_watches
  <2>2. \A k \in ls \cap Rows : OpenWatch(k)
    OBVIOUS
  <2> HIDE DEF ls
  <2>3. QED
    BY <2>1, <2>2, EndAges, AgingCovers DEF Ended
<1>6. QED
  BY <1>1, <1>2, <1>3, <1>4, <1>5 DEF Elsewhere, list_loops, Lapse, Restart, EditBook, note_session_person

\* The questions of forget_memory.
LEMMA ForgetAsks ==
    ASSUME WatchTypeOK, Question, CoverStays, take_forget_widen \/ \E number \in Texts : note_forget_widen(number)
    PROVE  /\ Question' /\ RowsAge /\ CoverStays'
           /\ UNCHANGED <<book, listed, people, made, said, owner, turn, edits>>
<1>1. UNCHANGED <<book, listed, people, made, said, owner, turn, edits>>
  BY DEF take_forget_widen, note_forget_widen, words
<1>2. ASSUME NEW ids, Forgotten(ids) \/ UNCHANGED loops PROVE RowsAge /\ CoverStays'
  BY <1>2, SameAges, ForgottenAges, AgingCovers
<1>3. CASE take_forget_widen
  BY <1>1, <1>2, <1>3, Popped DEF take_forget_widen
<1>4. ASSUME NEW number \in Texts, note_forget_widen(number) PROVE Question' /\ RowsAge /\ CoverStays'
  <2>1. ASSUME NEW p \in People, number \in book[p], _mint("forget_widen", [NoPlan EXCEPT !.who = p, !.ids = book[p]])
        PROVE  Question'
    <3> DEFINE plan == [NoPlan EXCEPT !.who = p, !.ids = book[p]]
    <3>1. book[p] \in SUBSET Ids
      BY DEF WatchTypeOK
    <3>2. plan \in Plan /\ plan.who = p
      BY <3>1 DEF NoPlan, Plan
    <3> HIDE DEF plan
    <3>3. PlanFits("forget_widen", plan) /\ "forget_widen" \in Questions
      BY <3>2 DEF PlanFits, Questions
    <3>4. QED
      BY <1>1, <2>1, <3>2, <3>3, Minted DEF plan
  <2>2. Question'
    BY <1>1, <1>4, <2>1, StillOpen DEF note_forget_widen
  <2>3. QED
    BY <1>2, <1>4, <2>2 DEF note_forget_widen
<1>5. QED
  BY <1>1, <1>3, <1>4

-----------------------------------------------------------------------------
(* Watch: the theorems.                                                    *)

LEMMA WatchInitially == WatchInit => WInv
<1> SUFFICES ASSUME WatchInit PROVE WInv
  OBVIOUS
<1>1. loops \in [Rows -> Row] /\ CoverStays
  BY NoPlanTyped DEF WatchInit, CoverStays, NoRow
<1>2. Question
  BY NoPlanTyped, Bounds DEF WatchInit, Question, TokenAsked, Askings, NoToken
<1>3. WatchTypeOK
  <2>1. token \in Tokens /\ asked \in Askings
    BY <1>2 DEF Question
  <2>2. people \in [People -> {None, 0} \cup Rows] /\ listed = {} /\ made = {}
    BY DEF WatchInit
  <2>3. turn \in 0..MaxTurns /\ edits \in 0..MaxEdits
    BY Bounds DEF WatchInit
  <2>4. book \in [People -> SUBSET Ids] /\ said \in Sentence /\ owner \in BOOLEAN
    BY NoPlanTyped DEF WatchInit
  <2>5. QED
    BY <1>1, <2>1, <2>2, <2>3, <2>4 DEF WatchTypeOK, Tokens, Askings
<1>4. QED
  BY <1>1, <1>2, <1>3 DEF WInv

LEMMA WatchStep == WInv /\ [WatchNext]_watchVars => WInv' /\ [YesStep]_watchVars
<1>1. ASSUME WInv, WatchNext PROVE WInv' /\ YesStep
  <2>1. WatchTypeOK /\ Question /\ CoverStays
    BY <1>1 DEF WInv
  <2>2. ASSUME NEW s \in Sentences, NEW ticket \in BOOLEAN, NextTurn(s, ticket) PROVE WInv' /\ YesStep
    <3>1. UNCHANGED loops
      BY <2>2 DEF NextTurn
    <3>2. QED
      BY <2>1, <2>2, <3>1, TurnAsks, SameAges, AgingYes, AgingCovers DEF WInv
  <2>3. ASSUME NEW intent \in {"person", "number", "mail"}, create_loop(intent) PROVE WInv' /\ YesStep
    <3>1. Question' /\ SessionTyped' /\ Created /\ YesStep
      BY <2>1, <2>3, CreateStep
    <3>2. loops' \in [Rows -> Row] /\ CoverStays'
      BY <2>1, <3>1, CreatedCovers
    <3>3. WatchTypeOK'
      BY <2>1, <2>3, <3>1, <3>2 DEF WatchTypeOK, Question, SessionTyped, Tokens, Askings, create_loop, words
    <3>4. QED
      BY <3>1, <3>2, <3>3 DEF WInv
  <2>4. CASE Elsewhere
    <3>1. Question' /\ SessionTyped' /\ RowsAge /\ CoverStays'
      BY <2>1, <2>4, RestSession, RestRows
    <3>2. WatchTypeOK'
      BY <2>1, <2>4, <3>1, RestSession DEF WatchTypeOK, Question, SessionTyped, Tokens, Askings, RowsAge
    <3>3. QED
      BY <3>1, <3>2, AgingYes DEF WInv
  <2>5. CASE take_forget_widen \/ \E number \in Texts : note_forget_widen(number)
    <3>1. /\ Question' /\ RowsAge /\ CoverStays'
          /\ UNCHANGED <<book, listed, people, made, said, owner, turn, edits>>
      BY <2>1, <2>5, ForgetAsks
    <3>2. WatchTypeOK'
      BY <2>1, <3>1 DEF WatchTypeOK, Question, Tokens, Askings, RowsAge
    <3>3. QED
      BY <3>1, <3>2, AgingYes DEF WInv
  <2>6. QED
    BY <1>1, <2>2, <2>3, <2>4, <2>5 DEF WatchNext, Elsewhere
<1>2. ASSUME WInv, UNCHANGED watchVars PROVE WInv'
  BY <1>2 DEF WInv, WatchTypeOK, Question, TokenAsked, PlanFits, CoverStays, _covers, watchVars, session, words
<1>3. QED
  BY <1>1, <1>2

(* The inductive invariant: the question in the process is the one that    *)
(* was asked last, in the last turn but one at the earliest, and its plan  *)
(* has what its answer needs.                                              *)
THEOREM WatchInvariant == WatchSpec => []WInv
BY WatchInitially, WatchStep, PTL DEF WatchSpec

(* Every variable keeps its shape. *)
THEOREM WatchTypeCorrect == WatchSpec => []WatchTypeOK
<1>1. WInv => WatchTypeOK
  BY DEF WInv
<1>2. QED
  BY <1>1, WatchInvariant, PTL

(* A watch that made room for a wider one left its channels and lifetime   *)
(* to a watch that did not make room itself, whatever is closed, told,     *)
(* purged or forgotten since (_widen_close, _covers).                      *)
THEOREM CoverIsLeft == WatchSpec => []CoverStays
<1>1. WInv => CoverStays
  BY DEF WInv
<1>2. QED
  BY <1>1, WatchInvariant, PTL

(* A yes makes the watch the last question proposed, once and in time,     *)
(* for any address book and any edit of it between the question and the    *)
(* answer (_apply_confirmation, _commit_person_plan, note_turn).           *)
THEOREM YesDoesWhatWasAsked == WatchSpec => YesIsTheProposal
<1>1. WInv /\ [WatchNext]_watchVars => [YesStep]_watchVars
  BY WatchStep
<1>2. QED
  BY <1>1, WatchInvariant, PTL DEF WatchSpec, YesIsTheProposal, YesStep
=============================================================================
