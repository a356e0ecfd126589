---------------------------- MODULE Taint_proofs ----------------------------
(***************************************************************************)
(* Proofs about Taint, for any number of sessions, rows and faults: what   *)
(* becomes memory from a context that holds content is in the owner's      *)
(* words or says where it comes from.                                      *)
(*                                                                         *)
(* What a session knows of content is a matter of its root: the ids of a   *)
(* turn are of one lineage, and the tip is the deepest of them, so a mark  *)
(* by the record's id is seen by the guard's id.                           *)
(***************************************************************************)
EXTENDS Taint, TLAPS

\* Sessions that are there.
Exists(i) == i \in Ids /\ root[i] \in Ids

\* An id that a turn may use is of the tip's lineage and no deeper.
OfTip(i) == Exists(i) /\ root[i] = root[tip] /\ depth[i] <= depth[tip]
TurnOfTip ==
    /\ Exists(tip)
    /\ InTurn => OfTip(turn.task)
    /\ turn.session # None => OfTip(turn.session)

\* Content is seen by any walk: it raises, it finds a mark, or the mark missed.
Seen(i) == Exists(i) /\ (depth[i] >= WalkCap \/ root[i] \in marks \cup missed)
ContentSeen == \A i \in content : Seen(i)
RowsOfSessions == \A r \in pending : r.session \in Ids /\ Exists(r.session) /\ (r.mixed => r.session \in content)

IInv == TypeOK /\ TurnOfTip /\ ContentSeen /\ RowsOfSessions /\ KnownSource

-----------------------------------------------------------------------------
LEMMA RootsAreSessions ==
    ASSUME TypeOK, NEW ids, \A i \in ids : Exists(i)
    PROVE  lineage_root(ids) \subseteq Ids /\ ids \subseteq Ids
  BY DEF lineage_root, Exists

\* A mark keeps what was seen, and its ids are seen from then on.
LEMMA MarkIsSeen ==
    ASSUME TypeOK, NEW ids, \A i \in ids : Exists(i), mark_tainted(ids), UNCHANGED sessions
    PROVE  /\ marks' \subseteq Ids /\ missed' \subseteq Ids \cup {None} /\ faults' \in 0..MaxFaults
           /\ marks \subseteq marks' /\ marks \cup missed \subseteq marks' \cup missed'
           /\ \A i \in ids : depth[i] >= WalkCap \/ root[i] \in marks' \cup missed'
<1>1. lineage_root(ids) \subseteq Ids /\ ids \subseteq Ids
  BY RootsAreSessions
<1>2. \A i \in ids : depth[i] >= WalkCap \/ root[i] \in lineage_root(ids)
  BY <1>1, TaintParameters DEF lineage_root, TypeOK
<1>3. CASE marks' = marks \cup ids \cup lineage_root(ids) /\ NoFault /\ missed' = missed \ lineage_root(ids)
  BY <1>1, <1>2, <1>3 DEF TypeOK, NoFault
<1>4. CASE marks' = marks \cup ids /\ Fault /\ missed' = missed \cup (lineage_root(ids) \ marks')
  <2>1. faults' \in 0..MaxFaults
    BY <1>4, TaintParameters DEF TypeOK, Fault
  <2> QED BY <1>1, <1>2, <1>4, <2>1 DEF TypeOK
<1> QED BY <1>3, <1>4 DEF mark_tainted, _keys_to_mark

\* The answer "not tainted" is of sessions whose content, if any, was missed.
LEMMA CleanIsMissed ==
    ASSUME TypeOK, ContentSeen, NEW ids, NEW i \in ids, is_tainted(ids, FALSE), i \in content
    PROVE  root[i] \in missed
<1>1. ~is_marked(ids)
  BY DEF is_tainted
<1>2. i \in Ids /\ root[i] \in Ids /\ (depth[i] >= WalkCap \/ root[i] \in marks \cup missed)
  BY DEF ContentSeen, Seen, Exists
<1>3. ~(depth[i] >= WalkCap)
  BY <1>1 DEF is_marked, too_long
<1>4. root[i] \in lineage_root(ids)
  BY <1>2, <1>3, TaintParameters DEF lineage_root, TypeOK
<1>5. root[i] \notin marks
  BY <1>1, <1>4 DEF is_marked
<1> QED BY <1>2, <1>3, <1>5

LEMMA FaultCounts ==
    ASSUME TypeOK, NoFault \/ Fault PROVE faults' \in 0..MaxFaults
  BY TaintParameters DEF TypeOK, NoFault, Fault

-----------------------------------------------------------------------------
THEOREM Initially == Init => IInv
<1> SUFFICES ASSUME Init PROVE IInv
  OBVIOUS
<1> QED BY TaintParameters DEF Init, IInv, TypeOK, TurnOfTip, ContentSeen, RowsOfSessions, KnownSource, Exists,
                               InTurn, NoTurn

\* What leaves the sessions, marks and content alone keeps what is seen.
LEMMA SeenStays ==
    ASSUME IInv, UNCHANGED <<sessions, content>>, marks \cup missed \subseteq marks' \cup missed'
    PROVE  ContentSeen'
  BY DEF IInv, ContentSeen, Seen, Exists, sessions

LEMMA RowsStay ==
    ASSUME IInv, UNCHANGED sessions, content \subseteq content', pending' \subseteq pending
    PROVE  RowsOfSessions'
  BY DEF IInv, RowsOfSessions, Exists, sessions

LEMMA TurnSteps ==
    ASSUME IInv, BeginTurn \/ record_expires \/ EndTurn \/ Restart PROVE IInv'
<1> USE DEF IInv
<1>1. UNCHANGED <<sessions, marks, tip, saved, faults, content, missed>>
  BY DEF BeginTurn, record_expires, EndTurn, Restart
<1>2. ContentSeen' /\ KnownSource'
  BY <1>1, SeenStays DEF KnownSource
<1>3. turn' \in Turns \cup {NoTurn} /\ TurnOfTip'
  <2>1. CASE BeginTurn
    BY <1>1, <2>1 DEF BeginTurn, TurnOfTip, OfTip, Exists, sessions, TypeOK, Turns, NoTurn, InTurn
  <2>2. CASE record_expires
    <3>1. turn \in Turns
      BY <2>2 DEF record_expires, TypeOK, NoTurn
    <3>2. turn' = [turn EXCEPT !.session = None] /\ turn # NoTurn
      BY <2>2 DEF record_expires, NoTurn
    <3>3. turn' \in Turns /\ turn'.task = turn.task /\ turn'.session = None
      BY <3>1, <3>2 DEF Turns
    <3>4. TurnOfTip'
      BY <1>1, <3>2, <3>3 DEF TurnOfTip, OfTip, Exists, sessions, InTurn
    <3> QED BY <3>3, <3>4
  <2>3. CASE turn' = NoTurn
    BY <1>1, <2>3 DEF TurnOfTip, Exists, sessions, NoTurn, InTurn
  <2> QED BY <2>1, <2>2, <2>3 DEF EndTurn, Restart
<1>4. pending' \subseteq [session : Ids, mixed : BOOLEAN] /\ RowsOfSessions'
  <2>1. CASE pending' = pending
    BY <1>1, <2>1, RowsStay DEF TypeOK
  <2>2. CASE EndTurn /\ sync_turn
    <3>1. pending' = pending \cup {[session |-> tip, mixed |-> tip \in content]}
      BY <2>2 DEF sync_turn
    <3>2. Exists(tip)
      BY DEF TurnOfTip
    <3>3. ASSUME NEW r \in pending'
          PROVE  /\ r \in [session : Ids, mixed : BOOLEAN]
                 /\ Exists(r.session) /\ (r.mixed => r.session \in content)
      <4>1. CASE r \in pending
        BY <4>1 DEF RowsOfSessions, TypeOK
      <4>2. CASE r = [session |-> tip, mixed |-> tip \in content]
        <5>1. (tip \in content) \in BOOLEAN
          OBVIOUS
        <5>2. r \in [session : Ids, mixed : BOOLEAN] /\ r.session = tip
          BY <4>2, <5>1, Zenon DEF TypeOK
        <5>3. r.mixed = (tip \in content)
          BY <4>2, Zenon
        <5> QED BY <3>2, <5>2, <5>3, Zenon
      <4> QED BY <3>1, <3>3, <4>1, <4>2
    <3> QED BY <1>1, <3>3 DEF RowsOfSessions, Exists, sessions
  <2> QED BY <2>1, <2>2 DEF BeginTurn, record_expires, EndTurn, Restart
<1> QED BY <1>1, <1>2, <1>3, <1>4 DEF TypeOK, sessions

LEMMA HookSteps == ASSUME IInv, pre_llm_call_hook PROVE IInv'
<1> USE DEF IInv
<1> DEFINE ids == {tip, turn.task}
<1>1. UNCHANGED <<sessions, tip, pending, saved, content>> /\ InTurn
  BY DEF pre_llm_call_hook
<1>2. turn \in Turns /\ turn' = [turn EXCEPT !.session = tip, !.hooked = TRUE]
  BY <1>1 DEF pre_llm_call_hook, InTurn, TypeOK
<1>3. \A i \in ids : Exists(i)
  BY <1>1 DEF TurnOfTip, OfTip
<1>4. /\ marks' \subseteq Ids /\ missed' \subseteq Ids \cup {None} /\ faults' \in 0..MaxFaults
      /\ marks \cup missed \subseteq marks' \cup missed'
  <2>1. CASE is_tainted(ids, FALSE) /\ UNCHANGED <<marks, missed>>
    BY <2>1, FaultCounts DEF is_tainted, TypeOK
  <2>2. CASE mark_tainted(ids)
    BY <1>1, <1>3, <2>2, MarkIsSeen
  <2>3. CASE /\ Fault /\ missed' = missed
             /\ \E keys \in {{}, ids, _keys_to_mark(ids, TRUE)} : marks' = marks \cup keys
    <3>1. {} \subseteq Ids /\ ids \subseteq Ids /\ _keys_to_mark(ids, TRUE) \subseteq Ids
      BY <1>3, RootsAreSessions DEF _keys_to_mark
    <3> HIDE DEF ids
    <3>2. PICK keys \in {{}, ids, _keys_to_mark(ids, TRUE)} : marks' = marks \cup keys
      BY <2>3
    <3> QED BY <2>3, <3>1, <3>2, FaultCounts DEF TypeOK
  <2> QED BY <2>1, <2>2, <2>3 DEF pre_llm_call_hook, remark
<1>5. TurnOfTip' /\ turn' \in Turns
  <2>1. turn' \in Turns /\ turn'.task = turn.task /\ turn'.session = tip
    BY <1>2 DEF Turns, TypeOK
  <2>2. depth[tip] <= depth[tip]
    BY DEF TypeOK
  <2> QED BY <1>1, <2>1, <2>2 DEF TurnOfTip, OfTip, Exists, sessions
<1>6. ContentSeen' /\ RowsOfSessions' /\ KnownSource'
  BY <1>1, <1>4, SeenStays, RowsStay DEF KnownSource
<1> QED BY <1>1, <1>4, <1>5, <1>6 DEF TypeOK, sessions

\* The record's ids are marked, the tip has the content: it is as deep and of
\* the same root.
LEMMA ReadSteps == ASSUME IInv, mark_then_frame PROVE IInv'
<1> USE DEF IInv
<1>1. /\ UNCHANGED <<sessions, tip, turn, pending, saved>> /\ content' = content \cup {tip}
      /\ turn.session # None /\ mark_tainted(_ids_for_turn)
  BY DEF mark_then_frame
<1>2. InTurn
  BY <1>1 DEF InTurn, NoTurn
<1>3. \A i \in _ids_for_turn : OfTip(i) /\ Exists(i)
  BY <1>1, <1>2 DEF _ids_for_turn, TurnOfTip, OfTip
<1>4. /\ marks' \subseteq Ids /\ missed' \subseteq Ids \cup {None} /\ faults' \in 0..MaxFaults
      /\ marks \cup missed \subseteq marks' \cup missed'
      /\ \A i \in _ids_for_turn : depth[i] >= WalkCap \/ root[i] \in marks' \cup missed'
  BY <1>1, <1>3, MarkIsSeen
<1>5. depth[tip] >= WalkCap \/ root[tip] \in marks' \cup missed'
  <2>1. turn.task \in _ids_for_turn
    BY DEF _ids_for_turn
  <2>2. turn.task \in Ids /\ tip \in Ids /\ depth[turn.task] \in Nat /\ depth[tip] \in Nat /\ WalkCap \in Nat
    BY <1>3, <2>1, TaintParameters DEF TypeOK, Exists
  <2> QED BY <1>3, <1>4, <2>1, <2>2 DEF OfTip
<1>6. ContentSeen'
  BY <1>1, <1>4, <1>5 DEF ContentSeen, Seen, Exists, sessions, TurnOfTip
<1>7. TurnOfTip' /\ RowsOfSessions' /\ KnownSource'
  BY <1>1, RowsStay DEF TurnOfTip, OfTip, Exists, sessions, KnownSource, InTurn
<1> QED BY <1>1, <1>4, <1>6, <1>7 DEF TypeOK, sessions

\* A save of the model's own words was let through by a guard that saw no mark.
LEMMA SaveSteps ==
    ASSUME IInv, skill_manage \/ \E batch \in SUBSET {"his", "own"} \ {{}} : memory_add(batch)
    PROVE  IInv'
<1> USE DEF IInv
<1> DEFINE ids == ids_of_call
<1>1. UNCHANGED <<sessions, marks, tip, turn, pending, content, missed>>
  BY DEF skill_manage, memory_add
<1>2. is_tainted(ids, FALSE) => ~Mixed(tip)
  BY CleanIsMissed DEF Mixed, ids_of_call
<1>3. /\ saved' \in [mixed : BOOLEAN, how : {"his", "said", "own"}]
      /\ saved'.mixed => saved'.how # "own"
      /\ faults' \in 0..MaxFaults
  <2>1. CASE skill_manage
    BY <1>2, <2>1, FaultCounts DEF skill_manage, is_tainted, Mixed, ids_of_call
  <2>2. ASSUME NEW batch \in SUBSET {"his", "own"} \ {{}}, memory_add(batch)
        PROVE  <1>3
    <3>1. PICK tainted \in BOOLEAN : is_tainted(ids, tainted) /\ evaluate_memory_taint(batch, tainted)
      BY <2>2 DEF memory_add, ids_of_call
    <3>2. PICK fact \in batch : saved' = [mixed |-> Mixed(tip), how |-> fact]
      BY <2>2 DEF memory_add
    <3>3. fact \in {"his", "own"}
      OBVIOUS
    <3>4. faults' \in 0..MaxFaults
      BY <3>1, FaultCounts DEF is_tainted
    <3>5. CASE tainted
      BY <3>1, <3>2, <3>4, <3>5 DEF evaluate_memory_taint, _save_request_suffix, Mixed
    <3>6. CASE tainted = FALSE
      BY <1>2, <3>1, <3>2, <3>3, <3>4, <3>6 DEF Mixed
    <3> QED BY <3>5, <3>6
  <2> QED BY <2>1, <2>2
<1>4. ContentSeen' /\ RowsOfSessions' /\ TurnOfTip'
  BY <1>1, SeenStays, RowsStay DEF TurnOfTip, OfTip, Exists, sessions, InTurn
<1> QED BY <1>1, <1>3, <1>4 DEF TypeOK, KnownSource, sessions

LEMMA ConsolidationSteps == ASSUME IInv, run_consolidation PROVE IInv'
<1> USE DEF IInv
<1>1. PICK rows \in SUBSET pending \ {{}}, said \in BOOLEAN :
          /\ _needs_workspace_attribution(rows, said)
          /\ saved' = [mixed |-> \E r \in rows : r.mixed /\ root[r.session] \notin missed,
                       how |-> IF said THEN "said" ELSE "own"]
          /\ pending' = pending \ rows
          /\ UNCHANGED <<sessions, marks, tip, turn, content, missed>>
  BY DEF run_consolidation
<1> DEFINE ids == {r.session : r \in rows}
<1>2. is_tainted(ids, FALSE) => ~\E r \in rows : r.mixed /\ root[r.session] \notin missed
  <2>1. ASSUME is_tainted(ids, FALSE), NEW r \in rows, r.mixed PROVE root[r.session] \in missed
    <3>1. r.session \in ids /\ r.session \in content
      BY <1>1, <2>1 DEF RowsOfSessions
    <3> HIDE DEF ids
    <3> QED BY <2>1, <3>1, CleanIsMissed
  <2> QED BY <2>1
<1>3. is_tainted(ids, said)
  BY <1>1 DEF _needs_workspace_attribution
<1>4. faults' \in 0..MaxFaults
  BY <1>3, FaultCounts DEF is_tainted
<1>5. KnownSource' /\ saved' \in [mixed : BOOLEAN, how : {"his", "said", "own"}]
  <2> HIDE DEF ids
  <2>1. CASE said
    BY <1>1, <2>1 DEF KnownSource
  <2>2. CASE said = FALSE
    BY <1>1, <1>2, <1>3, <2>2 DEF KnownSource
  <2> QED BY <2>1, <2>2
<1>6. ContentSeen' /\ RowsOfSessions' /\ TurnOfTip'
  BY <1>1, SeenStays, RowsStay DEF TurnOfTip, OfTip, Exists, sessions, InTurn
<1> QED BY <1>1, <1>4, <1>5, <1>6 DEF TypeOK, sessions

\* A child is a new id, one deeper than the tip and of its root.
LEMMA SessionSteps == ASSUME IInv, Rotate \/ NewSession \/ Resume PROVE IInv'
<1> USE DEF IInv
<1>1. UNCHANGED <<marks, turn, pending, saved, faults, missed>>
  BY DEF Rotate, NewSession, Resume
<1>2. CASE Resume
  <2>1. UNCHANGED <<sessions, content>> /\ turn = NoTurn /\ Exists(tip')
    BY <1>2, TaintParameters DEF Resume, InTurn, TypeOK, Exists
  <2> QED BY <1>1, <2>1, SeenStays, RowsStay
          DEF TypeOK, TurnOfTip, Exists, sessions, InTurn, NoTurn, KnownSource
<1>3. ASSUME NEW i \in Ids, root[i] = None, tip' = i,
             \/ /\ root' = [root EXCEPT ![i] = root[tip]] /\ depth' = [depth EXCEPT ![i] = depth[tip] + 1]
                /\ content' = IF tip \in content THEN content \cup {i} ELSE content
             \/ /\ turn = NoTurn
                /\ root' = [root EXCEPT ![i] = i] /\ UNCHANGED <<depth, content>>
      PROVE  IInv'
  <2>1. root' \in [Ids -> Ids \cup {None}] /\ depth' \in [Ids -> Nat] /\ root'[i] \in Ids
    BY <1>3 DEF TypeOK, TurnOfTip, Exists
  <2>2. \A j \in Ids : Exists(j) => j # i /\ root'[j] = root[j] /\ depth'[j] = depth[j]
    BY <1>3, TaintParameters DEF TypeOK, Exists
  <2>3. content' \subseteq content \cup {i} /\ content \subseteq content' /\ content' \subseteq Ids
    BY <1>3 DEF TypeOK
  <2>4. ContentSeen'
    <3>1. ASSUME NEW j \in content PROVE Seen(j)'
      BY <1>1, <2>1, <2>2 DEF ContentSeen, Seen, Exists
    <3>2. ASSUME i \in content', i \notin content PROVE Seen(i)'
      <4>1. tip \in content /\ root'[i] = root[tip] /\ depth'[i] = depth[tip] + 1
        BY <1>3, <3>2 DEF TypeOK
      <4>2. depth[tip] >= WalkCap \/ root[tip] \in marks \cup missed
        BY <4>1 DEF ContentSeen, Seen
      <4>3. depth[tip] \in Nat /\ WalkCap \in Nat
        BY TaintParameters DEF TypeOK
      <4> QED BY <1>1, <2>1, <4>1, <4>2, <4>3 DEF Seen, Exists
    <3> QED BY <2>3, <3>1, <3>2 DEF ContentSeen
  <2>5. RowsOfSessions'
    BY <1>1, <2>2, <2>3 DEF RowsOfSessions, Exists
  <2>6. TurnOfTip'
    <3>1. CASE turn = NoTurn
      BY <1>1, <1>3, <2>1, <3>1 DEF TurnOfTip, Exists, InTurn, NoTurn
    <3>2. CASE turn # NoTurn
      <4>1. root'[i] = root[tip] /\ depth'[i] = depth[tip] + 1 /\ depth[tip] \in Nat
        BY <1>3, <3>2 DEF TypeOK
      <4>2. ASSUME NEW j, OfTip(j) PROVE OfTip(j)'
        <5>1. Exists(j) /\ root[j] = root[tip] /\ depth[j] <= depth[tip] /\ depth[j] \in Nat
          BY <4>2 DEF OfTip, Exists, TypeOK
        <5> QED BY <1>3, <2>2, <4>1, <5>1 DEF OfTip, Exists
      <4> QED BY <1>1, <1>3, <2>1, <4>2 DEF TurnOfTip, Exists, InTurn
    <3> QED BY <3>1, <3>2
  <2> QED BY <1>1, <1>3, <2>1, <2>3, <2>4, <2>5, <2>6 DEF TypeOK, KnownSource
<1>4. CASE Rotate \/ NewSession
  BY <1>3, <1>4 DEF Rotate, NewSession, InTurn
<1> QED BY <1>2, <1>4

LEMMA Steps == IInv /\ [Next]_vars => IInv'
<1> SUFFICES ASSUME IInv, [Next]_vars PROVE IInv'
  OBVIOUS
<1>1. CASE UNCHANGED vars
  BY <1>1 DEF vars, sessions, IInv, TypeOK, TurnOfTip, ContentSeen, RowsOfSessions, KnownSource, Seen, OfTip, Exists,
              InTurn
<1> QED BY <1>1, TurnSteps, HookSteps, ReadSteps, SaveSteps, ConsolidationSteps, SessionSteps DEF Next

-----------------------------------------------------------------------------
\* The inductive invariant: the ids of a turn are of the tip's lineage, and what
\* holds content is seen as tainted unless its mark missed the root (taint.py).
THEOREM Invariant == Spec => []IInv
  BY Initially, Steps, PTL DEF Spec

\* Every variable keeps its shape: in particular every mark and every row is of an
\* id that is a session (mark_tainted, write_pending).
THEOREM TypeCorrect == Spec => []TypeOK
<1>1. IInv => TypeOK
  BY DEF IInv
<1> QED BY <1>1, Invariant, PTL

\* What becomes memory with content in sight is in the owner's words or says its
\* source (evaluate_memory_taint, _needs_workspace_attribution).
THEOREM SourceIsKnown == Spec => []KnownSource
<1>1. IInv => KnownSource
  BY DEF IInv
<1> QED BY <1>1, Invariant, PTL
=============================================================================
