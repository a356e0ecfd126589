--------------------------- MODULE Memory_proofs ---------------------------
(***************************************************************************)
(* Proofs about Memory, for any number of texts, processes, runners, turns *)
(* and faults: no episode is made of what was erased, every turn is        *)
(* settled once, and the state has its types.                              *)
(*                                                                         *)
(* The first two need nothing of which ids the facts have, only that a     *)
(* fact keeps its id, so they hold whatever MaxFacts is.  The types need   *)
(* that there is always an id left for what is inserted.                   *)
(***************************************************************************)
EXTENDS Memory, FiniteSetTheorems, TLAPS

\* The turns that wait, those a commit took and those a cascade erased: no turn
\* is two of these, and those that were written are all of them.
Committed == {t \in TurnIds : commits[t] # 0}
Apart(waits, took, lost, n) ==
    /\ waits \cap took = {} /\ waits \cap lost = {} /\ took \cap lost = {}
    /\ waits \cup took \cup lost = 1..n
TurnsApart ==
    /\ written \in 0..MaxTurns
    /\ commits \in [TurnIds -> {0, 1}]
    /\ Apart(Ids(turn), Committed, gone, written)

\* An episode is made of turns that were committed, and refers to facts that are.
EpisodesBacked == \A e \in episode : e.from \subseteq Committed /\ e.refs \subseteq Ids(fact)

\* So would be the answer of a model, if the generation is still the one it was
\* asked at.
JobShape(j) == j = [pc |-> j.pc, trig |-> j.trig, rows |-> j.rows, attempt |-> j.attempt, found |-> j.found]
Backed(r) ==
    \A e \in job[r].found :
        /\ e = [id |-> e.id, about |-> e.about, refs |-> e.refs, from |-> e.from]
        /\ e.from = job[r].rows
        /\ r \in current => e.refs \subseteq Ids(fact)
AnswersBacked ==
    /\ job = [r \in Runners |-> job[r]]
    /\ \A r \in Runners : JobShape(job[r]) /\ Backed(r)

IInv == TurnsApart /\ EpisodesBacked /\ AnswersBacked

-----------------------------------------------------------------------------
(* What erases, inserts or checks only takes away, and raises the          *)
(* generation when it takes a fact.                                        *)
Erases ==
    /\ turn' \subseteq turn /\ episode' \subseteq episode
    /\ \A e \in episode' : e.refs \subseteq Ids(fact) => e.refs \subseteq Ids(fact')
    /\ current' \subseteq current
    /\ current' = {} \/ Ids(fact) \subseteq Ids(fact')
    /\ Remember

\* A runner goes on with what it has in hand, or without it.
Works == /\ job' = [r \in Runners |-> job'[r]]
         /\ \A r \in Runners : /\ JobShape(job'[r])
                               /\ \/ job'[r].found = {}
                                  \/ job'[r].found = job[r].found /\ job'[r].rows = job[r].rows

LEMMA ErasesKeeps ==
    ASSUME IInv, Erases, Works, UNCHANGED <<written, commits>> PROVE IInv'
<1> USE DEF IInv
<1>1. TurnsApart'
  <2>1. Ids(turn') \subseteq Ids(turn)
    BY DEF Erases, Ids
  <2>2. Committed' = Committed
    BY DEF Committed
  <2> QED BY <2>1, <2>2 DEF TurnsApart, Apart, Erases, Remember
<1>2. EpisodesBacked'
  BY DEF EpisodesBacked, Erases, Committed
<1>3. AnswersBacked'
  <2>1. ASSUME NEW r \in Runners PROVE Backed(r)'
    BY DEF AnswersBacked, Backed, Erases, Works
  <2>2. ASSUME NEW r \in Runners PROVE JobShape(job[r])'
    BY DEF Works, JobShape
  <2> QED BY <2>1, <2>2 DEF AnswersBacked, Works
<1> QED BY <1>1, <1>2, <1>3

LEMMA StillWorks == ASSUME AnswersBacked, UNCHANGED job PROVE Works
  BY DEF AnswersBacked, Works

LEMMA CascadeErases ==
    ASSUME NEW done \in SUBSET fact, NEW missed, NEW more,
           forget_cascade(done, missed), fact' = (fact \ done) \cup more, Remember
    PROVE  Erases
<1>1. turn' \subseteq turn /\ episode' \subseteq episode
  BY DEF forget_cascade, Kept, Rest
<1>2. ASSUME NEW e \in episode', e.refs \subseteq Ids(fact) PROVE e.refs \subseteq Ids(fact')
  <2>1. e.refs \cap Ids(done) = {}
    BY DEF forget_cascade, Kept
  <2> QED BY <1>2, <2>1 DEF Ids
<1>3. current' \subseteq current /\ (current' = {} \/ Ids(fact) \subseteq Ids(fact'))
  BY DEF forget_cascade, Ids
<1> QED BY <1>1, <1>2, <1>3 DEF Erases

LEMMA EraseErases == ASSUME NEW f \in fact, erase_fact(f) PROVE Erases
<1>1. PICK done \in SUBSET {f} : fact' = fact \ done /\ forget_cascade(done, {f} \ done) /\ Remember
  BY DEF erase_fact
<1> QED BY <1>1, CascadeErases, fact' = (fact \ done) \cup {}

\* Nothing goes.
LEMMA AddErases ==
    ASSUME Ids(fact) \subseteq Ids(fact'), UNCHANGED <<turn, episode, current, gone>>
    PROVE  Erases
  BY DEF Erases, Remember

LEMMA CheckErases == ASSUME NEW force, Check(force) PROVE Erases
<1>1. CASE UNCHANGED <<fact, turn, episode, current, gone>>
  BY <1>1, AddErases
<1>2. CASE Reconcile
  <2>1. PICK done, more :
            /\ done \in SUBSET Doomed
            /\ fact' = (fact \ done) \cup more /\ Remember
            /\ IF Doomed = {} THEN UNCHANGED <<turn, episode, current>>
                              ELSE forget_cascade(done, Doomed \ done)
    BY <1>2 DEF Reconcile
  <2>2. CASE Doomed = {}
    <3>1. Ids(fact) \subseteq Ids(fact')
      BY <2>1, <2>2 DEF Ids
    <3>2. gone' = gone
      BY <2>1, <2>2 DEF Remember
    <3> QED BY <2>1, <2>2, <3>1, <3>2, AddErases
  <2>3. CASE Doomed # {}
    <3>1. done \in SUBSET fact
      BY <2>1 DEF Doomed
    <3> QED BY <2>1, <2>3, <3>1, CascadeErases
  <2> QED BY <2>2, <2>3
<1> QED BY <1>1, <1>2 DEF Check, run_file_check, CheckFails

LEMMA MirrorErases == ASSUME on_memory_write PROVE Erases
<1>1. CASE _notify_add
  <2>1. Ids(fact) \subseteq Ids(fact')
    BY <1>1 DEF _notify_add, Insert, Ids
  <2> QED BY <1>1, <2>1, AddErases DEF _notify_add
<1>2. CASE _notify_replace
  <2>1. CASE Named(notice.text) = {}
    BY <1>2, <2>1, AddErases DEF _notify_replace
  <2>2. ASSUME NEW f \in Named(notice.text), erase_fact(f) PROVE Erases
    BY <2>2, EraseErases DEF Named
  <2>3. ASSUME NEW f \in Named(notice.text), Rewrite(f, notice.new) \/ fact' = fact,
               UNCHANGED <<turn, episode, current, gone>>
        PROVE  Erases
    <3>1. f \in fact /\ (Rewrite(f, notice.new) => [f EXCEPT !.text = notice.new].id = f.id)
      BY <2>3 DEF Named
    <3>2. Ids(fact) \subseteq Ids(fact')
      BY <2>3, <3>1 DEF Rewrite, Ids
    <3> QED BY <2>3, <3>2, AddErases
  <2> QED BY <1>2, <2>1, <2>2, <2>3 DEF _notify_replace
<1>3. CASE _notify_remove
  <2>1. CASE Named(notice.text) = {}
    BY <1>3, <2>1, AddErases DEF _notify_remove
  <2>2. CASE Named(notice.text) # {}
    <3>1. PICK f \in Named(notice.text) : erase_fact(f)
      BY <1>3, <2>2 DEF _notify_remove
    <3> QED BY <3>1, EraseErases DEF Named
  <2> QED BY <2>1, <2>2
<1>4. CASE _unmatched_fallback
  BY <1>4, CheckErases DEF _unmatched_fallback
<1> QED BY <1>1, <1>2, <1>3, <1>4 DEF on_memory_write

LEMMA ForgetErases == ASSUME NEW p, NEW x, forget_memory(p, x) PROVE Erases
<1>1. /\ turn' \subseteq turn /\ episode' \subseteq episode
      /\ current' \subseteq current /\ fact' = fact /\ Remember
  BY DEF forget_memory, Rest
<1> QED BY <1>1 DEF Erases

-----------------------------------------------------------------------------
(* The steps of the consolidator.                                          *)

\* A runner's new place.
LEMMA Goes ==
    ASSUME AnswersBacked, NEW r \in Runners, NEW j, job' = [job EXCEPT ![r] = j], JobShape(j),
           j.found = {} \/ (j.found = job[r].found /\ j.rows = job[r].rows)
    PROVE  Works
<1>1. \A q \in Runners : job'[q] = IF q = r THEN j ELSE job[q]
  BY DEF AnswersBacked
<1>2. ASSUME NEW q \in Runners
      PROVE  /\ JobShape(job'[q])
             /\ job'[q].found = {} \/ (job'[q].found = job[q].found /\ job'[q].rows = job[q].rows)
  <2>1. CASE q = r
    BY <1>1, <2>1
  <2>2. CASE q # r
    BY <1>1, <2>2 DEF AnswersBacked
  <2> QED BY <2>1, <2>2
<1>3. job' = [q \in Runners |-> job'[q]]
  BY DEF AnswersBacked
<1> QED BY <1>2, <1>3 DEF Works

\* What a runner has in hand, with some of its fields changed.
LEMMA Moved ==
    ASSUME NEW j, JobShape(j), NEW pc
    PROVE  /\ JobShape([j EXCEPT !.pc = pc])
           /\ [j EXCEPT !.pc = pc].found = j.found /\ [j EXCEPT !.pc = pc].rows = j.rows
<1>1. PICK a, b, c, d, f : j = [pc |-> a, trig |-> b, rows |-> c, attempt |-> d, found |-> f]
  BY DEF JobShape
<1>2. [j EXCEPT !.pc = pc] = [pc |-> pc, trig |-> b, rows |-> c, attempt |-> d, found |-> f]
  BY <1>1
<1> QED BY <1>1, <1>2 DEF JobShape

LEMMA Woken ==
    ASSUME NEW j, JobShape(j), NEW trig
    PROVE  /\ JobShape([j EXCEPT !.pc = "woken", !.trig = trig])
           /\ [j EXCEPT !.pc = "woken", !.trig = trig].found = j.found
           /\ [j EXCEPT !.pc = "woken", !.trig = trig].rows = j.rows
<1>1. PICK a, b, c, d, f : j = [pc |-> a, trig |-> b, rows |-> c, attempt |-> d, found |-> f]
  BY DEF JobShape
<1>2. PICK k : k = [j EXCEPT !.pc = "woken"]
  OBVIOUS
<1>3. k = [pc |-> "woken", trig |-> b, rows |-> c, attempt |-> d, found |-> f]
  BY <1>1, <1>2
<1>4. [k EXCEPT !.trig = trig] = [pc |-> "woken", trig |-> trig, rows |-> c, attempt |-> d, found |-> f]
  BY <1>3
<1>5. [j EXCEPT !.pc = "woken", !.trig = trig] = [[j EXCEPT !.pc = "woken"] EXCEPT !.trig = trig]
  BY <1>1
<1>6. [j EXCEPT !.pc = "woken", !.trig = trig] = [pc |-> "woken", trig |-> trig, rows |-> c, attempt |-> d, found |-> f]
  BY <1>2, <1>4, <1>5
<1> QED BY <1>1, <1>6 DEF JobShape

LEMMA Answered ==
    ASSUME NEW j, JobShape(j), NEW found
    PROVE  /\ JobShape([j EXCEPT !.pc = "answered", !.found = found])
           /\ [j EXCEPT !.pc = "answered", !.found = found].found = found
           /\ [j EXCEPT !.pc = "answered", !.found = found].rows = j.rows
<1>1. PICK a, b, c, d, f : j = [pc |-> a, trig |-> b, rows |-> c, attempt |-> d, found |-> f]
  BY DEF JobShape
<1>2. PICK k : k = [j EXCEPT !.pc = "answered"]
  OBVIOUS
<1>3. k = [pc |-> "answered", trig |-> b, rows |-> c, attempt |-> d, found |-> f]
  BY <1>1, <1>2
<1>4. [k EXCEPT !.found = found] = [pc |-> "answered", trig |-> b, rows |-> c, attempt |-> d, found |-> found]
  BY <1>3
<1>5. [j EXCEPT !.pc = "answered", !.found = found] = [[j EXCEPT !.pc = "answered"] EXCEPT !.found = found]
  BY <1>1
<1>6. [j EXCEPT !.pc = "answered", !.found = found] = [pc |-> "answered", trig |-> b, rows |-> c, attempt |-> d, found |-> found]
  BY <1>2, <1>4, <1>5
<1> QED BY <1>1, <1>6 DEF JobShape

LEMMA Empty == JobShape(Idle) /\ Idle.found = {}
  BY DEF JobShape, Idle

LEMMA Left == ASSUME NEW pc PROVE JobShape([Idle EXCEPT !.pc = pc]) /\ [Idle EXCEPT !.pc = pc].found = {}
  BY Empty, Moved

LEMMA Asked ==
    ASSUME NEW pc, NEW rows, NEW n
    PROVE  /\ JobShape([Idle EXCEPT !.pc = pc, !.rows = rows, !.attempt = n])
           /\ [Idle EXCEPT !.pc = pc, !.rows = rows, !.attempt = n].found = {}
<1>1. PICK j : j = Idle
  OBVIOUS
<1>2. j = [pc |-> "idle", trig |-> "none", rows |-> {}, attempt |-> 0, found |-> {}]
  BY <1>1 DEF Idle
<1>3. PICK k : k = [j EXCEPT !.pc = pc]
  OBVIOUS
<1>4. k = [pc |-> pc, trig |-> "none", rows |-> {}, attempt |-> 0, found |-> {}]
  BY <1>2, <1>3
<1>5. PICK l : l = [k EXCEPT !.rows = rows]
  OBVIOUS
<1>6. l = [pc |-> pc, trig |-> "none", rows |-> rows, attempt |-> 0, found |-> {}]
  BY <1>4, <1>5
<1>7. [l EXCEPT !.attempt = n] = [pc |-> pc, trig |-> "none", rows |-> rows, attempt |-> n, found |-> {}]
  BY <1>6
<1>8. [j EXCEPT !.pc = pc, !.rows = rows, !.attempt = n]
         = [[[j EXCEPT !.pc = pc] EXCEPT !.rows = rows] EXCEPT !.attempt = n]
  BY <1>2
<1>9. [j EXCEPT !.pc = pc, !.rows = rows, !.attempt = n]
         = [pc |-> pc, trig |-> "none", rows |-> rows, attempt |-> n, found |-> {}]
  BY <1>3, <1>5, <1>7, <1>8
<1> QED BY <1>1, <1>9 DEF JobShape

LEMMA RequestWorks ==
    ASSUME AnswersBacked, NEW p, NEW trig, request_consolidate(p, trig) PROVE Works
<1>1. CASE running[p]
  BY <1>1, StillWorks DEF request_consolidate
<1>2. CASE ~running[p]
  <2>1. PICK r \in Of(p) : job' = [job EXCEPT ![r] = [@ EXCEPT !.pc = "woken", !.trig = trig]]
    BY <1>2 DEF request_consolidate
  <2>2. r \in Runners /\ JobShape(job[r])
    BY <2>1 DEF Of, AnswersBacked
  <2>3. job' = [job EXCEPT ![r] = [job[r] EXCEPT !.pc = "woken", !.trig = trig]]
    BY <2>1
  <2>4. PICK j : j = [job[r] EXCEPT !.pc = "woken", !.trig = trig]
    OBVIOUS
  <2>5. JobShape(j) /\ j.found = job[r].found /\ j.rows = job[r].rows
    BY <2>2, <2>4, Woken
  <2> QED BY <2>2, <2>3, <2>4, <2>5, Goes
<1> QED BY <1>1, <1>2

\* Whatever a runner does but ask, answer and commit keeps IInv.
Store == <<turn, episode, fact, gone>>
LEMMA QuietKeeps ==
    ASSUME IInv, Works, current' \subseteq current, UNCHANGED <<Store, written, commits>> PROVE IInv'
<1>1. Erases
  BY DEF Erases, Remember, Store
<1> QED BY <1>1, ErasesKeeps

LEMMA BeginKeeps == ASSUME IInv, NEW r \in Runners, run_consolidation(r) PROVE IInv'
<1>s. UNCHANGED <<turn, episode, fact, gone, written, commits>> /\ JobShape(job[r])
  BY DEF run_consolidation, IInv, AnswersBacked
<1>1. CASE job' = [job EXCEPT ![r] = [Idle EXCEPT !.pc = "leaving"]] /\ current' = current
  <2>1. Works
    BY <1>1, <1>s, Left, Goes DEF IInv
  <2> QED BY <1>1, <1>s, <2>1, QuietKeeps DEF Store
<1>2. CASE begin_consolidation(r) /\ ~GivesUp(r, Ids(turn))
  <2>1. PICK n : job' = [job EXCEPT ![r] = [Idle EXCEPT !.pc = "asked", !.rows = Ids(turn), !.attempt = n]]
    BY <1>2 DEF begin_consolidation
  <2>2. Works
    BY <2>1, <1>s, Asked, Goes DEF IInv
  <2>3. job'[r].found = {} /\ current' = current \cup {r}
    BY <2>1, <1>2, Asked DEF begin_consolidation, IInv, AnswersBacked
  <2>4. TurnsApart' /\ EpisodesBacked'
    BY <1>s DEF IInv, TurnsApart, EpisodesBacked, Apart, Committed, Ids
  <2>5. ASSUME NEW q \in Runners PROVE Backed(q)' /\ JobShape(job[q])'
    <3>1. CASE q = r
      BY <2>2, <2>3, <3>1 DEF Backed, Works, JobShape
    <3>2. CASE q # r
      <4>1. Backed(q) /\ job'[q] = job[q] /\ (q \in current' <=> q \in current)
        BY <2>1, <2>3, <3>2 DEF IInv, AnswersBacked
      <4> QED BY <1>s, <2>2, <4>1 DEF Backed, Works, Ids, JobShape
    <3> QED BY <3>1, <3>2
  <2> QED BY <2>2, <2>4, <2>5 DEF IInv, AnswersBacked, Works
<1> QED BY <1>1, <1>2 DEF run_consolidation, begin_consolidation

LEMMA AnswerKeeps == ASSUME IInv, NEW r \in Runners, validate_episodes(r) PROVE IInv'
<1>1. PICK found \in Answers(job[r].rows) :
          job' = [job EXCEPT ![r] = [job[r] EXCEPT !.pc = "answered", !.found = found]]
  BY DEF validate_episodes
<1>2. UNCHANGED <<turn, episode, fact, gone, written, commits, current>> /\ JobShape(job[r])
  BY DEF validate_episodes, store, IInv, AnswersBacked
<1>3. /\ JobShape([job[r] EXCEPT !.pc = "answered", !.found = found])
      /\ [job[r] EXCEPT !.pc = "answered", !.found = found].found = found
      /\ [job[r] EXCEPT !.pc = "answered", !.found = found].rows = job[r].rows
  BY <1>2, Answered
<1>4. ASSUME NEW e \in found
      PROVE  /\ e = [id |-> e.id, about |-> e.about, refs |-> e.refs, from |-> e.from]
             /\ e.from = job[r].rows /\ e.refs \subseteq Ids(fact)
  <2>1. PICK x \in Texts \cup {None}, refs \in fact_refs :
            found = {[id |-> MaxFacts + 1, about |-> x, refs |-> refs, from |-> job[r].rows]}
    BY DEF Answers
  <2>2. e = [id |-> MaxFacts + 1, about |-> x, refs |-> refs, from |-> job[r].rows]
    BY <2>1
  <2>3. refs \subseteq Ids(fact)
    BY DEF fact_refs
  <2> QED BY <2>2, <2>3
<1>5. \A q \in Runners :
          job'[q] = IF q = r THEN [job[r] EXCEPT !.pc = "answered", !.found = found] ELSE job[q]
  BY <1>1 DEF IInv, AnswersBacked
<1>6. ASSUME NEW q \in Runners PROVE Backed(q)' /\ JobShape(job[q])'
  <2>1. CASE q = r
    <3>1. job'[q].found = found /\ job'[q].rows = job[r].rows /\ JobShape(job'[q])
      BY <1>3, <1>5, <2>1
    <3>2. Backed(q)'
      BY <1>2, <1>4, <2>1, <3>1 DEF Backed, Ids
    <3> QED BY <3>1, <3>2 DEF JobShape
  <2>2. CASE q # r
    <3>1. job'[q] = job[q] /\ Backed(q) /\ JobShape(job[q])
      BY <1>5, <2>2 DEF IInv, AnswersBacked
    <3> QED BY <1>2, <3>1 DEF Backed, Ids, JobShape
  <2> QED BY <2>1, <2>2
<1>7. job' = [q \in Runners |-> job'[q]]
  BY <1>1 DEF IInv, AnswersBacked
<1>8. TurnsApart' /\ EpisodesBacked'
  BY <1>2 DEF IInv, TurnsApart, EpisodesBacked, Apart, Committed, Ids
<1> QED BY <1>6, <1>7, <1>8 DEF IInv, AnswersBacked

LEMMA CommitKeeps == ASSUME IInv, NEW r \in Runners, _commit(r) PROVE IInv'
<1> DEFINE rows == job[r].rows
<1>1. rows = Ids(turn) /\ r \in current /\ JobShape(job[r])
  BY DEF _commit, can_commit, IInv, AnswersBacked
<1>2. Ids(turn') = {}
  BY <1>1 DEF _commit, Ids
<1>3. \A t \in TurnIds : t \in rows => commits[t] = 0
  BY <1>1 DEF IInv, TurnsApart, Apart, Committed
<1>4. \A t \in TurnIds : commits'[t] = IF t \in rows THEN 1 ELSE commits[t]
  BY <1>3 DEF _commit
<1>5. commits' \in [TurnIds -> {0, 1}]
  BY <1>4 DEF _commit, IInv, TurnsApart
<1>6. rows \subseteq TurnIds
  <2>1. rows \subseteq 1..written /\ written \in 0..MaxTurns
    BY <1>1 DEF IInv, TurnsApart, Apart
  <2>2. 1..written \subseteq TurnIds
    BY <2>1, MemoryParameters DEF TurnIds
  <2> QED BY <2>1, <2>2
<1>7. Committed' = Committed \cup rows
  BY <1>4, <1>6 DEF Committed
<1>8. TurnsApart'
  <2>1. written' = written /\ gone' = gone
    BY DEF _commit
  <2> QED BY <1>1, <1>2, <1>5, <1>7, <2>1 DEF IInv, TurnsApart, Apart
<1>9. EpisodesBacked'
  <2>1. ASSUME NEW e \in job[r].found, NEW i
        PROVE  [e EXCEPT !.id = i].from = rows /\ [e EXCEPT !.id = i].refs \subseteq Ids(fact)
    BY <1>1 DEF IInv, AnswersBacked, Backed
  <2>2. \A e \in episode' : e \in episode \/ \E f \in job[r].found : \E i : e = [f EXCEPT !.id = i]
    BY DEF _commit
  <2>3. Ids(fact') = Ids(fact)
    BY DEF _commit
  <2>4. ASSUME NEW e \in episode' PROVE e.from \subseteq Committed' /\ e.refs \subseteq Ids(fact')
    <3>1. CASE e \in episode
      BY <1>7, <2>3, <3>1 DEF EpisodesBacked, IInv
    <3>2. CASE \E f \in job[r].found : \E i : e = [f EXCEPT !.id = i]
      <4>1. PICK f, i : f \in job[r].found /\ e = [f EXCEPT !.id = i]
        BY <3>2
      <4>2. e.from = rows /\ e.refs \subseteq Ids(fact)
        BY <2>1, <4>1
      <4> QED BY <1>7, <2>3, <4>2
    <3> QED BY <2>2, <3>1, <3>2
  <2> HIDE DEF rows
  <2> QED BY <2>4 DEF EpisodesBacked
<1>10. AnswersBacked'
  <2>1. Works
    <3>1. job' = [job EXCEPT ![r] = [Idle EXCEPT !.pc = "leaving"]]
      BY DEF _commit
    <3> QED BY <1>1, <3>1, Left, Goes DEF IInv
  <2>2. current' \subseteq current /\ fact' = fact
    BY DEF _commit
  <2>3. ASSUME NEW q \in Runners PROVE Backed(q)' /\ JobShape(job[q])'
    BY <2>1, <2>2 DEF IInv, AnswersBacked, Backed, Works, Ids, JobShape
  <2> QED BY <2>1, <2>3 DEF AnswersBacked, Works
<1> QED BY <1>8, <1>9, <1>10 DEF IInv

\* One more turn waits.
LEMMA SyncKeeps == ASSUME IInv, NEW p, sync_turn(p) PROVE IInv'
<1>1. /\ UNCHANGED <<episode, fact, job, current, gone, commits>>
      /\ written < MaxTurns /\ written' = written + 1 /\ Ids(turn') = Ids(turn) \cup {written + 1}
  <2>1. PICK x : turn' = turn \cup {[id |-> written + 1, about |-> x]}
    BY DEF sync_turn, write_pending
  <2>2. Ids(turn') = Ids(turn) \cup {written + 1}
    <3>1. PICK new : new = [id |-> written + 1, about |-> x]
      OBVIOUS
    <3>2. turn' = turn \cup {new} /\ new.id = written + 1
      BY <2>1, <3>1
    <3> QED BY <3>2 DEF Ids
  <2>3. /\ UNCHANGED <<episode, fact, job, current, gone, commits>>
        /\ written < MaxTurns /\ written' = written + 1
    BY DEF sync_turn, mind
  <2> QED BY <2>2, <2>3
<1>2. 1..written' = (1..written) \cup {written + 1} /\ written + 1 \notin 1..written
      /\ written' \in 0..MaxTurns
  BY <1>1, MemoryParameters DEF IInv, TurnsApart
<1>3. Committed' = Committed
  BY <1>1 DEF Committed
<1>4. TurnsApart'
  BY <1>1, <1>2, <1>3 DEF IInv, TurnsApart, Apart
<1>5. EpisodesBacked' /\ AnswersBacked'
  BY <1>1, <1>3 DEF IInv, EpisodesBacked, AnswersBacked, Backed, JobShape, Ids
<1> QED BY <1>4, <1>5 DEF IInv

LEMMA ContinueWorks == ASSUME AnswersBacked, NEW r \in Runners, Continue(r) PROVE Works
<1>1. JobShape(job[r])
  BY DEF AnswersBacked
<1>2. \/ job' = [job EXCEPT ![r] = [job[r] EXCEPT !.pc = "closing"]]
      \/ \E trig : job' = [job EXCEPT ![r] = [job[r] EXCEPT !.pc = "woken", !.trig = trig]]
  <2>1. /\ [job EXCEPT ![r].pc = "closing"] = [job EXCEPT ![r] = [job[r] EXCEPT !.pc = "closing"]]
        /\ \A trig : [job EXCEPT ![r].pc = "woken", ![r].trig = trig]
                        = [job EXCEPT ![r] = [job[r] EXCEPT !.pc = "woken", !.trig = trig]]
    BY DEF AnswersBacked
  <2> QED BY <2>1 DEF Continue
<1>3. CASE job' = [job EXCEPT ![r] = [job[r] EXCEPT !.pc = "closing"]]
  <2>1. PICK k : k = [job[r] EXCEPT !.pc = "closing"]
    OBVIOUS
  <2>2. JobShape(k) /\ k.found = job[r].found /\ k.rows = job[r].rows
    BY <1>1, <2>1, Moved
  <2> QED BY <1>3, <2>1, <2>2, Goes
<1>4. ASSUME NEW trig, job' = [job EXCEPT ![r] = [job[r] EXCEPT !.pc = "woken", !.trig = trig]] PROVE Works
  <2>1. PICK k : k = [job[r] EXCEPT !.pc = "woken", !.trig = trig]
    OBVIOUS
  <2>2. JobShape(k) /\ k.found = job[r].found /\ k.rows = job[r].rows
    BY <1>1, <2>1, Woken
  <2> QED BY <1>4, <2>1, <2>2, Goes
<1> QED BY <1>2, <1>3, <1>4

LEMMA RestartWorks == ASSUME AnswersBacked, NEW p, Restart(p) PROVE Works
<1>1. \A r \in Runners : job'[r] = IF Home[r] = p THEN Idle ELSE job[r]
  BY DEF Restart
<1>2. job' = [r \in Runners |-> job'[r]]
  BY DEF Restart
<1>3. JobShape(Idle) /\ Idle.found = {}
  BY DEF JobShape, Idle
<1> QED BY <1>1, <1>2, <1>3 DEF Works, AnswersBacked

-----------------------------------------------------------------------------
(* The invariant.                                                          *)
LEMMA Initial == Init => IInv
<1> SUFFICES ASSUME Init PROVE IInv
  OBVIOUS
<1>1. TurnsApart
  <2>1. written = 0 /\ gone = {} /\ Ids(turn) = {} /\ Committed = {}
    BY DEF Init, Ids, Committed
  <2>2. 0 \in 0..MaxTurns /\ 1..0 = {}
    BY MemoryParameters
  <2> QED BY <2>1, <2>2 DEF Init, TurnsApart, Apart
<1>2. EpisodesBacked
  BY DEF Init, EpisodesBacked
<1>3. AnswersBacked
  BY DEF Init, AnswersBacked, Backed, JobShape, Idle
<1> QED BY <1>1, <1>2, <1>3 DEF IInv

LEMMA Stays == IInv /\ [Next]_vars => IInv'
<1> SUFFICES ASSUME IInv, [Next]_vars PROVE IInv'
  OBVIOUS
<1> USE DEF IInv
<1>1. CASE UNCHANGED vars
  BY <1>1, StillWorks, QuietKeeps DEF vars, Store
<1>2. CASE Operations
  <2>1. CASE MemoryTool \/ HandEdit \/ LeaseExpires
    BY <2>1, StillWorks, QuietKeeps DEF MemoryTool, HandEdit, LeaseExpires, store, mind, Store
  <2>2. CASE on_memory_write
    BY <2>2, MirrorErases, StillWorks, ErasesKeeps DEF on_memory_write, mind
  <2> QED BY <1>2, <2>1, <2>2 DEF Operations
<1>3. ASSUME NEW p \in Procs, OfProcess(p) PROVE IInv'
  <2>1. CASE initialize(p)
    <3>1. Works
      BY <2>1, StillWorks, RequestWorks DEF initialize
    <3> QED BY <2>1, <3>1, CheckErases, ErasesKeeps DEF initialize
  <2>2. CASE on_turn_start(p)
    BY <2>2, CheckErases, StillWorks, ErasesKeeps DEF on_turn_start, mind
  <2>3. CASE sync_turn(p)
    BY <2>3, SyncKeeps
  <2>4. CASE quiet_timer(p)
    BY <2>4, RequestWorks, QuietKeeps DEF quiet_timer, store, Store
  <2>5. CASE Restart(p)
    <3>1. current' \subseteq current /\ UNCHANGED <<Store, written, commits>>
      BY <2>5 DEF Restart, Store
    <3> QED BY <2>5, <3>1, RestartWorks, QuietKeeps
  <2>6. ASSUME NEW x \in Texts, forget_memory(p, x) PROVE IInv'
    BY <2>6, ForgetErases, StillWorks, ErasesKeeps DEF forget_memory, mind
  <2> QED BY <1>3, <2>1, <2>2, <2>3, <2>4, <2>5, <2>6 DEF OfProcess
<1>4. ASSUME NEW r \in Runners, Run(r) PROVE IInv'
  <2>s. JobShape(job[r])
    BY DEF AnswersBacked
  <2>1. CASE run_consolidation(r)
    BY <2>1, BeginKeeps
  <2>2. CASE model_fails(r) \/ discard(r)
    <3>1. /\ job' = [job EXCEPT ![r] = [Idle EXCEPT !.pc = "leaving"]]
          /\ current' \subseteq current /\ UNCHANGED <<Store, written, commits>>
      BY <2>2 DEF model_fails, discard, Failed, Store
    <3>2. Works
      BY <2>s, <3>1, Left, Goes
    <3> QED BY <3>1, <3>2, QuietKeeps
  <2>3. CASE validate_episodes(r)
    BY <2>3, AnswerKeeps
  <2>4. CASE _commit(r)
    BY <2>4, CommitKeeps
  <2>5. CASE Continue(r)
    BY <2>5, ContinueWorks, QuietKeeps DEF Continue, Store
  <2>6. CASE Close(r)
    <3>1. job' = [job EXCEPT ![r] = Idle] /\ UNCHANGED <<Store, current, written, commits>>
      BY <2>6 DEF Close, store, Store
    <3>2. Works
      BY <2>s, <3>1, Empty, Goes
    <3> QED BY <3>1, <3>2, QuietKeeps
  <2> QED BY <1>4, <2>1, <2>2, <2>3, <2>4, <2>5, <2>6 DEF Run
<1> QED BY <1>1, <1>2, <1>3, <1>4 DEF Next

\* IInv holds of every reachable state.
THEOREM Invariant == Spec => []IInv
  BY Initial, Stays, PTL DEF Spec

\* No episode of what a cascade erased, whichever runner was waiting for its
\* model then (bump_generation against can_commit).
THEOREM NothingEchoes == Spec => []NoEcho
<1>1. IInv => NoEcho
  BY DEF IInv, TurnsApart, Apart, EpisodesBacked, NoEcho
<1> QED BY <1>1, Invariant, PTL

\* A turn that was written waits, or was committed once, or was erased.
THEOREM SettledOnce == Spec => []TurnSettledOnce
<1>1. IInv => TurnSettledOnce
  <2> SUFFICES ASSUME IInv, NEW t \in 1..written
               PROVE  /\ commits[t] <= 1
                      /\ Cardinality({way \in {"waits", "kept", "erased"} :
                              \/ way = "waits" /\ t \in Ids(turn)
                              \/ way = "kept" /\ commits[t] = 1
                              \/ way = "erased" /\ t \in gone}) = 1
    BY DEF TurnSettledOnce
  <2> DEFINE ways == {way \in {"waits", "kept", "erased"} :
                          \/ way = "waits" /\ t \in Ids(turn)
                          \/ way = "kept" /\ commits[t] = 1
                          \/ way = "erased" /\ t \in gone}
  <2>1. t \in TurnIds
    BY MemoryParameters DEF IInv, TurnsApart, TurnIds
  <2>2. commits[t] \in {0, 1} /\ (t \in Committed <=> commits[t] = 1)
    BY <2>1 DEF IInv, TurnsApart, Committed
  <2>3. /\ t \in Ids(turn) \/ t \in Committed \/ t \in gone
        /\ ~(t \in Ids(turn) /\ t \in Committed) /\ ~(t \in Ids(turn) /\ t \in gone)
        /\ ~(t \in Committed /\ t \in gone)
    BY DEF IInv, TurnsApart, Apart
  <2>4. \E way : ways = {way}
    <3>1. CASE t \in Ids(turn)
      <4>1. ways = {"waits"}
        BY <2>2, <2>3, <3>1
      <4> QED BY <4>1
    <3>2. CASE t \in Committed
      <4>1. ways = {"kept"}
        BY <2>2, <2>3, <3>2
      <4> QED BY <4>1
    <3>3. CASE t \in gone
      <4>1. ways = {"erased"}
        BY <2>2, <2>3, <3>3
      <4> QED BY <4>1
    <3> QED BY <2>3, <3>1, <3>2, <3>3
  <2>5. Cardinality(ways) = 1
    BY <2>4, FS_Singleton
  <2> QED BY <2>2, <2>5
<1> QED BY <1>1, Invariant, PTL

-----------------------------------------------------------------------------
(* Types.  An id that is free has to be found for every fact that is       *)
(* inserted and every episode that is kept, so the types rest on what      *)
(* bounds the ids in use: a text has one fact at most, a runner's answer   *)
(* refers to one fact at most, and no two episodes are of one turn.        *)

Roomy == /\ IsFiniteSet(Texts) /\ IsFiniteSet(Runners)
         /\ MaxFacts >= 2 * Cardinality(Texts) + Cardinality(Runners)

\* A text has one fact, an id is that of one, and what is noted for erasure is a fact.
OneEach(fs) == \A f, g \in fs : f.id = g.id \/ f.text = g.text => f = g
FactsTyped == fact \subseteq Facts /\ OneEach(fact) /\ erasing \subseteq Ids(fact)

\* A notice names the texts its action is about.
NoticeTyped ==
    /\ notice \in Notices
    /\ notice.act \in {"add", "replace", "remove"} => notice.text \in Texts
    /\ notice.act = "replace" => notice.new \in Texts

\* Every episode is of some turn, and no two of the same.
EpisodesApart ==
    /\ \A e \in episode : e.from # {}
    /\ \A e, g \in episode : e.from \cap g.from # {} => e = g

\* An answer is of one episode at most, which refers to one fact at most.
OneAnswer(found) ==
    found = {} \/ \E e \in Episodes : found = {e} /\ e.from # {} /\ \E i : e.refs \subseteq {i}
JobTyped(j) == j \in Jobs /\ OneAnswer(j.found) /\ (j.pc = "asked" => j.rows # {})
JobsTyped == job = [r \in Runners |-> job[r]] /\ \A r \in Runners : JobTyped(job[r])

StoreTyped ==
    /\ turn \subseteq Turns /\ episode \subseteq Episodes
    /\ current \subseteq Runners
    /\ lease \in [owner : Procs \cup {None, Dead}, live : BOOLEAN]
    /\ wal \in {"clean", "known"}
FilesTyped ==
    /\ file \subseteq Texts /\ open \subseteq Procs
    /\ recorded \in {{}} \cup {{fs} : fs \in SUBSET Texts}
MindTyped ==
    /\ running \in [Procs -> BOOLEAN] /\ wake \in [Procs -> {"none", "initialize", "other"}]
    /\ tries \in [Procs -> [SUBSET TurnIds -> 0..MaxTries]]
CountsTyped == faults \in 0..MaxFaults /\ restarts \in 0..MaxRestarts

TInv == /\ IInv /\ FactsTyped /\ NoticeTyped /\ EpisodesApart /\ JobsTyped
        /\ StoreTyped /\ FilesTyped /\ MindTyped /\ CountsTyped

LEMMA TInvTypes == TInv => TypeOK
<1> SUFFICES ASSUME TInv PROVE TypeOK
  OBVIOUS
<1>1. erasing \subseteq FactIds
  BY DEF TInv, FactsTyped, Facts, Ids
<1>2. job \in [Runners -> Jobs]
  BY DEF TInv, JobsTyped, JobTyped
<1>3. written \in 0..MaxTurns /\ commits \in [TurnIds -> 0..2]
  <2>1. commits \in [TurnIds -> {0, 1}] /\ {0, 1} \subseteq 0..2
    BY DEF TInv, IInv, TurnsApart
  <2> QED BY <2>1 DEF TInv, IInv, TurnsApart
<1>4. gone \subseteq TurnIds
  BY <1>3, MemoryParameters DEF TInv, IInv, TurnsApart, Apart, TurnIds
<1> QED BY <1>1, <1>2, <1>3, <1>4
        DEF TypeOK, TInv, FactsTyped, NoticeTyped, StoreTyped, FilesTyped, MindTyped, CountsTyped

\* A finite set goes into one that is no smaller.
LEMMA Injects ==
    ASSUME NEW S, NEW T, IsFiniteSet(S), IsFiniteSet(T), Cardinality(S) <= Cardinality(T)
    PROVE  Injection(S, T) # {}
<1> DEFINE n == Cardinality(S)
<1>1. n \in Nat /\ Cardinality(T) \in Nat
  BY FS_CardinalityType
<1>2. PICK g \in Bijection(1..Cardinality(T), T) : TRUE
  BY FS_CardinalityType DEF ExistsBijection
<1>3. 1..n \subseteq 1..Cardinality(T)
  BY <1>1
<1> DEFINE U == {g[i] : i \in 1..n}
           h == [i \in 1..n |-> g[i]]
<1>4. U \subseteq T /\ h \in Bijection(1..n, U)
  BY <1>2, <1>3 DEF Bijection, Injection, Surjection, IsInjective
<1>5. IsFiniteSet(U) /\ Cardinality(U) = n
  <2>1. IsFiniteSet(1..n) /\ Cardinality(1..n) = n
    BY <1>1, FS_Interval
  <2>2. ExistsBijection(1..n, U)
    BY <1>4 DEF ExistsBijection
  <2> HIDE DEF U, n
  <2> QED BY <2>1, <2>2, FS_Bijection
<1>6. PICK k \in Bijection(S, U) : TRUE
  <2> HIDE DEF U
  <2> QED BY <1>5, FS_SameCardinalityBij DEF ExistsBijection
<1>7. k \in Injection(S, T)
  <2> HIDE DEF U
  <2> QED BY <1>4, <1>6 DEF Bijection, Injection
<1> QED BY <1>7

\* The facts an answer under way refers to.
Referred == UNION {UNION {e.refs : e \in job[r].found} : r \in Runners}

LEMMA FewFacts ==
    ASSUME Roomy, FactsTyped
    PROVE  IsFiniteSet(Ids(fact)) /\ Cardinality(Ids(fact)) <= Cardinality(Texts)
<1> DEFINE Says(i, x) == \E f \in fact : f.id = i /\ f.text = x
           text == [i \in Ids(fact) |-> CHOOSE x \in Texts : Says(i, x)]
<1>1. ASSUME NEW i \in Ids(fact) PROVE \E x \in Texts : Says(i, x)
  BY DEF FactsTyped, Facts, Ids
<1>2. ASSUME NEW i \in Ids(fact) PROVE text[i] \in Texts /\ Says(i, text[i])
  <2> HIDE DEF Says
  <2> QED BY <1>1
<1> HIDE DEF text
<1>3. ASSUME NEW i \in Ids(fact), NEW j \in Ids(fact), text[i] = text[j] PROVE i = j
  BY <1>2, <1>3 DEF FactsTyped, OneEach
<1>4. text \in [Ids(fact) -> Texts]
  BY <1>2 DEF text
<1>5. text \in Injection(Ids(fact), Texts)
  BY <1>3, <1>4 DEF Injection, IsInjective
<1> QED BY <1>5, FS_Injection DEF Roomy

LEMMA FewReferred ==
    ASSUME Roomy, JobsTyped
    PROVE  IsFiniteSet(Referred) /\ Cardinality(Referred) <= Cardinality(Runners)
<1> DEFINE In(r) == UNION {e.refs : e \in job[r].found}
           who == [i \in Referred |-> CHOOSE r \in Runners : i \in In(r)]
<1>1. ASSUME NEW i \in Referred PROVE \E r \in Runners : i \in In(r)
  BY DEF Referred
<1>2. ASSUME NEW i \in Referred PROVE who[i] \in Runners /\ i \in In(who[i])
  <2> HIDE DEF In
  <2> QED BY <1>1
<1>3. ASSUME NEW r \in Runners PROVE \E k : In(r) \subseteq {k}
  <2>1. CASE job[r].found = {}
    BY <2>1
  <2>2. ASSUME NEW e, job[r].found = {e}, NEW k, e.refs \subseteq {k} PROVE In(r) \subseteq {k}
    BY <2>2
  <2> HIDE DEF In
  <2> QED BY <2>1, <2>2 DEF JobsTyped, JobTyped, OneAnswer
<1> HIDE DEF who, In
<1>4. ASSUME NEW i \in Referred, NEW j \in Referred, who[i] = who[j] PROVE i = j
  BY <1>2, <1>3, <1>4
<1>5. who \in [Referred -> Runners]
  BY <1>2 DEF who
<1>6. who \in Injection(Referred, Runners)
  BY <1>4, <1>5 DEF Injection, IsInjective
<1> QED BY <1>6, FS_Injection DEF Roomy

\* Every text can be given an id that is not in use.
LEMMA IdsAreLeft ==
    ASSUME Roomy, TInv, NEW texts \in SUBSET Texts
    PROVE  Injection(texts, FactIds \ InUse) # {}
<1>1. /\ IsFiniteSet(Ids(fact)) /\ Cardinality(Ids(fact)) <= Cardinality(Texts)
      /\ IsFiniteSet(Referred) /\ Cardinality(Referred) <= Cardinality(Runners)
  BY FewFacts, FewReferred DEF TInv
<1>2. InUse = Ids(fact) \cup Referred
  <2> DEFINE kept == UNION {e.refs : e \in episode}
             asked == UNION {UNION {e.refs : e \in job[r].found} : r \in Runners}
  <2>1. kept \subseteq Ids(fact) /\ erasing \subseteq Ids(fact)
    BY DEF TInv, FactsTyped, IInv, EpisodesBacked
  <2>2. InUse = Ids(fact) \cup erasing \cup kept \cup asked
    BY Zenon DEF InUse
  <2>3. Referred = asked
    BY Zenon DEF Referred
  <2> HIDE DEF kept, asked
  <2> QED BY <2>1, <2>2, <2>3
<1>3. /\ IsFiniteSet(InUse)
      /\ Cardinality(InUse) = Cardinality(Ids(fact)) + Cardinality(Referred) - Cardinality(Ids(fact) \cap Referred)
  BY <1>1, <1>2, FS_Union
<1>4. /\ IsFiniteSet(FactIds \cap InUse) /\ Cardinality(FactIds \cap InUse) <= Cardinality(InUse)
      /\ IsFiniteSet(Ids(fact) \cap Referred)
  BY <1>1, <1>3, FS_Intersection
<1>5. IsFiniteSet(FactIds) /\ Cardinality(FactIds) = MaxFacts
  BY FS_Interval, MemoryParameters DEF FactIds
<1>6. /\ IsFiniteSet(FactIds \ InUse)
      /\ Cardinality(FactIds \ InUse) = MaxFacts - Cardinality(FactIds \cap InUse)
  BY <1>5, FS_Difference
<1>7. IsFiniteSet(texts) /\ Cardinality(texts) <= Cardinality(Texts)
  BY FS_Subset DEF Roomy
<1>8. /\ Cardinality(InUse) \in Nat /\ Cardinality(Ids(fact)) \in Nat /\ Cardinality(Referred) \in Nat
      /\ Cardinality(Ids(fact) \cap Referred) \in Nat /\ Cardinality(FactIds \cap InUse) \in Nat
      /\ Cardinality(texts) \in Nat /\ Cardinality(Texts) \in Nat /\ Cardinality(Runners) \in Nat
  BY <1>1, <1>3, <1>4, <1>7, FS_CardinalityType DEF Roomy
<1>9. Cardinality(texts) <= Cardinality(FactIds \ InUse)
  BY <1>1, <1>3, <1>4, <1>6, <1>7, <1>8, MemoryParameters DEF Roomy
<1> QED BY <1>6, <1>7, <1>9, Injects

\* What New gives: one fact for each of the texts, under ids nobody has.
LEMMA NewFacts ==
    ASSUME Roomy, TInv, NEW texts \in SUBSET Texts
    PROVE  /\ New(texts) \subseteq Facts /\ OneEach(New(texts))
           /\ Ids(New(texts)) \cap Ids(fact) = {} /\ Entries(New(texts)) = texts
<1> DEFINE free == FactIds \ InUse
           id == CHOOSE i \in Injection(texts, free) : TRUE
<1>1. id \in Injection(texts, free)
  <2> HIDE DEF free
  <2>1. Injection(texts, free) # {}
    BY IdsAreLeft DEF free
  <2> QED BY <2>1
<1>2. New(texts) = {[id |-> id[x], text |-> x] : x \in texts}
  BY DEF New
<1>3. free \subseteq FactIds /\ free \cap Ids(fact) = {}
  BY DEF InUse
<1> HIDE DEF id, free
<1>4. \A x \in texts : id[x] \in free
  BY <1>1 DEF Injection
<1>5. \A x, y \in texts : id[x] = id[y] => x = y
  BY <1>1 DEF Injection, IsInjective
<1>6. New(texts) \subseteq Facts
  BY <1>2, <1>3, <1>4 DEF Facts
<1>7. \A f \in New(texts) : f.text \in texts /\ f = [id |-> id[f.text], text |-> f.text] /\ f.id = id[f.text]
  BY <1>2
<1>8. OneEach(New(texts))
  BY <1>5, <1>7 DEF OneEach
<1>9. Ids(New(texts)) \cap Ids(fact) = {}
  BY <1>3, <1>4, <1>7 DEF Ids
<1>10. Entries(New(texts)) = texts
  <2>1. ASSUME NEW x \in texts PROVE \E f \in New(texts) : f.text = x
    <3>1. PICK f : f = [id |-> id[x], text |-> x]
      OBVIOUS
    <3> QED BY <1>2, <3>1
  <2> QED BY <1>7, <2>1 DEF Entries
<1> QED BY <1>6, <1>8, <1>9, <1>10

\* An id is left for an episode: those there are, are of other turns than the
\* runner has.
LEMMA EpisodeIdIsLeft ==
    ASSUME TInv, NEW r \in Runners, can_commit(r), job[r].found # {}
    PROVE  EpisodeIds \ Ids(episode) # {}
<1> SUFFICES ASSUME EpisodeIds \subseteq Ids(episode) PROVE FALSE
  OBVIOUS
<1>1. PICK t \in TurnIds : t \notin Committed
  <2>1. PICK e \in job[r].found : e.from # {} /\ e.from = Ids(turn)
    BY DEF TInv, JobsTyped, JobTyped, OneAnswer, IInv, AnswersBacked, Backed, can_commit
  <2>2. PICK u \in Ids(turn) : TRUE
    BY <2>1
  <2>3. u \in TurnIds /\ u \notin Committed
    BY <2>2, MemoryParameters DEF TInv, IInv, TurnsApart, Apart, TurnIds
  <2> QED BY <2>3
<1> DEFINE Others == TurnIds \ {t}
           Made(i, u) == \E e \in episode : e.id = i /\ u \in e.from
           of == [i \in EpisodeIds |-> CHOOSE u \in Others : Made(i, u)]
<1>2. ASSUME NEW i \in EpisodeIds PROVE \E u \in Others : Made(i, u)
  <2>1. PICK e \in episode : e.id = i
    BY DEF Ids
  <2>2. PICK u \in e.from : TRUE
    BY DEF TInv, EpisodesApart
  <2>3. u \in Others
    BY <1>1, <2>2 DEF TInv, IInv, EpisodesBacked, Committed
  <2> QED BY <2>1, <2>2, <2>3
<1>3. ASSUME NEW i \in EpisodeIds PROVE of[i] \in Others /\ Made(i, of[i])
  <2> HIDE DEF Others, Made
  <2> QED BY <1>2
<1>4. of \in [EpisodeIds -> Others]
  <2> HIDE DEF Others, Made
  <2> QED BY <1>2
<1> HIDE DEF of
<1>5. ASSUME NEW i \in EpisodeIds, NEW j \in EpisodeIds, of[i] = of[j] PROVE i = j
  <2>1. PICK e \in episode : e.id = i /\ of[i] \in e.from
    BY <1>3
  <2>2. PICK g \in episode : g.id = j /\ of[j] \in g.from
    BY <1>3
  <2> QED BY <1>5, <2>1, <2>2 DEF TInv, EpisodesApart
<1>6. of \in Injection(EpisodeIds, Others)
  <2> HIDE DEF Others
  <2> QED BY <1>4, <1>5 DEF Injection, IsInjective
<1>7. IsFiniteSet(TurnIds) /\ Cardinality(TurnIds) = MaxTurns
  BY FS_Interval, MemoryParameters DEF TurnIds
<1>8. Cardinality(EpisodeIds) = MaxTurns
  BY FS_Interval, MemoryParameters DEF EpisodeIds
<1>9. IsFiniteSet(Others) /\ Cardinality(Others) = MaxTurns - 1
  BY <1>1, <1>7, FS_RemoveElement
<1>10. Cardinality(EpisodeIds) <= Cardinality(Others)
  <2> HIDE DEF Others
  <2> QED BY <1>6, <1>9, FS_Injection
<1> QED BY <1>8, <1>9, <1>10, MemoryParameters

-----------------------------------------------------------------------------
(* The types under each step.                                              *)

\* What a step leaves alone keeps its type.
LEMMA Same ==
    ASSUME TInv
    PROVE  /\ UNCHANGED <<fact, erasing>> => FactsTyped'
           /\ UNCHANGED notice => NoticeTyped'
           /\ episode' \subseteq episode => EpisodesApart'
           /\ UNCHANGED job => JobsTyped'
           /\ UNCHANGED <<file, open, recorded>> => FilesTyped'
           /\ UNCHANGED <<running, wake, tries>> => MindTyped'
           /\ UNCHANGED <<faults, restarts>> => CountsTyped'
<1>1. UNCHANGED <<fact, erasing>> => FactsTyped'
  BY DEF TInv, FactsTyped, Ids
<1>2. UNCHANGED notice => NoticeTyped'
  BY DEF TInv, NoticeTyped
<1>3. episode' \subseteq episode => EpisodesApart'
  BY DEF TInv, EpisodesApart
<1>4. UNCHANGED job => JobsTyped'
  BY DEF TInv, JobsTyped
<1>5. UNCHANGED <<file, open, recorded>> => FilesTyped'
  BY DEF TInv, FilesTyped
<1>6. UNCHANGED <<running, wake, tries>> => MindTyped'
  BY DEF TInv, MindTyped
<1>7. UNCHANGED <<faults, restarts>> => CountsTyped'
  BY DEF TInv, CountsTyped
<1> QED BY <1>1, <1>2, <1>3, <1>4, <1>5, <1>6, <1>7

LEMMA OneMoreFault == ASSUME TInv, Fault, UNCHANGED restarts PROVE CountsTyped'
  BY MemoryParameters DEF TInv, CountsTyped, Fault

LEMMA MoreFaults == ASSUME TInv, NEW n \in Nat, Faults(n), UNCHANGED restarts PROVE CountsTyped'
  BY MemoryParameters DEF TInv, CountsTyped, Faults

LEMMA NoticeMirrored == ASSUME Mirrored \/ ThenCheck PROVE NoticeTyped'
<1>1. PICK no : no = FALSE
  OBVIOUS
<1>2. PICK n : n = NoNotice
  OBVIOUS
<1>3. n = [act |-> "none", text |-> None, new |-> None, forget |-> no]
  BY <1>1, <1>2 DEF NoNotice
<1>4. [n EXCEPT !.act = "check"] = [act |-> "check", text |-> None, new |-> None, forget |-> no]
  BY <1>3
<1>5. \E act \in {"none", "check"} : notice' = [act |-> act, text |-> None, new |-> None, forget |-> no]
  BY <1>2, <1>3, <1>4 DEF Mirrored, ThenCheck
<1>6. no \in BOOLEAN
  BY <1>1
<1>7. notice' \in Notices /\ notice'.act \in {"none", "check"}
  BY <1>5, <1>6 DEF Notices
<1> QED BY <1>7 DEF NoticeTyped

LEMMA WalTyped ==
    ASSUME TInv, sanitize_after_erase \/ try_pending_sanitize \/ UNCHANGED wal
    PROVE  wal' \in {"clean", "known"}
  BY DEF sanitize_after_erase, try_pending_sanitize, TInv, StoreTyped

\* A step that erases, inserts or checks keeps the types of the store.
LEMMA ErasesTyped ==
    ASSUME TInv, Erases, UNCHANGED lease,
           sanitize_after_erase \/ try_pending_sanitize \/ UNCHANGED wal
    PROVE  StoreTyped' /\ EpisodesApart'
<1>1. turn' \subseteq turn /\ episode' \subseteq episode /\ current' \subseteq current
  BY DEF Erases
<1>2. wal' \in {"clean", "known"}
  BY WalTyped
<1> QED BY <1>1, <1>2, Same DEF TInv, StoreTyped

\* Facts that stay, with new ones of texts they do not have.
LEMMA FactsAdded ==
    ASSUME Roomy, TInv, NEW kept \in SUBSET fact, NEW texts \in SUBSET Texts,
           texts \cap Entries(kept) = {}
    PROVE  /\ kept \cup New(texts) \subseteq Facts /\ OneEach(kept \cup New(texts))
           /\ Ids(kept) \subseteq Ids(kept \cup New(texts))
<1>1. /\ New(texts) \subseteq Facts /\ OneEach(New(texts))
      /\ Ids(New(texts)) \cap Ids(fact) = {} /\ Entries(New(texts)) = texts
  BY NewFacts
<1>2. fact \subseteq Facts /\ OneEach(fact)
  BY DEF TInv, FactsTyped
<1>3. ASSUME NEW f \in kept, NEW g \in New(texts) PROVE f.id # g.id /\ f.text # g.text
  <2>1. f.id \in Ids(fact) /\ g.id \in Ids(New(texts))
    BY DEF Ids
  <2>2. f.text \in Entries(kept) /\ g.text \in texts
    BY <1>1 DEF Entries
  <2> QED BY <1>1, <2>1, <2>2
<1>4. OneEach(kept \cup New(texts))
  BY <1>1, <1>2, <1>3 DEF OneEach
<1> QED BY <1>1, <1>2, <1>4 DEF Ids

LEMMA NoNew == New({}) = {}
  BY DEF New

LEMMA CascadeFacts ==
    ASSUME Roomy, TInv, NEW done \in SUBSET fact, NEW missed \in SUBSET (fact \ done),
           NEW texts \in SUBSET Texts, texts \cap Entries(fact \ done) = {},
           forget_cascade(done, missed), fact' = (fact \ done) \cup New(texts)
    PROVE  FactsTyped'
<1>1. fact' \subseteq Facts /\ OneEach(fact') /\ Ids(fact \ done) \subseteq Ids(fact')
  BY FactsAdded
<1>2. PICK noted \in NotedOf(missed) : erasing' = (erasing \ Ids(done)) \cup noted
  BY DEF forget_cascade
<1>3. noted \subseteq Ids(fact \ done)
  <2>1. noted \subseteq Ids(missed)
    BY <1>2 DEF NotedOf
  <2> QED BY <2>1 DEF Ids
<1>4. erasing \ Ids(done) \subseteq Ids(fact \ done)
  BY DEF TInv, FactsTyped, Ids
<1>5. erasing' \subseteq Ids(fact)'
  BY <1>1, <1>2, <1>3, <1>4 DEF Ids
<1> QED BY <1>1, <1>5 DEF FactsTyped, OneEach

LEMMA EraseFacts == ASSUME Roomy, TInv, NEW f \in fact, erase_fact(f) PROVE FactsTyped'
<1>1. PICK done \in SUBSET {f} : fact' = fact \ done /\ forget_cascade(done, {f} \ done)
  BY DEF erase_fact
<1>2. fact' = (fact \ done) \cup New({})
  BY <1>1, NoNew
<1>3. done \in SUBSET fact /\ {f} \ done \in SUBSET (fact \ done)
  OBVIOUS
<1>4. {} \in SUBSET Texts /\ {} \cap Entries(fact \ done) = {}
  OBVIOUS
<1> HIDE DEF Entries
<1> QED BY <1>1, <1>2, <1>3, <1>4, CascadeFacts

LEMMA FactsAreFinite == ASSUME Roomy, FactsTyped PROVE IsFiniteSet(fact)
<1> DEFINE text == [f \in fact |-> f.text]
<1>1. text \in Injection(fact, Texts)
  BY DEF Injection, IsInjective, FactsTyped, Facts, OneEach
<1> HIDE DEF text
<1> QED BY <1>1, FS_Injection DEF Roomy

LEMMA EraseCounts ==
    ASSUME TInv, NEW f, erase_fact(f), UNCHANGED restarts PROVE CountsTyped'
<1>1. PICK done \in SUBSET {f} : Faults(1 - Cardinality(done))
  BY DEF erase_fact
<1>2. 1 - Cardinality(done) \in Nat
  <2>1. done = {} \/ done = {f}
    OBVIOUS
  <2>2. Cardinality({}) = 0 /\ Cardinality({f}) = 1
    BY FS_EmptySet, FS_Singleton
  <2> QED BY <2>1, <2>2
<1> QED BY <1>1, <1>2, MoreFaults

\* run_file_check, whether it finds the files readable or not.
LEMMA CheckTyped ==
    ASSUME Roomy, TInv, NEW force, Check(force), UNCHANGED restarts
    PROVE  FactsTyped' /\ CountsTyped' /\ recorded' \in {{}} \cup {{fs} : fs \in SUBSET Texts}
<1>f. file \subseteq Texts /\ recorded \in {{}} \cup {{fs} : fs \in SUBSET Texts}
  BY DEF TInv, FilesTyped
<1>1. CASE UNCHANGED <<fact, erasing, recorded>> /\ (Fault \/ faults' = faults)
  BY <1>1, <1>f, Same, OneMoreFault
<1>2. CASE Reconcile
  <2>1. PICK done \in SUBSET Doomed, added \in SUBSET file, stale \in BOOLEAN :
            LET missing == file \ Entries(fact \ done)
            IN  /\ added \in {missing} \cup (IF Unmarked THEN SUBSET missing ELSE {})
                /\ fact' = (fact \ done) \cup New(added)
                /\ Faults(Cardinality(Doomed \ done) + Cardinality(missing \ added)
                            + (IF stale THEN 1 ELSE 0))
                /\ IF Doomed = {} THEN /\ erasing' = erasing \cap Ids(fact)
                                       /\ UNCHANGED <<turn, episode, current>>
                                  ELSE forget_cascade(done, Doomed \ done)
                /\ recorded' = IF done = Doomed /\ ~stale THEN {file} ELSE recorded
    BY <1>2 DEF Reconcile
  <2> DEFINE missing == file \ Entries(fact \ done)
  <2>2. added \in SUBSET Texts /\ added \cap Entries(fact \ done) = {}
    BY <2>1, <1>f
  <2>3. done \in SUBSET fact /\ Doomed \ done \in SUBSET (fact \ done)
    BY DEF Doomed
  <2>4. ASSUME Doomed = {} PROVE FactsTyped'
    <3>1. fact \ done = fact
      BY <2>4
    <3>2. fact' \subseteq Facts /\ OneEach(fact') /\ Ids(fact) \subseteq Ids(fact')
      BY <2>1, <2>2, <3>1, FactsAdded
    <3>3. erasing' \subseteq Ids(fact)'
      BY <2>1, <2>4, <3>2 DEF Ids
    <3> QED BY <3>2, <3>3 DEF FactsTyped, OneEach
  <2>5. ASSUME Doomed # {} PROVE FactsTyped'
    BY <2>1, <2>2, <2>3, <2>5, CascadeFacts
  <2>6. Cardinality(Doomed \ done) \in Nat /\ Cardinality(missing \ added) \in Nat
    <3>1. IsFiniteSet(Doomed \ done)
      BY <2>3, FactsAreFinite, FS_Subset DEF TInv
    <3>2. missing \ added \in SUBSET Texts
      BY <1>f
    <3>3. IsFiniteSet(missing \ added)
      BY <3>2, FS_Subset DEF Roomy
    <3> QED BY <3>1, <3>3, FS_CardinalityType
  <2>7. CountsTyped'
    <3>1. (IF stale THEN 1 ELSE 0) \in Nat
      OBVIOUS
    <3>2. \A a, b, c \in Nat : a + b + c \in Nat
      OBVIOUS
    <3>3. Cardinality(Doomed \ done) + Cardinality(missing \ added) + (IF stale THEN 1 ELSE 0) \in Nat
      BY <2>6, <3>1, <3>2
    <3>4. Faults(Cardinality(Doomed \ done) + Cardinality(missing \ added) + (IF stale THEN 1 ELSE 0))
      BY <2>1
    <3> QED BY <3>3, <3>4, MoreFaults
  <2>8. recorded' \in {{}} \cup {{fs} : fs \in SUBSET Texts}
    BY <2>1, <1>f
  <2>9. FactsTyped'
    BY <2>4, <2>5
  <2> QED BY <2>7, <2>8, <2>9
<1> QED BY <1>1, <1>2 DEF Check, run_file_check, CheckFails

LEMMA CheckWal == ASSUME NEW force, Check(force) PROVE sanitize_after_erase \/ try_pending_sanitize
  BY DEF Check, run_file_check, CheckFails, Reconcile

\* A fact that is inserted, or whose text is rewritten, in on_memory_write.
LEMMA InsertFacts ==
    ASSUME Roomy, TInv, NEW x \in Texts, Insert(x) \/ fact' = fact, UNCHANGED erasing
    PROVE  FactsTyped'
<1>1. CASE fact' = fact
  BY <1>1, Same
<1>2. CASE Named(x) = {} /\ fact' = fact \cup New({x})
  <2>1. {x} \in SUBSET Texts /\ {x} \cap Entries(fact) = {} /\ fact \in SUBSET fact
    BY <1>2 DEF Named, Entries
  <2>2. fact' \subseteq Facts /\ OneEach(fact') /\ Ids(fact) \subseteq Ids(fact')
    BY <1>2, <2>1, FactsAdded
  <2>3. erasing' \subseteq Ids(fact)'
    BY <2>2 DEF TInv, FactsTyped, Ids
  <2> QED BY <2>2, <2>3 DEF FactsTyped, OneEach
<1> QED BY <1>1, <1>2 DEF Insert

LEMMA RewriteFacts ==
    ASSUME TInv, NEW f \in fact, NEW y \in Texts, Rewrite(f, y) \/ fact' = fact, UNCHANGED erasing
    PROVE  FactsTyped'
<1>1. CASE fact' = fact
  BY <1>1, Same
<1>2. ASSUME Named(y) = {}, fact' = (fact \ {f}) \cup {[f EXCEPT !.text = y]} PROVE FactsTyped'
  <2>1. fact \subseteq Facts /\ OneEach(fact) /\ erasing \subseteq Ids(fact)
    BY DEF TInv, FactsTyped
  <2>2. PICK g : g = [f EXCEPT !.text = y]
    OBVIOUS
  <2>3. g \in Facts /\ g.id = f.id /\ g.text = y
    BY <2>1, <2>2 DEF Facts
  <2>4. \A h \in fact : h.text # y /\ (h.id = f.id => h = f)
    BY <1>2, <2>1 DEF Named, OneEach
  <2>5. fact' \subseteq Facts /\ OneEach(fact')
    BY <1>2, <2>1, <2>2, <2>3, <2>4 DEF OneEach
  <2>6. Ids(fact) \subseteq Ids(fact')
    BY <1>2, <2>2, <2>3 DEF Ids
  <2>7. erasing' \subseteq Ids(fact)'
    BY <2>1, <2>6 DEF Ids
  <2> QED BY <2>5, <2>7 DEF FactsTyped, OneEach
<1> QED BY <1>1, <1>2 DEF Rewrite

\* on_memory_write.
LEMMA MirrorFacts == ASSUME Roomy, TInv, on_memory_write PROVE FactsTyped' /\ CountsTyped'
<1>s. UNCHANGED restarts
  BY DEF on_memory_write
<1>t. /\ notice.act \in {"add", "replace", "remove"} => notice.text \in Texts
      /\ notice.act = "replace" => notice.new \in Texts
  BY DEF TInv, NoticeTyped
<1>c. (faults' = faults \/ Fault) => CountsTyped'
  BY <1>s, Same, OneMoreFault
<1>e. ASSUME NEW f \in Named(notice.text), erase_fact(f) PROVE FactsTyped' /\ CountsTyped'
  BY <1>e, <1>s, EraseFacts, EraseCounts DEF Named
<1>1. CASE _notify_add
  <2>1. Insert(notice.text) \/ fact' = fact
    BY <1>1 DEF _notify_add
  <2>2. notice.text \in Texts /\ UNCHANGED erasing /\ (faults' = faults \/ Fault)
    BY <1>1, <1>t DEF _notify_add
  <2> QED BY <2>1, <2>2, <1>c, InsertFacts
<1>2. CASE _notify_replace
  <2>1. CASE Named(notice.text) = {}
    <3>1. UNCHANGED <<fact, erasing, faults>>
      BY <1>2, <2>1 DEF _notify_replace
    <3> QED BY <3>1, <1>c, Same
  <2>2. ASSUME NEW f \in Named(notice.text), Rewrite(f, notice.new) \/ fact' = fact,
               UNCHANGED erasing, faults' = faults \/ Fault
        PROVE  FactsTyped' /\ CountsTyped'
    <3>1. f \in fact /\ notice.new \in Texts
      BY <1>2, <1>t DEF Named, _notify_replace
    <3> QED BY <2>2, <3>1, <1>c, RewriteFacts
  <2> QED BY <1>2, <1>e, <2>1, <2>2 DEF _notify_replace
<1>3. CASE _notify_remove
  <2>1. CASE Named(notice.text) = {}
    <3>1. UNCHANGED <<fact, erasing, faults>>
      BY <1>3, <2>1 DEF _notify_remove
    <3> QED BY <3>1, <1>c, Same
  <2>2. CASE Named(notice.text) # {}
    BY <1>3, <1>e, <2>2 DEF _notify_remove
  <2> QED BY <2>1, <2>2
<1>4. CASE _unmatched_fallback
  BY <1>4, <1>s, CheckTyped DEF _unmatched_fallback
<1> QED BY <1>1, <1>2, <1>3, <1>4 DEF on_memory_write

LEMMA MirrorOthers ==
    ASSUME Roomy, TInv, on_memory_write
    PROVE  /\ NoticeTyped' /\ FilesTyped'
           /\ sanitize_after_erase \/ try_pending_sanitize \/ UNCHANGED wal
<1>1. Mirrored \/ ThenCheck
  BY DEF on_memory_write, _notify_add, _notify_replace, _notify_remove, _unmatched_fallback, Insert, Rewrite
<1>2. UNCHANGED <<file, open, restarts>>
  BY DEF on_memory_write
<1>3. recorded' = recorded \/ Check(TRUE)
  BY DEF on_memory_write, _notify_add, _notify_replace, _notify_remove, _unmatched_fallback
<1>4. FilesTyped'
  BY <1>2, <1>3, CheckTyped DEF TInv, FilesTyped
<1>5. \A f : erase_fact(f) => wal' = wal \/ sanitize_after_erase
  BY DEF erase_fact
<1>6. sanitize_after_erase \/ try_pending_sanitize \/ UNCHANGED wal
  <2>1. CASE _notify_add
    BY <2>1 DEF _notify_add
  <2>2. CASE _notify_replace
    BY <2>2, <1>5 DEF _notify_replace
  <2>3. CASE _notify_remove
    BY <2>3, <1>5 DEF _notify_remove
  <2>4. CASE _unmatched_fallback
    BY <2>4, CheckWal DEF _unmatched_fallback
  <2> QED BY <2>1, <2>2, <2>3, <2>4 DEF on_memory_write
<1> QED BY <1>1, <1>4, <1>6, NoticeMirrored

-----------------------------------------------------------------------------
(* The types of what a runner has in hand.                                 *)

Places == {"idle", "woken", "asked", "answered", "leaving", "closing"}
Triggers == {"none", "initialize", "other"}

LEMMA JobPut ==
    ASSUME JobsTyped, NEW r \in Runners, NEW j, JobTyped(j), job' = [job EXCEPT ![r] = j]
    PROVE  JobsTyped'
<1>1. \A q \in Runners : job'[q] = IF q = r THEN j ELSE job[q]
  BY DEF JobsTyped
<1>2. job' = [q \in Runners |-> job'[q]]
  BY DEF JobsTyped
<1>3. ASSUME NEW q \in Runners PROVE JobTyped(job'[q])
  BY <1>1 DEF JobsTyped
<1>4. ASSUME NEW q \in Runners PROVE JobTyped(job[q])'
  BY <1>3 DEF JobTyped, OneAnswer, Jobs, Episodes
<1> QED BY <1>2, <1>4 DEF JobsTyped

LEMMA IdleTyped == JobTyped(Idle) /\ Idle \in Jobs
  BY MemoryParameters DEF JobTyped, Idle, Jobs, OneAnswer

LEMMA MovedTyped ==
    ASSUME NEW j, JobTyped(j), NEW pc \in Places, pc # "asked"
    PROVE  JobTyped([j EXCEPT !.pc = pc])
<1>1. PICK k : k = [j EXCEPT !.pc = pc]
  OBVIOUS
<1>2. k \in Jobs /\ k.found = j.found /\ k.pc = pc
  BY <1>1 DEF JobTyped, Jobs, Places
<1> QED BY <1>1, <1>2 DEF JobTyped

LEMMA WokenTyped ==
    ASSUME NEW j, JobTyped(j), NEW trig \in Triggers
    PROVE  JobTyped([j EXCEPT !.pc = "woken", !.trig = trig])
<1>1. PICK k : k = [j EXCEPT !.pc = "woken"]
  OBVIOUS
<1>2. k \in Jobs /\ k.found = j.found /\ k.pc = "woken"
  BY <1>1 DEF JobTyped, Jobs
<1>3. PICK l : l = [k EXCEPT !.trig = trig]
  OBVIOUS
<1>4. l \in Jobs /\ l.found = j.found /\ l.pc = "woken"
  BY <1>2, <1>3 DEF Jobs, Triggers
<1>5. [j EXCEPT !.pc = "woken", !.trig = trig] = [[j EXCEPT !.pc = "woken"] EXCEPT !.trig = trig]
  BY DEF JobTyped, Jobs
<1>6. JobTyped(l)
  BY <1>4 DEF JobTyped
<1> QED BY <1>1, <1>3, <1>5, <1>6

LEMMA AskedTyped ==
    ASSUME NEW rows \in SUBSET TurnIds, rows # {}, NEW n \in 0..MaxTries
    PROVE  JobTyped([Idle EXCEPT !.pc = "asked", !.rows = rows, !.attempt = n])
<1>1. PICK i : i = Idle
  OBVIOUS
<1>2. i \in Jobs /\ i.found = {}
  BY <1>1, IdleTyped DEF Idle
<1>3. PICK k : k = [i EXCEPT !.pc = "asked"]
  OBVIOUS
<1>4. k \in Jobs /\ k.found = {}
  BY <1>2, <1>3 DEF Jobs
<1>5. PICK l : l = [k EXCEPT !.rows = rows]
  OBVIOUS
<1>6. l \in Jobs /\ l.found = {} /\ l.rows = rows
  BY <1>4, <1>5 DEF Jobs
<1>7. PICK m : m = [l EXCEPT !.attempt = n]
  OBVIOUS
<1>8. m \in Jobs /\ m.found = {} /\ m.rows = rows
  BY <1>6, <1>7 DEF Jobs
<1>9. [i EXCEPT !.pc = "asked", !.rows = rows, !.attempt = n]
         = [[[i EXCEPT !.pc = "asked"] EXCEPT !.rows = rows] EXCEPT !.attempt = n]
  BY <1>2 DEF Jobs
<1>10. JobTyped(m)
  BY <1>8 DEF JobTyped, OneAnswer
<1> QED BY <1>1, <1>3, <1>5, <1>7, <1>9, <1>10

LEMMA AnsweredTyped ==
    ASSUME NEW j, JobTyped(j), NEW found \in SUBSET Episodes, OneAnswer(found)
    PROVE  JobTyped([j EXCEPT !.pc = "answered", !.found = found])
<1>1. PICK k : k = [j EXCEPT !.pc = "answered"]
  OBVIOUS
<1>2. k \in Jobs
  BY <1>1 DEF JobTyped, Jobs
<1>3. k.pc = "answered"
  BY <1>1 DEF JobTyped, Jobs
<1>4. PICK l : l = [k EXCEPT !.found = found]
  OBVIOUS
<1>5. l \in Jobs /\ l.found = found /\ l.pc = "answered"
  BY <1>2, <1>3, <1>4 DEF Jobs
<1>6. [j EXCEPT !.pc = "answered", !.found = found] = [[j EXCEPT !.pc = "answered"] EXCEPT !.found = found]
  BY DEF JobTyped, Jobs
<1>7. JobTyped(l)
  BY <1>5 DEF JobTyped
<1> QED BY <1>1, <1>4, <1>6, <1>7

LEMMA TriesTyped ==
    ASSUME TInv, NEW p \in Procs, NEW s \in SUBSET TurnIds, NEW n \in 0..MaxTries,
           tries' = [tries EXCEPT ![p][s] = n]
    PROVE  tries' \in [Procs -> [SUBSET TurnIds -> 0..MaxTries]]
<1>1. tries \in [Procs -> [SUBSET TurnIds -> 0..MaxTries]]
  BY DEF TInv, MindTyped
<1>2. [tries[p] EXCEPT ![s] = n] \in [SUBSET TurnIds -> 0..MaxTries]
  BY <1>1
<1>3. tries' = [tries EXCEPT ![p] = [tries[p] EXCEPT ![s] = n]]
  BY <1>1
<1> QED BY <1>1, <1>2, <1>3

LEMMA RunnerTypes ==
    ASSUME TInv, NEW r \in Runners
    PROVE  /\ Home[r] \in Procs /\ JobTyped(job[r])
           /\ job[r].rows \in SUBSET TurnIds /\ job[r].attempt \in 0..MaxTries
           /\ Ids(turn) \in SUBSET TurnIds
  BY MemoryParameters DEF TInv, JobsTyped, JobTyped, Jobs, StoreTyped, Turns, Ids

LEMMA RequestTyped ==
    ASSUME TInv, NEW p \in Procs, NEW trig \in {"initialize", "other"}, request_consolidate(p, trig),
           UNCHANGED tries
    PROVE  JobsTyped' /\ MindTyped'
<1>1. wake' \in [Procs -> {"none", "initialize", "other"}] /\ running' \in [Procs -> BOOLEAN]
  BY DEF request_consolidate, TInv, MindTyped
<1>2. MindTyped'
  BY <1>1 DEF TInv, MindTyped
<1>3. CASE running[p]
  BY <1>2, <1>3, Same DEF request_consolidate
<1>4. CASE ~running[p]
  <2>1. PICK r \in Of(p) : job' = [job EXCEPT ![r] = [@ EXCEPT !.pc = "woken", !.trig = trig]]
    BY <1>4 DEF request_consolidate
  <2>2. r \in Runners /\ JobTyped(job[r])
    BY <2>1, RunnerTypes DEF Of
  <2>3. PICK j : j = [job[r] EXCEPT !.pc = "woken", !.trig = trig]
    OBVIOUS
  <2>4. job' = [job EXCEPT ![r] = j]
    BY <2>1, <2>3
  <2>5. JobTyped(j)
    BY <2>2, <2>3, WokenTyped DEF Triggers
  <2> QED BY <1>2, <2>2, <2>4, <2>5, JobPut DEF TInv
<1> QED BY <1>3, <1>4

\* A runner that leaves.
LEMMA LeftTyped ==
    ASSUME TInv, NEW r \in Runners, job' = [job EXCEPT ![r] = [Idle EXCEPT !.pc = "leaving"]]
    PROVE  JobsTyped'
<1>1. PICK j : j = [Idle EXCEPT !.pc = "leaving"]
  OBVIOUS
<1>2. JobTyped(j)
  BY <1>1, IdleTyped, MovedTyped DEF Places
<1> QED BY <1>1, <1>2, JobPut DEF TInv

LEMMA BeginTyped ==
    ASSUME TInv, NEW r \in Runners, run_consolidation(r)
    PROVE  JobsTyped' /\ MindTyped' /\ StoreTyped' /\ CountsTyped'
<1> DEFINE p == Home[r]
           rows == Ids(turn)
<1>1. p \in Procs /\ rows \in SUBSET TurnIds
  BY RunnerTypes
<1>2. wake' = [wake EXCEPT ![p] = "none"] /\ UNCHANGED <<running, turn, episode, restarts>>
  BY DEF run_consolidation
<1>3. CountsTyped'
  <2>1. faults' = faults \/ Fault
    BY DEF run_consolidation
  <2> QED BY <1>2, <2>1, Same, OneMoreFault
<1>4. wake' \in [Procs -> {"none", "initialize", "other"}]
  BY <1>2 DEF TInv, MindTyped
<1>5. StoreTyped'
  <2>1. lease' = lease \/ lease' = [owner |-> p, live |-> TRUE]
    BY DEF run_consolidation
  <2>2. lease' \in [owner : Procs \cup {None, Dead}, live : BOOLEAN]
    <3>1. \A live \in BOOLEAN : [owner |-> p, live |-> live] \in [owner : Procs \cup {None, Dead}, live : BOOLEAN]
      BY <1>1
    <3>2. CASE lease' = lease
      BY <3>2 DEF TInv, StoreTyped
    <3>3. CASE lease' = [owner |-> p, live |-> TRUE]
      BY Zenon, <3>1, <3>3
    <3> QED BY <2>1, <3>2, <3>3
  <2>3. current' \subseteq Runners
    <3>1. current' = current \/ current' = current \cup {r}
      BY DEF run_consolidation, begin_consolidation
    <3> QED BY <3>1 DEF TInv, StoreTyped
  <2>4. wal' \in {"clean", "known"}
    BY WalTyped DEF run_consolidation
  <2> QED BY <1>2, <2>2, <2>3, <2>4 DEF TInv, StoreTyped
<1>6. CASE job' = [job EXCEPT ![r] = [Idle EXCEPT !.pc = "leaving"]] /\ tries' = tries
  BY <1>2, <1>3, <1>4, <1>5, <1>6, LeftTyped DEF TInv, MindTyped
<1>7. CASE begin_consolidation(r) /\ ~GivesUp(r, Ids(turn))
  <2>1. /\ job' = [job EXCEPT ![r] = [Idle EXCEPT !.pc = "asked", !.rows = rows, !.attempt = Attempt(p, rows)]]
        /\ tries' = IF Spent(p, rows) THEN [tries EXCEPT ![p][rows] = 0] ELSE tries
        /\ rows # {}
    BY <1>7 DEF begin_consolidation, GivesUp
  <2>2. Attempt(p, rows) \in 0..MaxTries
    <3>1. tries[p][rows] \in 0..MaxTries
      BY <1>1 DEF TInv, MindTyped
    <3> QED BY <3>1, MemoryParameters DEF Attempt, Spent
  <2>3. PICK j : j = [Idle EXCEPT !.pc = "asked", !.rows = rows, !.attempt = Attempt(p, rows)]
    OBVIOUS
  <2>4. JobTyped(j) /\ job' = [job EXCEPT ![r] = j]
    BY <1>1, <2>1, <2>2, <2>3, AskedTyped
  <2>5. JobsTyped'
    BY <2>4, JobPut DEF TInv
  <2>6. tries' \in [Procs -> [SUBSET TurnIds -> 0..MaxTries]]
    <3>1. CASE tries' = tries
      BY <3>1 DEF TInv, MindTyped
    <3>2. CASE tries' = [tries EXCEPT ![p][rows] = 0]
      <4>1. 0 \in 0..MaxTries
        BY MemoryParameters
      <4> HIDE DEF p, rows
      <4> QED BY <1>1, <3>2, <4>1, TriesTyped
    <3> QED BY <2>1, <3>1, <3>2
  <2> QED BY <1>2, <1>3, <1>4, <1>5, <2>5, <2>6 DEF TInv, MindTyped
<1> QED BY <1>6, <1>7 DEF run_consolidation, begin_consolidation

LEMMA FailedTyped ==
    ASSUME TInv, NEW r \in Runners, Failed(r), UNCHANGED <<running, wake>>
    PROVE  JobsTyped' /\ MindTyped' /\ current' \subseteq Runners
<1>1. JobsTyped'
  BY LeftTyped DEF Failed
<1>2. tries' \in [Procs -> [SUBSET TurnIds -> 0..MaxTries]]
  <2>1. tries' = [tries EXCEPT ![Home[r]][job[r].rows] = job[r].attempt]
    BY DEF Failed
  <2> QED BY <2>1, RunnerTypes, TriesTyped
<1> QED BY <1>1, <1>2 DEF Failed, TInv, MindTyped, StoreTyped

LEMMA AnswerTyped == ASSUME TInv, NEW r \in Runners, validate_episodes(r) PROVE JobsTyped'
<1>1. PICK found \in Answers(job[r].rows) :
          job' = [job EXCEPT ![r] = [job[r] EXCEPT !.pc = "answered", !.found = found]]
  BY DEF validate_episodes
<1>2. JobTyped(job[r]) /\ job[r].rows \in SUBSET TurnIds /\ job[r].rows # {}
  BY RunnerTypes DEF validate_episodes, JobTyped
<1>3. found \in SUBSET Episodes /\ OneAnswer(found)
  <2>1. CASE found = {}
    BY <2>1 DEF OneAnswer
  <2>2. ASSUME NEW x \in Texts \cup {None}, NEW refs \in fact_refs,
               found = {[id |-> MaxFacts + 1, about |-> x, refs |-> refs, from |-> job[r].rows]}
        PROVE  found \in SUBSET Episodes /\ OneAnswer(found)
    <3>1. MaxFacts + 1 \in EpisodeIds
      BY <1>2, MemoryParameters DEF EpisodeIds, TurnIds
    <3>2. \E i : refs \subseteq {i}
      BY DEF fact_refs
    <3>3. refs \subseteq FactIds
      BY DEF fact_refs, TInv, FactsTyped, Facts, Ids
    <3>4. PICK e : e = [id |-> MaxFacts + 1, about |-> x, refs |-> refs, from |-> job[r].rows]
      OBVIOUS
    <3>5. e \in Episodes /\ e.from = job[r].rows /\ e.refs = refs
      BY <1>2, <3>1, <3>3, <3>4 DEF Episodes
    <3> QED BY <1>2, <2>2, <3>2, <3>4, <3>5 DEF OneAnswer
  <2> QED BY <2>1, <2>2 DEF Answers
<1>4. PICK j : j = [job[r] EXCEPT !.pc = "answered", !.found = found]
  OBVIOUS
<1>5. JobTyped(j)
  BY <1>2, <1>3, <1>4, AnsweredTyped
<1> QED BY <1>1, <1>4, <1>5, JobPut DEF TInv

LEMMA RenewedTyped ==
    ASSUME TInv, NEW p, Renewed(p) \/ _release_lease(p) \/ UNCHANGED lease
    PROVE  lease' \in [owner : Procs \cup {None, Dead}, live : BOOLEAN]
<1>1. lease \in [owner : Procs \cup {None, Dead}, live : BOOLEAN]
  BY DEF TInv, StoreTyped
<1>2. CASE Renewed(p)
  BY <1>1, <1>2 DEF Renewed
<1>3. CASE _release_lease(p)
  BY <1>1, <1>3 DEF _release_lease
<1> QED BY <1>1, <1>2, <1>3

LEMMA CommitTyped ==
    ASSUME TInv, NEW r \in Runners, _commit(r)
    PROVE  StoreTyped' /\ EpisodesApart' /\ JobsTyped' /\ MindTyped'
<1> DEFINE rows == job[r].rows
           found == job[r].found
           new == CHOOSE i \in EpisodeIds \ Ids(episode) : TRUE
<1>1. rows = Ids(turn)
  BY DEF _commit, can_commit
<1>2. episode' = episode \cup {[e EXCEPT !.id = new] : e \in found}
  BY DEF _commit
<1>3. found = {} \/ \E e \in Episodes : found = {e} /\ e.from # {} /\ e.from = rows
  BY DEF TInv, JobsTyped, JobTyped, OneAnswer, IInv, AnswersBacked, Backed
<1>4. found # {} => new \in EpisodeIds
  BY EpisodeIdIsLeft DEF _commit
<1>5. \A g \in episode : g.from \cap rows = {} /\ g.from # {}
  BY <1>1 DEF TInv, IInv, EpisodesBacked, EpisodesApart, TurnsApart, Apart
<1>6. episode \subseteq Episodes /\ \A e, g \in episode : e.from \cap g.from # {} => e = g
  BY DEF TInv, StoreTyped, EpisodesApart
<1> HIDE DEF rows, found, new
<1>7. episode' \subseteq Episodes /\ EpisodesApart'
  <2>1. CASE found = {}
    BY <1>2, <1>6, <2>1, Same
  <2>2. ASSUME NEW e \in Episodes, found = {e}, e.from # {}, e.from = rows
        PROVE  episode' \subseteq Episodes /\ EpisodesApart'
    <3>1. PICK h : h = [e EXCEPT !.id = new]
      OBVIOUS
    <3>2. h \in Episodes /\ h.from = rows
      BY <1>4, <2>2, <3>1 DEF Episodes
    <3>3. episode' = episode \cup {h}
      BY <1>2, <2>2, <3>1
    <3> QED BY <1>5, <1>6, <2>2, <3>2, <3>3 DEF EpisodesApart
  <2> QED BY <1>3, <2>1, <2>2
<1>8. turn' \subseteq turn /\ current' \subseteq current
  BY DEF _commit
<1>9. wal' \in {"clean", "known"} /\ lease' \in [owner : Procs \cup {None, Dead}, live : BOOLEAN]
  BY WalTyped, RenewedTyped DEF _commit
<1>10. StoreTyped'
  BY <1>7, <1>8, <1>9 DEF TInv, StoreTyped
<1>11. JobsTyped'
  BY LeftTyped DEF _commit
<1>12. tries' \in [Procs -> [SUBSET TurnIds -> 0..MaxTries]]
  <2>1. tries' = [tries EXCEPT ![Home[r]][job[r].rows] = 0]
    BY DEF _commit
  <2>2. 0 \in 0..MaxTries
    BY MemoryParameters
  <2> QED BY <2>1, <2>2, RunnerTypes, TriesTyped
<1>13. MindTyped'
  BY <1>12 DEF _commit, TInv, MindTyped
<1> QED BY <1>7, <1>10, <1>11, <1>13

LEMMA ContinueTyped ==
    ASSUME TInv, NEW r \in Runners, Continue(r) PROVE JobsTyped' /\ MindTyped' /\ StoreTyped'
<1>1. Home[r] \in Procs /\ JobTyped(job[r])
  BY RunnerTypes
<1>2. UNCHANGED <<turn, episode, current, wal, wake, tries>> /\ _release_lease(Home[r])
  BY DEF Continue
<1>3. StoreTyped'
  BY <1>2, RenewedTyped DEF TInv, StoreTyped
<1>4. MindTyped'
  BY <1>1, <1>2 DEF Continue, TInv, MindTyped
<1>5. \/ job' = [job EXCEPT ![r] = [job[r] EXCEPT !.pc = "closing"]]
      \/ job' = [job EXCEPT ![r] = [job[r] EXCEPT !.pc = "woken", !.trig = wake[Home[r]]]]
  <2>1. /\ [job EXCEPT ![r].pc = "closing"] = [job EXCEPT ![r] = [job[r] EXCEPT !.pc = "closing"]]
        /\ \A trig : [job EXCEPT ![r].pc = "woken", ![r].trig = trig]
                        = [job EXCEPT ![r] = [job[r] EXCEPT !.pc = "woken", !.trig = trig]]
    BY DEF TInv, JobsTyped
  <2> QED BY <2>1 DEF Continue
<1>6. JobsTyped'
  <2>1. CASE job' = [job EXCEPT ![r] = [job[r] EXCEPT !.pc = "closing"]]
    <3>1. PICK j : j = [job[r] EXCEPT !.pc = "closing"]
      OBVIOUS
    <3>2. JobTyped(j)
      BY <1>1, <3>1, MovedTyped DEF Places
    <3> QED BY <2>1, <3>1, <3>2, JobPut DEF TInv
  <2>2. CASE job' = [job EXCEPT ![r] = [job[r] EXCEPT !.pc = "woken", !.trig = wake[Home[r]]]]
    <3>1. PICK j : j = [job[r] EXCEPT !.pc = "woken", !.trig = wake[Home[r]]]
      OBVIOUS
    <3>2. wake[Home[r]] \in Triggers
      BY <1>1 DEF TInv, MindTyped, Triggers
    <3>3. JobTyped(j)
      BY <1>1, <3>1, <3>2, WokenTyped
    <3> QED BY <2>2, <3>1, <3>3, JobPut DEF TInv
  <2> QED BY <1>5, <2>1, <2>2
<1> QED BY <1>3, <1>4, <1>6

LEMMA RestartTyped ==
    ASSUME TInv, NEW p \in Procs, Restart(p)
    PROVE  NoticeTyped' /\ JobsTyped' /\ StoreTyped' /\ FilesTyped' /\ MindTyped' /\ CountsTyped'
<1>1. NoticeTyped'
  <2>1. notice' = notice \/ Mirrored
    BY DEF Restart, Mirrored
  <2> QED BY <2>1, Same, NoticeMirrored
<1>2. JobsTyped'
  <2>1. job' = [q \in Runners |-> job'[q]]
    BY DEF Restart
  <2>2. ASSUME NEW q \in Runners PROVE JobTyped(job'[q])
    BY IdleTyped DEF Restart, TInv, JobsTyped
  <2>3. ASSUME NEW q \in Runners PROVE JobTyped(job[q])'
    BY <2>2 DEF JobTyped, OneAnswer, Jobs, Episodes
  <2> QED BY <2>1, <2>3 DEF JobsTyped
<1>3. StoreTyped'
  <2>1. lease \in [owner : Procs \cup {None, Dead}, live : BOOLEAN]
    BY DEF TInv, StoreTyped
  <2>2. lease' = lease \/ lease' = [lease EXCEPT !.owner = Dead]
    BY DEF Restart
  <2>3. lease' \in [owner : Procs \cup {None, Dead}, live : BOOLEAN]
    BY <2>1, <2>2
  <2>4. UNCHANGED <<turn, episode, wal>> /\ current' \subseteq current
    BY DEF Restart
  <2> QED BY <2>3, <2>4 DEF TInv, StoreTyped
<1>4. FilesTyped'
  BY DEF Restart, TInv, FilesTyped
<1>5. MindTyped'
  <2>1. [s \in SUBSET TurnIds |-> 0] \in [SUBSET TurnIds -> 0..MaxTries]
    BY MemoryParameters
  <2>2. tries' \in [Procs -> [SUBSET TurnIds -> 0..MaxTries]]
    BY <2>1 DEF Restart, TInv, MindTyped
  <2>3. wake' \in [Procs -> {"none", "initialize", "other"}] /\ running' \in [Procs -> BOOLEAN]
    BY DEF Restart, TInv, MindTyped
  <2> QED BY <2>2, <2>3 DEF MindTyped
<1>6. CountsTyped'
  BY MemoryParameters DEF Restart, TInv, CountsTyped
<1> QED BY <1>1, <1>2, <1>3, <1>4, <1>5, <1>6

LEMMA ToolTyped == ASSUME TInv, MemoryTool PROVE NoticeTyped' /\ FilesTyped'
<1>1. \E act \in {"add", "remove", "replace"}, x \in Texts, y \in Texts \cup {None}, forget \in BOOLEAN :
          /\ notice' = [act |-> act, text |-> x, new |-> y, forget |-> forget]
          /\ act = "replace" => y \in Texts
          /\ file' \subseteq Texts
  <2>1. file \subseteq Texts
    BY DEF TInv, FilesTyped
  <2>2. CASE ToolAdd
    BY <2>1, <2>2 DEF ToolAdd
  <2>3. CASE ToolRemove
    BY <2>1, <2>3 DEF ToolRemove
  <2>4. CASE ToolReplace
    BY <2>1, <2>4 DEF ToolReplace
  <2> QED BY <2>2, <2>3, <2>4 DEF MemoryTool
<1>2. NoticeTyped'
  BY <1>1 DEF NoticeTyped, Notices
<1>3. FilesTyped'
  BY <1>1 DEF MemoryTool, store, TInv, FilesTyped
<1> QED BY <1>2, <1>3

LEMMA TypedAtFirst == Init => TInv
<1> SUFFICES ASSUME Init PROVE TInv
  OBVIOUS
<1>1. IInv
  BY Initial
<1>2. FactsTyped /\ EpisodesApart
  BY DEF Init, FactsTyped, OneEach, EpisodesApart
<1>3. NoticeTyped
  BY DEF Init, NoticeTyped, Notices, NoNotice
<1>4. JobsTyped
  BY IdleTyped DEF Init, JobsTyped
<1>5. StoreTyped
  BY DEF Init, StoreTyped
<1>6. FilesTyped /\ CountsTyped
  BY MemoryParameters DEF Init, FilesTyped, CountsTyped
<1>7. MindTyped
  <2>1. [s \in SUBSET TurnIds |-> 0] \in [SUBSET TurnIds -> 0..MaxTries]
    BY MemoryParameters
  <2> QED BY <2>1 DEF Init, MindTyped
<1> QED BY <1>1, <1>2, <1>3, <1>4, <1>5, <1>6, <1>7 DEF TInv

LEMMA TypedOperations == ASSUME Roomy, TInv, IInv', Operations PROVE TInv'
<1>1. CASE MemoryTool
  <2>1. UNCHANGED <<fact, erasing, turn, episode, current, lease, wal, job, running, wake, tries, faults, restarts>>
    BY <1>1 DEF MemoryTool, store, mind
  <2>2. StoreTyped'
    BY <2>1 DEF TInv, StoreTyped
  <2> QED BY <1>1, <2>1, <2>2, ToolTyped, Same DEF TInv
<1>2. CASE HandEdit
  <2>1. /\ UNCHANGED <<fact, erasing, turn, episode, current, lease, wal, job, running, wake, tries, faults, restarts>>
        /\ UNCHANGED <<notice, open, recorded>> /\ file' \subseteq Texts
    BY <1>2 DEF HandEdit, store, mind, TInv, FilesTyped
  <2>2. StoreTyped' /\ FilesTyped'
    BY <2>1 DEF TInv, StoreTyped, FilesTyped
  <2> QED BY <2>1, <2>2, Same DEF TInv
<1>3. CASE on_memory_write
  <2>1. UNCHANGED <<lease, job, running, wake, tries>>
    BY <1>3 DEF on_memory_write, mind
  <2>2. StoreTyped' /\ EpisodesApart'
    BY <1>3, <2>1, MirrorErases, MirrorOthers, ErasesTyped
  <2>3. JobsTyped' /\ MindTyped'
    BY <2>1, Same
  <2>4. FactsTyped' /\ CountsTyped' /\ NoticeTyped' /\ FilesTyped'
    BY <1>3, MirrorFacts, MirrorOthers
  <2> QED BY <2>2, <2>3, <2>4 DEF TInv
<1>4. CASE LeaseExpires
  <2>1. /\ UNCHANGED <<fact, erasing, turn, episode, current, wal, job, running, wake, tries, faults, restarts>>
        /\ UNCHANGED <<notice, file, open, recorded>>
    BY <1>4 DEF LeaseExpires, world, mind
  <2>2. lease' \in [owner : Procs \cup {None, Dead}, live : BOOLEAN]
    BY <1>4 DEF LeaseExpires, TInv, StoreTyped
  <2>3. StoreTyped'
    BY <2>1, <2>2 DEF TInv, StoreTyped
  <2> QED BY <2>1, <2>3, Same DEF TInv
<1> QED BY <1>1, <1>2, <1>3, <1>4 DEF Operations

LEMMA TypedProcess == ASSUME Roomy, TInv, IInv', NEW p \in Procs, OfProcess(p) PROVE TInv'
<1>1. CASE initialize(p)
  <2>1. UNCHANGED <<file, notice, lease, tries, restarts>> /\ open' \subseteq Procs /\ Check(TRUE)
    BY <1>1 DEF initialize, TInv, FilesTyped
  <2>2. FactsTyped' /\ CountsTyped' /\ recorded' \in {{}} \cup {{fs} : fs \in SUBSET Texts}
    BY <2>1, CheckTyped
  <2>3. StoreTyped' /\ EpisodesApart'
    BY <2>1, CheckErases, CheckWal, ErasesTyped
  <2>4. JobsTyped' /\ MindTyped'
    <3>1. CASE request_consolidate(p, "initialize")
      BY <2>1, <3>1, RequestTyped
    <3>2. CASE UNCHANGED <<wake, running, job>>
      BY <2>1, <3>2, Same
    <3> QED BY <1>1, <3>1, <3>2 DEF initialize
  <2>5. NoticeTyped' /\ FilesTyped'
    BY <2>1, <2>2, Same DEF TInv, FilesTyped
  <2> QED BY <2>2, <2>3, <2>4, <2>5 DEF TInv
<1>2. CASE on_turn_start(p)
  <2>1. UNCHANGED <<file, notice, open, lease, job, running, wake, tries, restarts>> /\ Check(FALSE)
    BY <1>2 DEF on_turn_start, world, mind
  <2>2. FactsTyped' /\ CountsTyped' /\ recorded' \in {{}} \cup {{fs} : fs \in SUBSET Texts}
    BY <2>1, CheckTyped
  <2>3. StoreTyped' /\ EpisodesApart'
    BY <2>1, CheckErases, CheckWal, ErasesTyped
  <2>4. NoticeTyped' /\ JobsTyped' /\ MindTyped'
    BY <2>1, Same
  <2>5. FilesTyped'
    BY <2>1, <2>2 DEF TInv, FilesTyped
  <2> QED BY <2>2, <2>3, <2>4, <2>5 DEF TInv
<1>3. CASE sync_turn(p)
  <2>1. /\ UNCHANGED <<fact, erasing, episode, current, lease, wal, job, running, wake, tries, faults, restarts>>
        /\ UNCHANGED <<notice, file, open, recorded>>
    BY <1>3 DEF sync_turn, world, mind
  <2>2. turn' \subseteq Turns
    <3>1. PICK x \in Texts \cup {None} : turn' = turn \cup {[id |-> written + 1, about |-> x]}
      BY <1>3 DEF sync_turn, write_pending
    <3>2. written + 1 \in TurnIds
      BY <1>3, MemoryParameters DEF sync_turn, TInv, IInv, TurnsApart, TurnIds
    <3> QED BY <3>1, <3>2 DEF TInv, StoreTyped, Turns
  <2>3. StoreTyped'
    BY <2>1, <2>2 DEF TInv, StoreTyped
  <2> QED BY <2>1, <2>3, Same DEF TInv
<1>4. CASE quiet_timer(p)
  <2>1. /\ UNCHANGED <<fact, erasing, turn, episode, current, lease, wal, tries, faults, restarts>>
        /\ UNCHANGED <<notice, file, open, recorded>> /\ request_consolidate(p, "other")
    BY <1>4 DEF quiet_timer, world, store
  <2>2. JobsTyped' /\ MindTyped'
    BY <2>1, RequestTyped
  <2>3. StoreTyped'
    BY <2>1 DEF TInv, StoreTyped
  <2> QED BY <2>1, <2>2, <2>3, Same DEF TInv
<1>5. CASE Restart(p)
  <2>1. UNCHANGED <<fact, erasing, episode>>
    BY <1>5 DEF Restart
  <2> QED BY <1>5, <2>1, RestartTyped, Same DEF TInv
<1>6. ASSUME NEW x \in Texts, forget_memory(p, x) PROVE TInv'
  <2>1. /\ UNCHANGED <<fact, erasing, lease, job, running, wake, tries, restarts>>
        /\ UNCHANGED <<notice, file, open, recorded>>
    BY <1>6 DEF forget_memory, world, mind
  <2>2. (sanitize_after_erase \/ UNCHANGED wal) /\ (faults' = faults \/ Fault)
    BY <1>6 DEF forget_memory
  <2>3. StoreTyped' /\ EpisodesApart'
    BY <1>6, <2>1, <2>2, ForgetErases, ErasesTyped
  <2>4. CountsTyped'
    BY <2>1, <2>2, Same, OneMoreFault
  <2> QED BY <2>1, <2>3, <2>4, Same DEF TInv
<1> QED BY <1>1, <1>2, <1>3, <1>4, <1>5, <1>6 DEF OfProcess

LEMMA TypedRun == ASSUME TInv, IInv', NEW r \in Runners, Run(r) PROVE TInv'
<1>1. CASE run_consolidation(r)
  <2>1. UNCHANGED <<fact, erasing, episode, notice, file, open, recorded>>
    BY <1>1 DEF run_consolidation, world
  <2> QED BY <1>1, <2>1, BeginTyped, Same DEF TInv
<1>2. CASE model_fails(r) \/ discard(r)
  <2>1. /\ UNCHANGED <<fact, erasing, turn, episode, wal, notice, file, open, recorded, running, wake, restarts>>
        /\ Failed(r) /\ (faults' = faults \/ Fault)
        /\ Renewed(Home[r]) \/ UNCHANGED lease
    BY <1>2 DEF model_fails, discard, world
  <2>2. JobsTyped' /\ MindTyped' /\ current' \subseteq Runners
    BY <2>1, FailedTyped
  <2>3. StoreTyped'
    BY <2>1, <2>2, RenewedTyped DEF TInv, StoreTyped
  <2>4. CountsTyped'
    BY <2>1, Same, OneMoreFault
  <2> QED BY <2>1, <2>2, <2>3, <2>4, Same DEF TInv
<1>3. CASE validate_episodes(r)
  <2>1. /\ UNCHANGED <<fact, erasing, turn, episode, current, lease, wal, running, wake, tries, faults, restarts>>
        /\ UNCHANGED <<notice, file, open, recorded>>
    BY <1>3 DEF validate_episodes, world, store
  <2>2. StoreTyped'
    BY <2>1 DEF TInv, StoreTyped
  <2> QED BY <1>3, <2>1, <2>2, AnswerTyped, Same DEF TInv
<1>4. CASE _commit(r)
  <2>1. UNCHANGED <<fact, erasing, notice, file, open, recorded, faults, restarts>>
    BY <1>4 DEF _commit, world
  <2> QED BY <1>4, <2>1, CommitTyped, Same DEF TInv
<1>5. CASE Continue(r)
  <2>1. UNCHANGED <<fact, erasing, episode, notice, file, open, recorded, faults, restarts>>
    BY <1>5 DEF Continue, world
  <2> QED BY <1>5, <2>1, ContinueTyped, Same DEF TInv
<1>6. CASE Close(r)
  <2>1. /\ UNCHANGED <<fact, erasing, turn, episode, current, lease, wal, wake, tries, faults, restarts>>
        /\ UNCHANGED <<notice, file, open, recorded>>
    BY <1>6 DEF Close, world, store
  <2>2. StoreTyped'
    BY <2>1 DEF TInv, StoreTyped
  <2>3. JobsTyped'
    BY <1>6, IdleTyped, JobPut DEF Close, TInv
  <2>4. MindTyped'
    BY <1>6, <2>1 DEF Close, TInv, MindTyped
  <2> QED BY <2>1, <2>2, <2>3, <2>4, Same DEF TInv
<1> QED BY <1>1, <1>2, <1>3, <1>4, <1>5, <1>6 DEF Run

LEMMA TypedStays == ASSUME Roomy PROVE TInv /\ [Next]_vars => TInv'
<1> SUFFICES ASSUME TInv, [Next]_vars PROVE TInv'
  OBVIOUS
<1>1. IInv'
  BY Stays DEF TInv
<1>2. CASE UNCHANGED vars
  <2>1. StoreTyped'
    BY <1>2 DEF vars, TInv, StoreTyped
  <2> QED BY <1>1, <1>2, <2>1, Same DEF TInv, vars
<1> QED BY <1>1, <1>2, TypedOperations, TypedProcess, TypedRun DEF Next

\* The state has its types, if there are ids for as many facts as there can be
\* at a time: those of the texts, those that take their place in one file check,
\* and those that answers under way refer to (the code has no bound on ids; the
\* run has just as many as this).
THEOREM TypeCorrect == ASSUME Roomy PROVE Spec => []TypeOK
<1>1. TInv /\ [Next]_vars => TInv'
  BY TypedStays
<1> QED BY <1>1, TypedAtFirst, TInvTypes, PTL DEF Spec
=============================================================================
