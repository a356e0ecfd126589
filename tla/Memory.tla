------------------------------- MODULE Memory -------------------------------
(***************************************************************************)
(* The memory store of zola_memory: the index of the notebook files        *)
(* (fact_index), the queue of conversation turns (pending), the            *)
(* consolidator that turns them into episodes (consolidate) and the        *)
(* cascade that erases a subject from all of them (forget_cascade).        *)
(*                                                                         *)
(* Several processes may have the store open.  Each holds the lock of its  *)
(* connection over one operation, so an operation is one step; the model   *)
(* call of a consolidation runs outside every lock, and between its steps  *)
(* anything may happen.  Any write transaction may fail: what it was to    *)
(* change then stays, and the code goes on as written.                     *)
(*                                                                         *)
(* A text is a model value.  A row is about the text whose terms it        *)
(* matches (row_matches_terms), or about None.                             *)
(***************************************************************************)
EXTENDS Naturals, FiniteSets, Functions

CONSTANTS
    Texts,       \* entries of the notebook files
    None,
    Procs,       \* processes that have the store open
    Runners,     \* threads that consolidate
    Home,        \* the process of each
    MaxTurns,    \* bound: turns written
    MaxFacts,    \* bound: fact ids in use at a time
    MaxTries,    \* CONSOLIDATE_MAX_ATTEMPTS (5 in the code)
    MaxFaults,   \* bound: failed transactions and model calls
    MaxRestarts, \* bound: deaths of processes
    Unmarked,    \* whether a failed erase may fail to be noted as well
    HandEdits    \* whether the files may change behind the memory tool

ASSUME MemoryParameters ==
    /\ None \notin Texts /\ None \notin Procs
    /\ Home \in [Runners -> Procs]
    /\ {MaxTurns, MaxFacts, MaxFaults, MaxRestarts} \subseteq Nat
    /\ MaxTries \in Nat \ {0}
    /\ {Unmarked, HandEdits} \subseteq BOOLEAN

TurnIds == 1..MaxTurns
FactIds == 1..MaxFacts
EpisodeIds == (MaxFacts + 1)..(MaxFacts + MaxTurns)  \* uuids: none is that of a fact
Turns == [id : TurnIds, about : Texts \cup {None}]
Facts == [id : FactIds, text : Texts]
Episodes == [id : EpisodeIds, about : Texts \cup {None}, refs : SUBSET FactIds, from : SUBSET TurnIds]
Jobs == [pc : {"idle", "woken", "asked", "answered", "leaving", "closing"},
         trig : {"none", "initialize", "other"},
         rows : SUBSET TurnIds, attempt : 0..MaxTries, found : SUBSET Episodes]
Idle == [pc |-> "idle", trig |-> "none", rows |-> {}, attempt |-> 0, found |-> {}]

VARIABLES
    file,     \* entries of USER.md and MEMORY.md
    notice,   \* the write of the memory tool that on_memory_write is to mirror
    fact,     \* the facts table
    erasing,  \* meta.pending_erasures
    recorded, \* what meta.files_sha256 is of, as a singleton; {} before the first
    turn,     \* pending_turns
    episode,  \* episodes with their links
    current,  \* runners whose generation is meta.consolidation_generation
    lease,    \* meta.consolidate_lease_owner, and whether it is unexpired
    wal,      \* "known": erased text is in the WAL and sanitize_pending is set
    open,     \* processes with an initialized provider
    running,  \* _running, by process
    wake,     \* _coalesce, by process
    tries,    \* _attempt_counts, by process and set of rows
    job,      \* what each runner has in hand
    written,  \* how many turns were written
    faults, restarts,
    \* history, read by no action
    gone,     \* turns a cascade erased
    commits   \* by turn, the commits that took it

store == <<fact, erasing, recorded, turn, episode, current, lease, wal>>
mind == <<running, wake, tries, job>>
world == <<file, notice, open>>
vars == <<file, notice, fact, erasing, recorded, turn, episode, current, lease, wal, open,
          running, wake, tries, job, written, faults, restarts, gone, commits>>

Notices == [act : {"none", "add", "replace", "remove", "check"},
            text : Texts \cup {None}, new : Texts \cup {None}, forget : BOOLEAN]
NoNotice == [act |-> "none", text |-> None, new |-> None, forget |-> FALSE]
Dead == "dead"  \* the _instance_id of a process that is no more

TypeOK ==
    /\ file \subseteq Texts /\ notice \in Notices
    /\ fact \subseteq Facts /\ erasing \subseteq FactIds
    /\ recorded \in {{}} \cup {{fs} : fs \in SUBSET Texts}
    /\ turn \subseteq Turns /\ episode \subseteq Episodes
    /\ current \subseteq Runners
    /\ lease \in [owner : Procs \cup {None, Dead}, live : BOOLEAN]
    /\ wal \in {"clean", "known"}
    /\ open \subseteq Procs
    /\ running \in [Procs -> BOOLEAN] /\ wake \in [Procs -> {"none", "initialize", "other"}]
    /\ tries \in [Procs -> [SUBSET TurnIds -> 0..MaxTries]]
    /\ job \in [Runners -> Jobs]
    /\ written \in 0..MaxTurns /\ faults \in 0..MaxFaults /\ restarts \in 0..MaxRestarts
    /\ gone \subseteq TurnIds
    /\ commits \in [TurnIds -> 0..2]

Init ==
    /\ file = {} /\ notice = NoNotice
    /\ fact = {} /\ erasing = {} /\ recorded = {} /\ turn = {} /\ episode = {}
    /\ current = {} /\ lease = [owner |-> None, live |-> FALSE] /\ wal = "clean"
    /\ open = {}
    /\ running = [p \in Procs |-> FALSE] /\ wake = [p \in Procs |-> "none"]
    /\ tries = [p \in Procs |-> [s \in SUBSET TurnIds |-> 0]]
    /\ job = [r \in Runners |-> Idle]
    /\ written = 0 /\ faults = 0 /\ restarts = 0
    /\ gone = {} /\ commits = [t \in TurnIds |-> 0]

Ids(rows) == {x.id : x \in rows}
Entries(fs) == {f.text : f \in fs}
Fault == faults < MaxFaults /\ faults' = faults + 1
\* Fewer faults are left with each transaction of several that fails.
Faults(n) == faults + n <= MaxFaults /\ faults' = faults + n

(***************************************************************************)
(* Erasing                                                                 *)
(***************************************************************************)

\* wal_checkpoint(TRUNCATE) works, or is busy and noted for a retry (while
\* faults are left, to bound the model).
sanitize_after_erase == wal' \in {"clean"} \cup (IF faults < MaxFaults THEN {"known"} ELSE {})
try_pending_sanitize == IF wal = "known" THEN sanitize_after_erase ELSE wal' = wal

\* row_matches_terms: a row goes with the texts it is about; an episode also
\* with the facts it refers to.
Matches(x, texts) == x.about \in texts

\* Erasing the facts in done by forget_cascade, with the episodes and turns of
\* their subjects; the cascade of each of missed is rolled back: the fact is
\* then noted in pending_erasures and the generation bumped, if that works.
Rest(rows, texts) == {x \in rows : ~Matches(x, texts)}
Kept(done) == {e \in Rest(episode, Entries(done)) : e.refs \cap Ids(done) = {}}
NotedOf(missed) == {Ids(missed)} \cup (IF Unmarked THEN SUBSET Ids(missed) ELSE {})
Remember == gone' = gone \cup (Ids(turn) \ Ids(turn'))
forget_cascade(done, missed) ==
    /\ turn' = Rest(turn, Entries(done))
    /\ episode' = Kept(done)
    /\ \E noted \in NotedOf(missed) : erasing' = (erasing \ Ids(done)) \cup noted
    /\ current' \in {{}} \cup (IF done = {} THEN {current} ELSE {})

erase_fact(f) ==
    \E done \in SUBSET {f} :
        /\ fact' = fact \ done
        /\ forget_cascade(done, {f} \ done)
        /\ IF done = {} THEN wal' = wal ELSE sanitize_after_erase
        /\ Faults(1 - Cardinality(done))
        /\ Remember

(***************************************************************************)
(* The fact index                                                          *)
(***************************************************************************)

\* run_file_check: facts the files do not name and those noted for erasure
\* are erased, entries without a fact are added, and the digest of the files is
\* recorded unless an erase failed.  An insert that fails is not counted; stale
\* says that the digest is not recorded although all was erased (one took a
\* second try, or the write of the digest failed).
\* Without force, nothing happens if the digest is the recorded one and no
\* erasure is noted.
Doomed == {f \in fact : f.text \notin file \/ f.id \in erasing}
Skipped == recorded = {file} /\ erasing = {}
InUse == Ids(fact) \cup erasing \cup (UNION {e.refs : e \in episode})
           \cup (UNION {UNION {e.refs : e \in job[r].found} : r \in Runners})
New(texts) ==
    LET id == CHOOSE i \in Injection(texts, FactIds \ InUse) : TRUE
    IN  {[id |-> id[x], text |-> x] : x \in texts}
Reconcile ==
    \E done \in SUBSET Doomed :
        LET missing == file \ Entries(fact \ done)
        IN  \E added \in {missing} \cup (IF Unmarked THEN SUBSET missing ELSE {}), stale \in BOOLEAN :
                /\ fact' = (fact \ done) \cup New(added)
                /\ Faults(Cardinality(Doomed \ done) + Cardinality(missing \ added)
                            + (IF stale THEN 1 ELSE 0))
                /\ IF Doomed = {} THEN /\ erasing' = erasing \cap Ids(fact)
                                       /\ UNCHANGED <<turn, episode, current>>
                                  ELSE forget_cascade(done, Doomed \ done)
                /\ IF done = {} THEN try_pending_sanitize ELSE sanitize_after_erase
                /\ recorded' = IF done = Doomed /\ ~stale THEN {file} ELSE recorded
                /\ Remember
run_file_check(force) ==
    IF ~force /\ Skipped
    THEN /\ UNCHANGED <<fact, erasing, recorded, turn, episode, current, faults, gone>>
         /\ try_pending_sanitize
    ELSE Reconcile
\* An unreadable file ends the check before it changes anything.
CheckFails == Fault /\ try_pending_sanitize
              /\ UNCHANGED <<fact, erasing, recorded, turn, episode, current, gone>>
Check(force) == run_file_check(force) \/ CheckFails

\* The memory tool of Hermes writes the file, then tells on_memory_write.
ToolAdd == \E x \in Texts \ file : file' = file \cup {x}
              /\ notice' = [act |-> "add", text |-> x, new |-> None, forget |-> FALSE]
ToolRemove == \E x \in file : file' = file \ {x}
              /\ notice' = [act |-> "remove", text |-> x, new |-> None, forget |-> FALSE]
ToolReplace == \E x \in file, y \in Texts \ file, forget \in BOOLEAN :
              /\ file' = (file \ {x}) \cup {y}
              /\ notice' = [act |-> "replace", text |-> x, new |-> y, forget |-> forget]
MemoryTool ==
    /\ notice = NoNotice /\ open # {}
    /\ ToolAdd \/ ToolRemove \/ ToolReplace
    /\ UNCHANGED <<store, open, mind, written, faults, restarts, gone, commits>>

\* The files edited by hand, or by a path of Hermes that tells nobody (edits
\* between a write of the tool and its notice are left out).
HandEdit ==
    /\ HandEdits /\ notice = NoNotice
    /\ \E x \in Texts : file' \in {file \cup {x}, file \ {x}} /\ file' # file
    /\ UNCHANGED <<notice, store, open, mind, written, faults, restarts, gone, commits>>

Named(x) == {f \in fact : f.text = x}
Mirrored == notice' = NoNotice
ThenCheck == notice' = [NoNotice EXCEPT !.act = "check"]

\* on_memory_write, in the process that ran the tool.  What it cannot place it
\* leaves to a forced check.
Insert(x) ==
    IF Named(x) = {}
    THEN fact' = fact \cup New({x}) /\ Mirrored
    ELSE fact' = fact /\ ThenCheck  \* one active fact a text
_notify_add ==
    /\ notice.act = "add"
    /\ \/ Insert(notice.text) /\ faults' = faults
       \/ Fault /\ ThenCheck /\ fact' = fact
    /\ UNCHANGED <<erasing, recorded, turn, episode, current, wal, gone>>
Rewrite(f, y) ==
    IF Named(y) = {} THEN fact' = (fact \ {f}) \cup {[f EXCEPT !.text = y]} /\ Mirrored
                     ELSE fact' = fact /\ ThenCheck
_notify_replace ==
    /\ notice.act = "replace"
    /\ IF Named(notice.text) = {}
       THEN UNCHANGED <<fact, erasing, turn, episode, current, wal, gone, faults>> /\ ThenCheck
       ELSE \E f \in Named(notice.text) :
                IF notice.forget THEN erase_fact(f) /\ ThenCheck
                ELSE /\ \/ Rewrite(f, notice.new) /\ faults' = faults
                        \/ Fault /\ ThenCheck /\ fact' = fact
                     /\ UNCHANGED <<erasing, turn, episode, current, wal, gone>>
    /\ UNCHANGED recorded
_notify_remove ==
    /\ notice.act = "remove"
    /\ IF Named(notice.text) = {}
       THEN UNCHANGED <<fact, erasing, turn, episode, current, gone, faults>> /\ sanitize_after_erase /\ ThenCheck
       ELSE Mirrored /\ \E f \in Named(notice.text) : erase_fact(f)
    /\ UNCHANGED recorded
_unmatched_fallback == notice.act = "check" /\ Check(TRUE) /\ Mirrored
on_memory_write ==
    /\ _notify_add \/ _notify_replace \/ _notify_remove \/ _unmatched_fallback
    /\ UNCHANGED <<file, lease, open, mind, written, restarts, commits>>

(***************************************************************************)
(* The provider                                                            *)
(***************************************************************************)

on_turn_start(p) ==
    /\ p \in open /\ Check(FALSE)
    /\ UNCHANGED <<world, lease, mind, written, restarts, commits>>

\* sync_turn of a turn that is kept; one whose insert fails, or that is in the
\* queue already, is not written.
write_pending(x) == turn' = turn \cup {[id |-> written + 1, about |-> x]}
sync_turn(p) ==
    /\ p \in open /\ written < MaxTurns /\ written' = written + 1
    /\ \E x \in Texts \cup {None} : write_pending(x)
    /\ UNCHANGED <<world, fact, erasing, recorded, episode, current, lease, wal, mind, faults, restarts, gone, commits>>

\* forget_memory on the rows about x: a cascade without facts, which leaves no
\* note behind when it fails.
forget_memory(p, x) ==
    /\ p \in open
    /\ \/ /\ current' = {} /\ faults' = faults
          /\ turn' = Rest(turn, {x}) /\ episode' = Rest(episode, {x}) /\ sanitize_after_erase
       \/ Fault /\ UNCHANGED <<turn, episode, wal>> /\ current' \in {{}, current}
    /\ fact' = fact /\ Remember
    /\ UNCHANGED <<world, erasing, recorded, lease, mind, written, restarts, commits>>

(***************************************************************************)
(* The consolidator                                                        *)
(***************************************************************************)

Of(p) == {r \in Runners : Home[r] = p}

\* request_consolidate: a trigger starts a runner unless one is running, and
\* is remembered by it otherwise.
request_consolidate(p, trig) ==
    /\ wake' = [wake EXCEPT ![p] = trig]
    /\ IF running[p] THEN UNCHANGED <<running, job>>
       ELSE /\ running' = [running EXCEPT ![p] = TRUE]
            /\ \E r \in Of(p) : job[r].pc = "idle"
                   /\ job' = [job EXCEPT ![r] = [@ EXCEPT !.pc = "woken", !.trig = trig]]
\* The quiet timer, the end or switch of a session, or a compression.
quiet_timer(p) ==
    /\ p \in open
    /\ request_consolidate(p, "other")
    /\ UNCHANGED <<world, store, tries, written, faults, restarts, gone, commits>>

\* A new session of a process, the first or another.
initialize(p) ==
    /\ open' = open \cup {p}
    /\ Check(TRUE)
    /\ IF turn' = {} THEN UNCHANGED <<wake, running, job>> ELSE request_consolidate(p, "initialize")
    /\ UNCHANGED <<file, notice, lease, tries, written, restarts, commits>>

\* A runner takes the trigger that came last, and the lease unless another
\* process holds it; begin_consolidation then reads the generation and the
\* rows, and the model is asked if the rows were not tried too often.  The
\* trigger "initialize" starts that count anew.
Busy(p) == lease.owner \notin {None, p} /\ lease.live
Trigger(r) == IF wake[Home[r]] = "none" THEN job[r].trig ELSE wake[Home[r]]
GivesUp(r, rows) == rows = {} \/ (tries[Home[r]][rows] = MaxTries /\ Trigger(r) # "initialize")
Spent(p, rows) == tries[p][rows] = MaxTries
Attempt_Counts(p, rows) == tries[p][rows] + 1
Attempt(p, rows) == IF Spent(p, rows) THEN 1 ELSE tries[p][rows] + 1
begin_consolidation(r) ==
    LET p == Home[r]
        rows == Ids(turn)
    IN  /\ IF GivesUp(r, rows)
           THEN /\ job' = [job EXCEPT ![r] = [Idle EXCEPT !.pc = "leaving"]]
                /\ UNCHANGED <<tries, current>>
           ELSE /\ job' = [job EXCEPT ![r] = [Idle EXCEPT !.pc = "asked", !.rows = rows,
                                               !.attempt = Attempt(p, rows)]]
                /\ tries' = IF Spent(p, rows) THEN [tries EXCEPT ![p][rows] = 0] ELSE tries
                /\ current' = current \cup {r}
run_consolidation(r) ==
    LET p == Home[r]
    IN  /\ job[r].pc = "woken" /\ p \in open
        /\ wake' = [wake EXCEPT ![p] = "none"]
        /\ \/ /\ (Busy(p) /\ faults' = faults) \/ Fault  \* no lease, or no model
              /\ job' = [job EXCEPT ![r] = [Idle EXCEPT !.pc = "leaving"]]
              /\ UNCHANGED <<lease, tries, current, wal>>
           \/ /\ ~Busy(p) /\ faults' = faults
              /\ lease' = [owner |-> p, live |-> TRUE]
              /\ try_pending_sanitize /\ begin_consolidation(r)
        /\ UNCHANGED <<world, fact, erasing, recorded, turn, episode,
                       running, written, restarts, gone, commits>>

\* A failed attempt counts against these very rows.
Failed(r) ==
    /\ tries' = [tries EXCEPT ![Home[r]][job[r].rows] = job[r].attempt]
    /\ current' = current \ {r}
    /\ job' = [job EXCEPT ![r] = [Idle EXCEPT !.pc = "leaving"]]
\* The model fails, answers what validate_episodes refuses, or answers
\* episodes of the rows that name active facts only.  The rows are those
\* that were read; the facts are those of this moment.
model_fails(r) ==
    /\ job[r].pc = "asked" /\ Fault /\ Failed(r)
    /\ UNCHANGED <<world, fact, erasing, recorded, turn, episode, lease, wal,
                   running, wake, written, restarts, gone, commits>>
fact_refs == {{}} \cup {{i} : i \in Ids(fact)}
Answers(rows) == {{}} \cup {{[id |-> MaxFacts + 1, about |-> x, refs |-> refs, from |-> rows]} :
                               x \in Texts \cup {None}, refs \in fact_refs}
validate_episodes(r) ==
    /\ job[r].pc = "asked"
    /\ \E found \in Answers(job[r].rows) :
           job' = [job EXCEPT ![r] = [@ EXCEPT !.pc = "answered", !.found = found]]
    /\ UNCHANGED <<world, store, running, wake, tries, written, faults, restarts, gone, commits>>

\* can_commit: nothing waits to be erased, no erase came since, and the rows
\* are those that were read.
can_commit_AnyGeneration(r) == erasing = {} /\ Ids(turn) = job[r].rows
can_commit_AnyRows(r) == erasing = {} /\ r \in current
can_commit(r) ==
    /\ erasing = {}
    /\ r \in current
    /\ Ids(turn) = job[r].rows
Renewed(p) == lease' = IF lease.owner = p THEN [lease EXCEPT !.live = TRUE] ELSE lease
_commit(r) ==
    LET p == Home[r]
        made == {[e EXCEPT !.id = CHOOSE i \in EpisodeIds \ Ids(episode) : TRUE] : e \in job[r].found}
    IN  /\ job[r].pc = "answered" /\ p \in open
        /\ can_commit(r)
        /\ episode' = episode \cup made
        /\ turn' = {t \in turn : t.id \notin job[r].rows}
        /\ commits' = [t \in TurnIds |-> IF t \in job[r].rows /\ commits[t] < 2 THEN commits[t] + 1 ELSE commits[t]]
        /\ sanitize_after_erase /\ Renewed(p)
        /\ tries' = [tries EXCEPT ![p][job[r].rows] = 0]
        /\ current' = current \ {r}
        /\ job' = [job EXCEPT ![r] = [Idle EXCEPT !.pc = "leaving"]]
        /\ UNCHANGED <<world, fact, erasing, recorded, running, wake, written, faults, restarts, gone>>
discard(r) ==
    /\ job[r].pc = "answered" /\ Home[r] \in open
    /\ (~can_commit(r) /\ faults' = faults) \/ Fault
    /\ Renewed(Home[r]) /\ Failed(r)
    /\ UNCHANGED <<world, fact, erasing, recorded, turn, episode, wal,
                   running, wake, written, restarts, gone, commits>>

\* The lease is let go.  The runner goes on with a trigger that came
\* meanwhile, or stops: then its finally clause clears _running once more,
\* after the lock was let go.
_release_lease(p) == lease' = IF lease.owner = p THEN [owner |-> None, live |-> FALSE] ELSE lease
Continue(r) ==
    LET p == Home[r]
    IN  /\ job[r].pc = "leaving"
        /\ _release_lease(p)
        /\ IF wake[p] = "none"
           THEN /\ running' = [running EXCEPT ![p] = FALSE]
                /\ job' = [job EXCEPT ![r].pc = "closing"]
           ELSE /\ running' = running
                /\ job' = [job EXCEPT ![r].pc = "woken", ![r].trig = wake[p]]
        /\ UNCHANGED <<world, fact, erasing, recorded, turn, episode, current, wal,
                       wake, tries, written, faults, restarts, gone, commits>>
Close(r) ==
    /\ job[r].pc = "closing"
    /\ running' = [running EXCEPT ![Home[r]] = FALSE]
    /\ job' = [job EXCEPT ![r] = Idle]
    /\ UNCHANGED <<world, store, wake, tries, written, faults, restarts, gone, commits>>

LeaseExpires ==
    /\ lease.live /\ lease' = [lease EXCEPT !.live = FALSE]
    /\ UNCHANGED <<world, fact, erasing, recorded, turn, episode, current, wal,
                   mind, written, faults, restarts, gone, commits>>

\* A process dies: its next _instance_id is another.
Restart(p) ==
    /\ p \in open /\ restarts < MaxRestarts /\ restarts' = restarts + 1
    /\ open' = open \ {p}
    /\ notice' \in {notice, NoNotice} /\ (open' = {} => notice' = NoNotice)
    /\ running' = [running EXCEPT ![p] = FALSE] /\ wake' = [wake EXCEPT ![p] = "none"]
    /\ tries' = [tries EXCEPT ![p] = [s \in SUBSET TurnIds |-> 0]]
    /\ job' = [r \in Runners |-> IF Home[r] = p THEN Idle ELSE job[r]]
    /\ lease' = IF lease.owner = p THEN [lease EXCEPT !.owner = Dead] ELSE lease
    /\ current' = current \ Of(p)
    /\ UNCHANGED <<file, fact, erasing, recorded, turn, episode, wal, written, faults, gone, commits>>

(***************************************************************************)
(* The specification                                                       *)
(***************************************************************************)

Operations == MemoryTool \/ HandEdit \/ on_memory_write \/ LeaseExpires
OfProcess(p) ==
    \/ initialize(p) \/ on_turn_start(p) \/ sync_turn(p) \/ quiet_timer(p) \/ Restart(p)
    \/ \E x \in Texts : forget_memory(p, x)
Run(r) ==
    \/ run_consolidation(r) \/ model_fails(r) \/ validate_episodes(r)
    \/ _commit(r) \/ discard(r) \/ Continue(r) \/ Close(r)
Next == Operations \/ (\E p \in Procs : OfProcess(p)) \/ (\E r \in Runners : Run(r))
Spec == Init /\ [][Next]_vars

\* What a cascade erased does not come back by way of a model call that was
\* under way: no episode is made from a turn that was erased, and none refers to
\* a fact that is no more (can_commit against bump_generation and begin of
\* another runner).
NoEcho == \A e \in episode : e.from \cap gone = {} /\ e.refs \subseteq Ids(fact)

\* Whatever the runners, faults and deaths, a turn that was written is in the
\* queue, or was taken by one commit, or was erased: exactly one of the three.
TurnSettledOnce ==
    \A t \in 1..written :
        /\ commits[t] <= 1
        /\ Cardinality({way \in {"waits", "kept", "erased"} :
                \/ way = "waits" /\ t \in Ids(turn)
                \/ way = "kept" /\ commits[t] = 1
                \/ way = "erased" /\ t \in gone}) = 1

=============================================================================
