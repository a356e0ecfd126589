--------------------------- MODULE SendGate_proofs ---------------------------
(***************************************************************************)
(* Proofs about SendGate: its types, its safety invariants, and that it    *)
(* implements SendApproval.                                                *)
(***************************************************************************)
EXTENDS SendGate, FiniteSetTheorems, TLAPS

-----------------------------------------------------------------------------
(* Types. *)

\* A turn moves from one state to another.
LEMMA TurnMoves ==
    ASSUME turn \in [Turns -> TurnRows], NEW t \in Turns, NEW st \in TurnStates, NEW f \in BOOLEAN
    PROVE  /\ [turn EXCEPT ![t].state = st, ![t].flushed = f] \in [Turns -> TurnRows]
           /\ [turn EXCEPT ![t].state = st] \in [Turns -> TurnRows]
           /\ [turn EXCEPT ![t].flushed = f] \in [Turns -> TurnRows]
  BY DEF TurnRows

\* A free turn begins.
LEMMA TurnBegins ==
    ASSUME TypeOK, NEW t \in Fresh, NEW s \in Sessions, NEW line \in TurnLines, Begun(t, s, line),
           UNCHANGED bound
    PROVE  /\ turn' \in [Turns -> TurnRows]
           /\ bound' \subseteq {u \in Turns : turn'[u].state \in {"running", "stopping"}}
  BY DEF TypeOK, Begun, Fresh, TurnRows, TurnStates

\* The call moves on.
LEMMA RpcMoves ==
    ASSUME rpc \in [Sessions -> RpcRows], NEW s \in Sessions,
           NEW st \in {"none", "asked", "streaming", "queued", "refused"}, Handled(s, st)
    PROVE  rpc' \in [Sessions -> RpcRows]
  BY DEF Handled, RpcRows

\* The lines, the queue and the tickets.
LEMMA SubmitTypes == ASSUME TypeOK, Submitted, Submit PROVE TypeOK'
<1> USE DEF TypeOK, owner, gate, hist
<1>n. MaxLines \in Nat /\ \A l \in Lines : l \in TurnLines
  BY Parameters DEF TurnLines
<1>1. ASSUME NEW s \in Sessions, NEW line \in Lines, mint(s, line) PROVE TypeOK'
  <2>1. rpc' \in [Sessions -> RpcRows]
    BY <1>1 DEF mint, RpcRows
  <2>2. /\ ticket' \in [Sessions -> [Lines -> 0..MaxLines]]
        /\ lines' \in [Sessions -> [Lines -> 0..MaxLines]]
    BY <1>1, <1>n DEF mint, Submitted
  <2> QED BY <1>1, <2>1, <2>2 DEF mint
<1>2. ASSUME NEW s \in Sessions, NEW line \in Lines, TicketExpires(s, line) PROVE TypeOK'
  <2>1. ticket' \in [Sessions -> [Lines -> 0..MaxLines]]
    BY <1>2, <1>n DEF TicketExpires
  <2> QED BY <1>2, <2>1 DEF TicketExpires
<1>3. ASSUME NEW s \in Sessions, HandlerStarts(s) PROVE TypeOK'
  <2>1. rpc[s].line \in TurnLines
    BY <1>3, <1>n DEF HandlerStarts, Submitted
  <2>2. PICK t \in Fresh : Begun(t, s, rpc[s].line)
    BY <1>3 DEF HandlerStarts
  <2>3. /\ turn' \in [Turns -> TurnRows]
        /\ bound' \subseteq {u \in Turns : turn'[u].state \in {"running", "stopping"}}
    BY <1>3, <2>1, <2>2, TurnBegins DEF HandlerStarts
  <2>4. rpc' \in [Sessions -> RpcRows]
    BY <1>3, RpcMoves DEF HandlerStarts
  <2> QED BY <1>3, <2>3, <2>4 DEF HandlerStarts
<1>4. ASSUME NEW s \in Sessions, HandlerQueues(s) PROVE TypeOK'
  <2>1. rpc' \in [Sessions -> RpcRows]
    BY <1>4, RpcMoves DEF HandlerQueues
  <2>2. queue' \in [Sessions -> Lines \union {"none", Merged}]
    BY <1>4 DEF HandlerQueues, Submitted
  <2> QED BY <1>4, <2>1, <2>2 DEF HandlerQueues
<1>5. ASSUME NEW s \in Sessions, HandlerRedirects(s) PROVE TypeOK'
  <2>1. rpc' \in [Sessions -> RpcRows]
    BY <1>5, RpcMoves DEF HandlerRedirects
  <2>2. rpc[s].line \in TurnLines
    BY <1>5, <1>n DEF HandlerRedirects, Submitted
  <2>3. PICK t \in Turns : Len(newer[t]) < 2 /\ newer' = [newer EXCEPT ![t] = Append(@, rpc[s].line)]
    BY <1>5 DEF HandlerRedirects, Active
  <2>4. Append(newer[t], rpc[s].line) \in Seq(TurnLines) /\ Len(Append(newer[t], rpc[s].line)) <= 2
    BY <2>2, <2>3
  <2>5. newer' \in [Turns -> Seq(TurnLines)] /\ \A u \in Turns : Len(newer'[u]) <= 2
    BY <2>3, <2>4
  <2> QED BY <1>5, <2>1, <2>5 DEF HandlerRedirects
<1>6. ASSUME NEW s \in Sessions, HandlerRefuses(s) PROVE TypeOK'
  <2>1. rpc' \in [Sessions -> RpcRows]
    BY <1>6, RpcMoves DEF HandlerRefuses
  <2> QED BY <1>6, <2>1 DEF HandlerRefuses
<1>7. ASSUME NEW s \in Sessions, Dispatched(s) PROVE TypeOK'
  <2>1. rpc' \in [Sessions -> RpcRows]
    BY <1>7 DEF Dispatched, RpcRows, NoRpc
  <2>2. rpc[s].line \in Lines
    BY <1>7 DEF Dispatched, Submitted
  <2>3. ticket' \in [Sessions -> [Lines -> 0..MaxLines]]
    BY <1>7, <1>n, <2>2 DEF Dispatched
  <2> QED BY <1>7, <2>1, <2>3 DEF Dispatched
<1>8. ASSUME NEW s \in Sessions, Drain(s) PROVE TypeOK'
  <2>1. queue[s] \in TurnLines
    BY <1>8, <1>n DEF Drain, TurnLines
  <2>2. PICK t \in Fresh : Begun(t, s, queue[s])
    BY <1>8 DEF Drain
  <2>3. /\ turn' \in [Turns -> TurnRows]
        /\ bound' \subseteq {u \in Turns : turn'[u].state \in {"running", "stopping"}}
    BY <1>8, <2>1, <2>2, TurnBegins DEF Drain
  <2>4. queue' \in [Sessions -> Lines \union {"none", Merged}]
    BY <1>8 DEF Drain
  <2> QED BY <1>8, <2>3, <2>4 DEF Drain
<1>9. ASSUME NEW s \in Sessions, Synthetic(s) PROVE TypeOK'
  <2>1. PICK t \in Fresh : Begun(t, s, "go")
    BY <1>9 DEF Synthetic
  <2>2. /\ turn' \in [Turns -> TurnRows]
        /\ bound' \subseteq {u \in Turns : turn'[u].state \in {"running", "stopping"}}
    BY <1>9, <2>1, TurnBegins DEF Synthetic, TurnLines
  <2> QED BY <1>9, <2>2 DEF Synthetic
<1> QED BY <1>1, <1>2, <1>3, <1>4, <1>5, <1>6, <1>7, <1>8, <1>9 DEF Submit

\* The hooks.
LEMMA HookTypes == ASSUME TypeOK, TurnsInOrder, Reviews, Hooks PROVE TypeOK'
<1> USE DEF TypeOK, owner, gate, hist
<1>n. MaxLines \in Nat
  BY Parameters
<1>d. NoDraft \in DraftRows /\ NoAuth \in AuthRows
  BY DEF NoDraft, NoAuth, DraftRows, AuthRows
<1>1. ASSUME NEW t \in Turns, NEW flushed \in BOOLEAN, NEW readable \in BOOLEAN,
             pre_llm_call(t, flushed, readable)
      PROVE TypeOK'
  <2> DEFINE s == turn[t].session
             line == turn[t].line
             mine == line \in Lines /\ ticket[s][line] > 0
  <2>1. s \in Sessions /\ line \in TurnLines /\ turn[t].state = "starting"
    BY <1>1 DEF pre_llm_call, TurnsInOrder, Entered
  <2>2. turn' = [turn EXCEPT ![t].state = "running", ![t].flushed = flushed]
    BY <1>1 DEF pre_llm_call
  <2>3. turn' \in [Turns -> TurnRows]
    BY <2>2, TurnMoves DEF TurnStates
  <2>4. bound' \subseteq {u \in Turns : turn'[u].state \in {"running", "stopping"}}
    <3>1. bound' = bound \/ bound' = bound \union {t}
      BY <1>1 DEF pre_llm_call
    <3>2. \A u \in Turns : turn'[u].state = IF u = t THEN "running" ELSE turn[u].state
      BY <2>2 DEF TurnRows
    <3> QED BY <3>1, <3>2
  <2>5. ticket' \in [Sessions -> [Lines -> 0..MaxLines]]
    <3>1. ticket' = IF mine THEN Taken(s, line) ELSE ticket
      BY <1>1 DEF pre_llm_call
    <3>2. CASE mine
      <4>1. ticket' = [ticket EXCEPT ![s][line] = @ - 1]
        BY <3>1, <3>2 DEF Taken
      <4>2. ticket[s][line] - 1 \in 0..MaxLines
        BY <1>n, <2>1, <3>2
      <4> HIDE DEF s, line
      <4> QED BY <4>1, <4>2, <2>1, <3>2
    <3> QED BY <3>1, <3>2
  <2>6. snapshot' \in [Turns -> {"none", "read", "failed"}]
    BY <1>1 DEF pre_llm_call
  <2>7. auth' \in [Turns -> AuthRows]
    <3>1. \/ auth' = auth
          \/ auth' = [auth EXCEPT ![t] =
               [draft |-> pending[s].draft, content |-> pending[s].content,
                session |-> s, used |-> FALSE]]
      BY <1>1 DEF pre_llm_call
    <3>2. pending[s] \in DraftRows
      BY <2>1
    <3>3. [draft |-> pending[s].draft, content |-> pending[s].content,
           session |-> s, used |-> FALSE] \in AuthRows
      BY <2>1, <3>2 DEF AuthRows, DraftRows
    <3> QED BY <3>1, <3>3
  <2>8. approvals' \subseteq Turns
    BY <1>1 DEF pre_llm_call
  <2> HIDE DEF s, line, mine
  <2> QED BY <1>1, <2>3, <2>4, <2>5, <2>6, <2>7, <2>8 DEF pre_llm_call
<1>e. ASSUME NEW t \in Turns, Ended(t), end_turn(t) \/ bound' = bound \ {t}
      PROVE /\ turn' \in [Turns -> TurnRows]
            /\ bound' \subseteq {u \in Turns : turn'[u].state \in {"running", "stopping"}}
            /\ snapshot' \in [Turns -> {"none", "read", "failed"}]
            /\ newer' \in [Turns -> Seq(TurnLines)] /\ \A u \in Turns : Len(newer'[u]) <= 2
  <2>1. turn' = [turn EXCEPT ![t].state = "over", ![t].flushed = FALSE]
    BY <1>e DEF Ended
  <2>2. turn' \in [Turns -> TurnRows]
    BY <2>1, TurnMoves DEF TurnStates
  <2>3. \A u \in Turns : u # t => turn'[u].state = turn[u].state
    BY <2>1
  <2>4. snapshot' \in [Turns -> {"none", "read", "failed"}]
    BY <1>e DEF Ended
  <2>5. newer' = [newer EXCEPT ![t] = <<>>] /\ <<>> \in Seq(TurnLines) /\ Len(<<>>) = 0
    BY <1>e DEF Ended
  <2>6. newer' \in [Turns -> Seq(TurnLines)] /\ \A u \in Turns : Len(newer'[u]) <= 2
    BY <2>5
  <2> QED BY <1>e, <2>2, <2>3, <2>4, <2>6 DEF end_turn
<1>2. ASSUME NEW t \in Turns, Live(t), NEW said \in {"none", pending[turn[t].session].content},
             post_llm_call(t, said)
      PROVE TypeOK'
  <2> DEFINE s == turn[t].session
  <2>1. s \in Sessions
    BY <1>2 DEF TurnsInOrder, Entered, Live
  <2>2. pending[s] \in DraftRows
    BY <2>1
  <2>3. pending' \in [Sessions -> DraftRows]
    <3>1. pending' = pending \/ pending' = [pending EXCEPT ![s].review = "live"]
      BY <1>2 DEF post_llm_call, Reviewing
    <3> HIDE DEF s
    <3>2. [pending EXCEPT ![s].review = "live"] \in [Sessions -> DraftRows]
      BY <2>1, <2>2 DEF DraftRows
    <3> QED BY <3>1, <3>2
  <2>4. heard' \subseteq Sessions \X Contents \X Turns
    <3>1. said = "none" \/ said \in Contents
      BY <1>2, <2>2 DEF DraftRows
    <3>2. heard' = heard \union ({<<s, said, t>>} \ {<<s, "none", t>>})
      BY <1>2 DEF post_llm_call
    <3> QED BY <2>1, <3>1, <3>2
  <2>5. auth' \in [Turns -> AuthRows]
    BY <1>2, <1>d DEF post_llm_call
  <2> QED BY <1>2, <1>e, <2>3, <2>4, <2>5 DEF post_llm_call
<1>3. ASSUME NEW t \in Turns, RowFlushed(t) PROVE TypeOK'
  <2>1. /\ turn[t].line \in TurnLines /\ Len(newer[t]) < 2
        /\ turn' = [turn EXCEPT ![t].flushed = TRUE]
        /\ newer' = [newer EXCEPT ![t] = Append(@, turn[t].line)]
    BY <1>3 DEF RowFlushed, TurnsInOrder, Entered
  <2>2. turn' \in [Turns -> TurnRows]
    BY <2>1, TurnMoves DEF TurnStates
  <2>5. \A u \in Turns : turn'[u].state = turn[u].state
    BY <2>1 DEF TurnRows
  <2>3. Append(newer[t], turn[t].line) \in Seq(TurnLines) /\ Len(Append(newer[t], turn[t].line)) <= 2
    BY <2>1
  <2>4. newer' \in [Turns -> Seq(TurnLines)] /\ \A u \in Turns : Len(newer'[u]) <= 2
    BY <2>1, <2>3
  <2> QED BY <1>3, <2>2, <2>4, <2>5 DEF RowFlushed
<1>4. ASSUME NEW t \in Turns, BoundExpires(t) PROVE TypeOK'
  BY <1>4 DEF BoundExpires
<1>5. ASSUME NEW t \in Turns, Interrupt(t) PROVE TypeOK'
  <2>1. turn[t].state = "running" /\ turn' = [turn EXCEPT ![t].state = "stopping"]
    BY <1>5 DEF Interrupt
  <2>2. turn' \in [Turns -> TurnRows]
    BY <2>1, TurnMoves DEF TurnStates
  <2>3. \A u \in Turns : turn'[u].state = IF u = t THEN "stopping" ELSE turn[u].state
    BY <2>1 DEF TurnRows
  <2>4. /\ pending' \in [Sessions -> DraftRows] /\ own' \in [Sessions -> SUBSET Drafts]
        /\ auth' \in [Turns -> AuthRows]
    BY <1>5, <1>d DEF Interrupt, clear_session
  <2>5. snapshot' \in [Turns -> {"none", "read", "failed"}]
    BY <1>5 DEF Interrupt
  <2> QED BY <1>5, <2>2, <2>3, <2>4, <2>5 DEF Interrupt
<1>6. ASSUME NEW t \in Turns, on_session_end(t) PROVE TypeOK'
  BY <1>6, <1>e DEF on_session_end
<1>7. ASSUME NEW s \in Sessions, ReviewExpires(s) PROVE TypeOK'
  <2>1. pending' \in [Sessions -> DraftRows]
    BY <1>7 DEF ReviewExpires, DraftRows
  <2> QED BY <1>7, <2>1 DEF ReviewExpires
<1> QED BY <1>1, <1>2, <1>3, <1>4, <1>5, <1>6, <1>7 DEF Hooks

Steps == {"idle", "gated", "created", "fetching", "loaded", "fetched",
          "erased", "granted", "matched", "issued", "sent"}

\* A call gets a new step, and with it what it read.
LEMMA CallMoves ==
    ASSUME TypeOK, NEW c \in Calls, NEW pc \in Steps, NEW v \in Contents
    PROVE  /\ [call EXCEPT ![c].pc = pc, ![c].content = v] \in [Calls -> CallRows]
           /\ [call EXCEPT ![c].pc = pc, ![c].got = v] \in [Calls -> CallRows]
<1>1. call \in [Calls -> CallRows]
  BY DEF TypeOK
<1>2. [call[c] EXCEPT !.pc = pc, !.content = v] \in CallRows
  BY <1>1 DEF CallRows, Steps
<1>3. [call[c] EXCEPT !.pc = pc, !.got = v] \in CallRows
  BY <1>1 DEF CallRows, Steps
<1> QED BY <1>1, <1>2, <1>3

\* A step of a call that keeps its contents.
LEMMA CallSteps ==
    ASSUME TypeOK, NEW c \in Calls, NEW pc \in Steps, Goto(c, pc) \/ Done(c)
    PROVE  call' \in [Calls -> CallRows]
<1>1. call \in [Calls -> CallRows]
  BY DEF TypeOK
<1>2. [call[c] EXCEPT !.pc = pc] \in CallRows
  BY <1>1 DEF CallRows, Steps
<1>3. NoCall \in CallRows
  BY DEF CallRows, NoCall
<1> QED BY <1>1, <1>2, <1>3 DEF Goto, Done

\* The draft of a call that is under way is one, and so is its session.
LEMMA CallAlive ==
    ASSUME TypeOK, TurnsInOrder, CallsAlive, NEW c \in Calls, call[c] # NoCall
    PROVE  /\ call[c].turn \in Turns /\ call[c].draft \in Drafts
           /\ turn[call[c].turn].state \in {"running", "stopping"}
           /\ Session(c) \in Sessions /\ call[c].kind # "none" /\ call[c].pc # "idle"
           /\ call[c].pc = "fetched" /\ call[c].kind # "send" => call[c].content \in Contents
  BY DEF CallsAlive, TurnsInOrder, Entered, Session

\* gmail_draft.
LEMMA DraftTypes == ASSUME TypeOK, TurnsInOrder, CallsAlive, DraftTool PROVE TypeOK'
<1> USE DEF TypeOK, owner, gate, hist
<1>d. NoDraft \in DraftRows /\ NoAuth \in AuthRows
  BY DEF NoDraft, NoAuth, DraftRows, AuthRows
<1>e. MaxEdits \in Nat
  BY Parameters
<1>1. ASSUME NEW c \in Calls, NEW t \in Turns, NEW d \in Drafts,
             NEW kind \in {"create", "update", "show", "delete"}, begin_call(c, t, kind, d)
      PROVE TypeOK'
  <2>1. [NoCall EXCEPT !.kind = kind, !.turn = t, !.draft = d, !.pc = "gated"] \in CallRows
    BY DEF NoCall, CallRows
  <2>2. call' \in [Calls -> CallRows]
    BY <1>1, <2>1 DEF begin_call
  <2> QED BY <1>1, <2>2 DEF begin_call
<1>2. ASSUME NEW c \in Calls, NEW v \in Contents, create(c, v) PROVE TypeOK'
  <2>1. call' \in [Calls -> CallRows]
    BY <1>2, CallSteps DEF Steps, create
  <2>2. gmail' \in [Drafts -> Contents \union {"none", "gone"}]
    BY <1>2 DEF create
  <2> QED BY <1>2, <2>1, <2>2 DEF create
<1>3. ASSUME NEW c \in Calls, NEW v \in Contents, put(c, v) PROVE TypeOK'
  <2>1. call' \in [Calls -> CallRows]
    BY <1>3, CallSteps DEF Steps, put
  <2>2. gmail' \in [Drafts -> Contents \union {"none", "gone"}]
    BY <1>3 DEF put
  <2> QED BY <1>3, <1>e, <2>1, <2>2 DEF put
<1>a. ASSUME NEW c \in Calls, call[c].kind # "none" PROVE call[c] # NoCall
  BY <1>a DEF NoCall
<1>4. ASSUME NEW c \in Calls, remember_own(c) PROVE TypeOK'
  <2>1. call[c] # NoCall
    BY <1>4, <1>a DEF remember_own, At
  <2>2. own' \in [Sessions -> SUBSET Drafts]
    BY <1>4, <2>1, CallAlive DEF remember_own
  <2>3. call' \in [Calls -> CallRows]
    BY <1>4, CallSteps DEF Steps, remember_own
  <2> QED BY <1>4, <2>2, <2>3 DEF remember_own
<1>5. ASSUME NEW c \in Calls, load_own(c) \/ fetch_draft(c) PROVE TypeOK'
  <2>1. PICK v \in Contents, pc \in {"fetched", "loaded"} :
           call' = [call EXCEPT ![c].pc = pc, ![c].content = v]
    BY <1>5 DEF load_own, fetch_draft, There
  <2>2. call' \in [Calls -> CallRows]
    BY <2>1, CallMoves DEF Steps
  <2> QED BY <1>5, <2>2 DEF load_own, fetch_draft
<1>6. ASSUME NEW c \in Calls, present(c) PROVE TypeOK'
  <2>1. call[c] # NoCall
    BY <1>6 DEF present, NoCall
  <2>2. call[c].kind # "send" /\ call[c].pc = "fetched" /\ call[c].content \in Contents
    BY <1>6, <2>1, CallAlive DEF present
  <2>3. [draft |-> call[c].draft, content |-> call[c].content,
         turn |-> call[c].turn, review |-> "no"] \in DraftRows
    BY <2>1, <2>2, CallAlive DEF DraftRows
  <2>4. pending' \in [Sessions -> DraftRows]
    BY <1>6, <1>d, <2>3 DEF present
  <2>5. own' \in [Sessions -> SUBSET Drafts]
    BY <1>6, <2>1, CallAlive DEF present
  <2>6. auth' \in [Turns -> AuthRows]
    BY <1>6, <1>d DEF present
  <2>7. call' \in [Calls -> CallRows]
    BY <1>6, CallSteps DEF Steps, present
  <2> QED BY <1>6, <2>4, <2>5, <2>6, <2>7 DEF present
<1>7. ASSUME NEW c \in Calls, erase(c) PROVE TypeOK'
  <2>1. call' \in [Calls -> CallRows]
    BY <1>7, CallSteps DEF Steps, erase
  <2>2. gmail' \in [Drafts -> Contents \union {"none", "gone"}]
    BY <1>7 DEF erase
  <2> QED BY <1>7, <2>1, <2>2 DEF erase
<1>8. ASSUME NEW c \in Calls, erased(c) PROVE TypeOK'
  <2>1. call' \in [Calls -> CallRows]
    BY <1>8, CallSteps DEF Steps, erased
  <2>2. pending' \in [Sessions -> DraftRows] /\ own' \in [Sessions -> SUBSET Drafts]
    BY <1>8, <1>d DEF erased, drop_pending
  <2> QED BY <1>8, <2>1, <2>2 DEF erased
<1>9. ASSUME NEW c \in Calls, draft_gives_up(c) PROVE TypeOK'
  <2>1. call' \in [Calls -> CallRows]
    BY <1>9, CallSteps DEF Steps, draft_gives_up
  <2> QED BY <1>9, <2>1 DEF draft_gives_up
<1> HIDE DEF TypeOK
<1>q. PICK c \in Calls :
        \/ \E t \in Turns, d \in Drafts, kind \in {"create", "update", "show", "delete"} :
             begin_call(c, t, kind, d)
        \/ \E v \in Contents : create(c, v) \/ put(c, v)
        \/ remember_own(c) \/ load_own(c) \/ fetch_draft(c) \/ present(c) \/ erase(c) \/ erased(c)
        \/ draft_gives_up(c)
  BY DEF DraftTool
<1> QED BY <1>1, <1>2, <1>3, <1>4, <1>5, <1>6, <1>7, <1>8, <1>9, <1>q

\* gmail_send_draft.
LEMMA SendTypes == ASSUME TypeOK, TurnsInOrder, CallsAlive, Auths, Grants, SendTool PROVE TypeOK'
<1> USE DEF TypeOK, owner, gate, hist
<1>d. NoDraft \in DraftRows /\ NoAuth \in AuthRows
  BY DEF NoDraft, NoAuth, DraftRows, AuthRows
<1>a. ASSUME NEW c \in Calls, call[c].kind = "send" PROVE call[c] # NoCall
  BY <1>a DEF NoCall
<1>1. ASSUME NEW c \in Calls, NEW t \in Turns, NEW d \in Drafts, begin_call(c, t, "send", d)
      PROVE TypeOK'
  <2>1. [NoCall EXCEPT !.kind = "send", !.turn = t, !.draft = d, !.pc = "gated"] \in CallRows
    BY DEF NoCall, CallRows
  <2>2. call' \in [Calls -> CallRows]
    BY <1>1, <2>1 DEF begin_call
  <2> QED BY <1>1, <2>2 DEF begin_call
<1>2. ASSUME NEW c \in Calls, begin_send(c) PROVE TypeOK'
  <2>1. call[c].turn \in Turns /\ auth[call[c].turn] # NoAuth
    BY <1>2, <1>a, CallAlive DEF begin_send, At, Authorized
  <2>2. auth[call[c].turn].content \in Contents
    BY <2>1 DEF Auths
  <2>3. call' \in [Calls -> CallRows]
    <3>1. PICK v \in Contents : v = auth[call[c].turn].content
      BY <2>2
    <3>2. call' = [call EXCEPT ![c].pc = "granted", ![c].content = v]
      BY <1>2, <3>1 DEF begin_send
    <3> HIDE DEF TypeOK
    <3> QED BY <3>2, CallMoves DEF Steps
  <2>4. Used(auth[call[c].turn]) \in AuthRows
    BY <2>1 DEF Used, AuthRows
  <2>5. auth' \in [Turns -> AuthRows]
    BY <1>2, <2>1, <2>4 DEF begin_send
  <2> QED BY <1>2, <2>3, <2>5 DEF begin_send
<1>3. ASSUME NEW c \in Calls, send_refused(c) PROVE TypeOK'
  <2>1. call' \in [Calls -> CallRows]
    BY <1>3, CallSteps DEF Steps, send_refused
  <2> QED BY <1>3, <2>1 DEF send_refused
<1>4. ASSUME NEW c \in Calls, send_fetch(c) PROVE TypeOK'
  <2>1. gmail[call[c].draft] \in Contents
    BY <1>4 DEF send_fetch, There
  <2>2. call' = [call EXCEPT ![c].pc = "fetched", ![c].got = gmail[call[c].draft]]
    BY <1>4 DEF send_fetch
  <2>3. call' \in [Calls -> CallRows]
    <3> HIDE DEF TypeOK
    <3>1. PICK v \in Contents : v = gmail[call[c].draft]
      BY <2>1
    <3> QED BY <2>2, <3>1, CallMoves DEF Steps
  <2> QED BY <1>4, <2>3 DEF send_fetch
<1>5. ASSUME NEW c \in Calls, send_matches(c) \/ send_rechecks(c) PROVE TypeOK'
  <2>1. call' \in [Calls -> CallRows]
    BY <1>5, CallSteps DEF Steps, send_matches, send_rechecks
  <2> QED BY <1>5, <2>1 DEF send_matches, send_rechecks
<1>6. ASSUME NEW c \in Calls, send_fails(c) PROVE TypeOK'
  <2>1. call' \in [Calls -> CallRows]
    BY <1>6, CallSteps DEF Steps, send_fails
  <2>2. auth' \in [Turns -> AuthRows]
    BY <1>6, <1>d DEF send_fails, clear_authorization
  <2> QED BY <1>6, <2>1, <2>2 DEF send_fails
<1>7. ASSUME NEW c \in Calls, drafts_send(c) PROVE TypeOK'
  <2>1. call[c].kind = "send" /\ call[c].pc = "issued" /\ gmail[call[c].draft] \in Contents
    BY <1>7 DEF drafts_send, At, There
  <2>2. call[c].got \in Contents
    BY <2>1 DEF Grants, Holding
  <2>3. turn[call[c].turn].session \in Sessions /\ call[c].turn \in Turns
    BY <2>1, <1>a, CallAlive DEF Session
  <2>4. sent' \subseteq Sessions \X Contents \X Turns \X Contents
    BY <1>7, <2>1, <2>2, <2>3 DEF drafts_send
  <2>5. call' \in [Calls -> CallRows]
    BY <1>7, CallSteps DEF Steps, drafts_send
  <2>6. gmail' \in [Drafts -> Contents \union {"none", "gone"}]
    BY <1>7 DEF drafts_send
  <2> QED BY <1>7, <2>4, <2>5, <2>6 DEF drafts_send
<1>8. ASSUME NEW c \in Calls, send_done(c) PROVE TypeOK'
  <2>1. call' \in [Calls -> CallRows]
    BY <1>8, CallSteps DEF Steps, send_done
  <2>2. pending' \in [Sessions -> DraftRows] /\ own' \in [Sessions -> SUBSET Drafts]
    BY <1>8, <1>d DEF send_done, drop_pending
  <2>3. auth' \in [Turns -> AuthRows]
    BY <1>8, <1>d DEF send_done, clear_authorization
  <2> QED BY <1>8, <2>1, <2>2, <2>3 DEF send_done
<1> HIDE DEF TypeOK
<1> QED BY <1>1, <1>2, <1>3, <1>4, <1>5, <1>6, <1>7, <1>8 DEF SendTool

\* The owner's edits at Gmail, and a restart.
LEMMA WorldTypes == ASSUME TypeOK, World PROVE TypeOK'
<1> USE DEF TypeOK, owner, gate, hist
<1>e. MaxEdits \in Nat /\ MaxLines \in Nat
  BY Parameters
<1>1. ASSUME NEW d \in Drafts, NEW v \in Contents, Edit(d, v) PROVE TypeOK'
  <2>1. gmail' \in [Drafts -> Contents \union {"none", "gone"}] /\ edits' \in 0..MaxEdits
    BY <1>1, <1>e DEF Edit
  <2> QED BY <1>1, <2>1 DEF Edit
<1>2. ASSUME Restart PROVE TypeOK'
  <2>1. NoDraft \in DraftRows /\ NoAuth \in AuthRows /\ NoCall \in CallRows
        /\ NoTurn \in TurnRows /\ NoRpc \in RpcRows
    BY DEF NoDraft, NoAuth, NoCall, NoTurn, NoRpc, DraftRows, AuthRows, CallRows, TurnRows,
           TurnStates, RpcRows
  <2>2. \A t \in Turns : [turn[t] EXCEPT !.state = "over", !.flushed = FALSE] \in TurnRows
    BY DEF TurnRows, TurnStates
  <2>3. turn' \in [Turns -> TurnRows]
    BY <1>2, <2>1, <2>2 DEF Restart
  <2>3a. ticket' \in [Sessions -> [Lines -> 0..MaxLines]]
    <3>1. ticket' = [s \in Sessions |-> [l \in Lines |-> 0]]
      BY <1>2 DEF Restart
    <3>2. 0 \in 0..MaxLines
      BY <1>e
    <3> QED BY <3>1, <3>2, Zenon
  <2>4. rpc' \in [Sessions -> RpcRows] /\ queue' \in [Sessions -> Lines \union {"none", Merged}]
    BY <1>2, <2>1 DEF Restart
  <2>5. /\ pending' \in [Sessions -> DraftRows] /\ own' \in [Sessions -> SUBSET Drafts]
        /\ auth' \in [Turns -> AuthRows] /\ call' \in [Calls -> CallRows]
    BY <1>2, <2>1 DEF Restart
  <2>6. <<>> \in Seq(TurnLines) /\ Len(<<>>) = 0
    OBVIOUS
  <2>7. newer' = [t \in Turns |-> <<>>]
    BY <1>2 DEF Restart
  <2>8. newer' \in [Turns -> Seq(TurnLines)] /\ \A t \in Turns : Len(newer'[t]) <= 2
    BY <2>6, <2>7
  <2>9. snapshot' \in [Turns -> {"none", "read", "failed"}] /\ bound' = {}
    BY <1>2 DEF Restart
  <2> QED BY <1>2, <2>3, <2>3a, <2>4, <2>5, <2>8, <2>9 DEF Restart
<1> QED BY <1>1, <1>2 DEF World

-----------------------------------------------------------------------------
(* What a step may do to each part of the state without disturbing the     *)
(* invariants; a step is then the few conjuncts that it does disturb.      *)

Begins == {"running", "stopping", "over"}

\* Turns keep their session and line, and never go back.
TurnsGo == \A t \in Turns :
    /\ Entered(t) => /\ turn'[t].session = turn[t].session /\ turn'[t].line = turn[t].line
                     /\ turn'[t].state # "none"
    /\ turn[t].state \in Begins => turn'[t].state \in Begins
    /\ turn[t].state = "over" => turn'[t].state = "over"

HistoryGrows == heard \subseteq heard' /\ approvals \subseteq approvals'

\* Authorizations are used or go.
AuthsGo == \A t \in Turns :
    \/ auth'[t] = auth[t] \/ auth'[t] = NoAuth
    \/ auth[t] # NoAuth /\ auth'[t] = [auth[t] EXCEPT !.used = TRUE]

\* Presented drafts expire or go.
DraftsGo == \A s \in Sessions :
    \/ pending'[s] = pending[s] \/ pending'[s] = NoDraft
    \/ Reviewed(s) /\ pending'[s] = [pending[s] EXCEPT !.review = "expired"]

\* Sends move on with what they were granted.
HoldsGo == \A c \in Calls : Holding(c)' =>
    /\ Holding(c) /\ call'[c].turn = call[c].turn /\ call'[c].content = call[c].content
    /\ call'[c].pc \in {"matched", "issued", "sent"} => call'[c].got = call'[c].content
    /\ call[c].pc = "sent" => call'[c].pc = "sent"

\* Every line that comes in has its ticket, and tickets go; the turns that were
\* approved stay behind the lines.
TicketsGo ==
    /\ Submitted'
    /\ \A s \in Sessions :
         lines[s]["go"] - ticket[s]["go"] <= lines'[s]["go"] - ticket'[s]["go"]

\* A step is one of the abstract specification, or stutters there.
Maps == [Approval!Next]_(Approval!vars)

\* The turn of a call that holds a grant is under way, and so has begun.
LEMMA HolderTurn ==
    ASSUME TypeOK, TurnsInOrder, CallsAlive, NEW c \in Calls, Holding(c)
    PROVE  /\ call[c] # NoCall /\ call[c].turn \in Turns /\ Entered(call[c].turn)
           /\ turn[call[c].turn].state \in {"running", "stopping"}
           /\ call[c].draft \in Drafts /\ Session(c) \in Sessions
<1>1. call[c] # NoCall
  BY DEF Holding, NoCall
<1> QED BY <1>1, CallAlive DEF Entered

LEMMA ReviewsKept ==
    ASSUME TypeOK, Reviews, TurnsGo, HistoryGrows, DraftsGo
    PROVE  Reviews'
<1> SUFFICES ASSUME NEW s \in Sessions
             PROVE  LET d == pending'[s] IN
                      /\ d = NoDraft \/ (d.draft \in Drafts /\ d.content \in Contents /\ d.turn \in Turns)
                      /\ d.review # "no" =>
                           /\ d # NoDraft /\ <<s, d.content, d.turn>> \in heard'
                           /\ turn'[d.turn].session = s /\ turn'[d.turn].state = "over"
  BY DEF Reviews
<1>1. pending[s] \in DraftRows
  BY DEF TypeOK
<1>2. CASE pending'[s] = NoDraft
  BY <1>2 DEF NoDraft
<1>3. CASE pending'[s] = pending[s]
  BY <1>3, <1>1 DEF Reviews, TurnsGo, HistoryGrows, Entered, NoDraft
<1>4. CASE Reviewed(s) /\ pending'[s] = [pending[s] EXCEPT !.review = "expired"]
  <2>1. /\ pending'[s].draft = pending[s].draft /\ pending'[s].content = pending[s].content
        /\ pending'[s].turn = pending[s].turn /\ pending'[s].review = "expired"
        /\ pending[s].review # "no"
    BY <1>4, <1>1 DEF DraftRows, Reviewed
  <2> QED BY <2>1 DEF Reviews, TurnsGo, HistoryGrows, Entered, NoDraft
<1> QED BY <1>2, <1>3, <1>4 DEF DraftsGo

LEMMA AuthsKept ==
    ASSUME TypeOK, TurnsInOrder, ApprovedTurns, Auths, TurnsGo, HistoryGrows, NEW t \in Turns,
           \/ auth'[t] = auth[t] \/ auth'[t] = NoAuth
           \/ auth[t] # NoAuth /\ auth'[t] = [auth[t] EXCEPT !.used = TRUE]
    PROVE  auth'[t] # NoAuth =>
             /\ t \in approvals' /\ auth'[t].session = turn'[t].session
             /\ auth'[t].content \in Contents /\ ReadBack(turn[t].session, auth[t].content, t)'
<1>1. auth[t] \in AuthRows /\ approvals \subseteq Turns
  BY DEF TypeOK
<1>2. CASE auth'[t] = NoAuth
  BY <1>2
<1>3. CASE auth'[t] # NoAuth
  <2>1. /\ auth[t] # NoAuth /\ auth'[t].session = auth[t].session
        /\ auth'[t].content = auth[t].content
    BY <1>1, <1>3 DEF AuthRows
  <2>2. t \in approvals /\ auth[t].session = turn[t].session /\ auth[t].content \in Contents
        /\ ReadBack(turn[t].session, auth[t].content, t)
    BY <2>1 DEF Auths
  <2>3. turn'[t].session = turn[t].session
    BY <2>2 DEF ApprovedTurns, TurnsGo, Entered
  <2>4. ReadBack(turn[t].session, auth[t].content, t)'
    BY <2>1, <2>2, <2>3 DEF ReadBack, HistoryGrows
  <2> QED BY <2>1, <2>2, <2>3, <2>4 DEF HistoryGrows
<1> QED BY <1>2, <1>3

LEMMA ApprovedKept ==
    ASSUME TypeOK, ApprovedTurns, TurnsGo, UNCHANGED approvals
    PROVE  ApprovedTurns'
  BY DEF TypeOK, ApprovedTurns, TurnsGo, Begins, Entered

LEMMA GrantsKept ==
    ASSUME TypeOK, TurnsInOrder, CallsAlive, Grants, TurnsGo, HistoryGrows, HoldsGo
    PROVE  Grants'
<1> SUFFICES ASSUME NEW c \in Calls, Holding(c)'
             PROVE  /\ call'[c].turn \in approvals' /\ call'[c].content \in Contents
                    /\ ReadBack(Session(c), call[c].content, call[c].turn)'
                    /\ call'[c].pc \in {"matched", "issued", "sent"} => call'[c].got = call'[c].content
  BY DEF Grants
<1>1. /\ Holding(c) /\ call'[c].turn = call[c].turn /\ call'[c].content = call[c].content
      /\ call'[c].pc \in {"matched", "issued", "sent"} => call'[c].got = call'[c].content
  BY DEF HoldsGo
<1>2. Session(c)' = Session(c)
  BY <1>1, HolderTurn DEF TurnsGo, Session
<1>3. ReadBack(Session(c), call[c].content, call[c].turn)'
  BY <1>1, <1>2 DEF ReadBack, Grants, HistoryGrows
<1> QED BY <1>1, <1>3 DEF Grants, HistoryGrows

LEMMA OneGrantKept ==
    ASSUME TypeOK, TurnsInOrder, CallsAlive, OneGrant, AuthsGo, HoldsGo
    PROVE  OneGrant'
<1>0. \A t \in Turns : auth[t] \in AuthRows
  BY DEF TypeOK
<1>1. ASSUME NEW c \in Calls, Holding(c)'
      PROVE  auth'[call'[c].turn] = NoAuth \/ auth'[call'[c].turn].used
  <2>1. Holding(c) /\ call'[c].turn = call[c].turn /\ call[c].turn \in Turns
    BY <1>1, HolderTurn DEF HoldsGo
  <2>2. auth[call[c].turn] = NoAuth \/ auth[call[c].turn].used
    BY <2>1 DEF OneGrant
  <2> QED BY <1>0, <2>1, <2>2 DEF AuthsGo, AuthRows
<1>2. ASSUME NEW c \in Calls, NEW b \in Calls, Holding(c)', Holding(b)', call'[b].turn = call'[c].turn
      PROVE  b = c
  BY <1>2 DEF HoldsGo, OneGrant
<1> QED BY <1>1, <1>2 DEF OneGrant

LEMMA MatchesKept ==
    ASSUME TypeOK, TurnsInOrder, ApprovedTurns, Auths, ApprovalMatches, AuthsGo, DraftsGo
    PROVE  ApprovalMatches'
<1> SUFFICES ASSUME NEW t \in Turns, auth'[t] # NoAuth, ~auth'[t].used
             PROVE  LET a == auth'[t] d == pending'[a.session] IN
                      d = NoDraft \/ (d.review # "no" /\ d.draft = a.draft /\ d.content = a.content)
  BY DEF ApprovalMatches
<1>1. auth'[t] = auth[t]
  <2>1. auth[t] \in AuthRows
    BY DEF TypeOK
  <2> QED BY <2>1 DEF AuthsGo, AuthRows
<1>2. auth[t].session \in Sessions
  BY <1>1 DEF Auths, ApprovedTurns, TurnsInOrder, Entered
<1>3. PICK s \in Sessions : s = auth[t].session
  BY <1>2
<1>4. pending[s] \in DraftRows
  BY DEF TypeOK
<1>5. pending[s] = NoDraft \/ (pending[s].review # "no" /\ pending[s].draft = auth[t].draft
        /\ pending[s].content = auth[t].content)
  BY <1>1, <1>3 DEF ApprovalMatches
<1>6. pending'[s] = NoDraft \/ (pending'[s].review # "no" /\ pending'[s].draft = auth[t].draft
        /\ pending'[s].content = auth[t].content)
  <2>1. CASE pending'[s] = pending[s] \/ pending'[s] = NoDraft
    BY <2>1, <1>5
  <2>2. CASE Reviewed(s) /\ pending'[s] = [pending[s] EXCEPT !.review = "expired"]
    <3>1. pending[s] # NoDraft
      BY <2>2 DEF Reviewed, NoDraft
    <3> QED BY <2>2, <3>1, <1>4, <1>5 DEF DraftRows
  <2> QED BY <2>1, <2>2 DEF DraftsGo
<1> QED BY <1>1, <1>3, <1>6

LEMMA SentKept ==
    ASSUME TypeOK, ApprovedTurns, SentReviewed, TurnsGo, HistoryGrows, UNCHANGED sent
    PROVE  SentReviewed'
<1>1. \A m \in sent : m[3] \in approvals /\ turn[m[3]].state \in Begins /\ m[3] \in Turns
  BY DEF SentReviewed, ApprovedTurns, Begins, TypeOK
<1>2. \A m \in sent : turn'[m[3]].line = turn[m[3]].line
  BY <1>1 DEF TurnsGo, Entered, Begins
<1>3. \A m \in sent : \E u \in Turns : u < m[3] /\ <<m[1], m[2], u>> \in heard'
  BY DEF SentReviewed, HistoryGrows
<1> QED BY <1>1, <1>2, <1>3 DEF SentReviewed, HistoryGrows

ApprovedIn(s) == {t \in approvals : turn[t].session = s}

LEMMA Countable ==
    ASSUME TypeOK, NEW s \in Sessions
    PROVE  /\ IsFiniteSet(ApprovedIn(s)) /\ Cardinality(ApprovedIn(s)) \in Nat
           /\ ticket[s]["go"] \in Nat /\ lines[s]["go"] \in Nat
<1>1. IsFiniteSet(Turns)
  BY Parameters, FS_Interval DEF Turns
<1>2. ApprovedIn(s) \subseteq Turns
  BY DEF TypeOK, ApprovedIn
<1>3. IsFiniteSet(ApprovedIn(s))
  BY <1>1, <1>2, FS_Subset
<1>4. ticket[s]["go"] \in 0..MaxLines /\ lines[s]["go"] \in 0..MaxLines
  BY Parameters DEF TypeOK
<1> QED BY <1>3, <1>4, FS_CardinalityType, Parameters

LEMMA CountKept ==
    ASSUME TypeOK, TypeOK', ApprovedTurns, OneLineOneApproval, TurnsGo, TicketsGo, UNCHANGED approvals
    PROVE  OneLineOneApproval'
<1> SUFFICES ASSUME NEW s \in Sessions
             PROVE  ticket'[s]["go"] + Cardinality({t \in approvals' : turn'[t].session = s})
                      <= lines'[s]["go"]
  BY DEF OneLineOneApproval
<1>1. {t \in approvals' : turn'[t].session = s} = ApprovedIn(s)
  BY DEF ApprovedTurns, TypeOK, TurnsGo, Entered, ApprovedIn
<1>2. ticket[s]["go"] + Cardinality(ApprovedIn(s)) <= lines[s]["go"]
  BY DEF OneLineOneApproval, ApprovedIn
<1>3. /\ Cardinality(ApprovedIn(s)) \in Nat
      /\ ticket[s]["go"] \in Nat /\ lines[s]["go"] \in Nat
  BY Countable
<1>4. MaxLines \in Nat /\ "go" \in Lines
  BY Parameters
<1>5. ticket'[s]["go"] \in 0..MaxLines /\ lines'[s]["go"] \in 0..MaxLines
  BY <1>4 DEF TypeOK
<1>6. ticket'[s]["go"] \in Nat /\ lines'[s]["go"] \in Nat
  BY <1>4, <1>5
<1>7. lines[s]["go"] - ticket[s]["go"] <= lines'[s]["go"] - ticket'[s]["go"]
  BY DEF TicketsGo
<1>8. ticket'[s]["go"] + Cardinality(ApprovedIn(s)) <= lines'[s]["go"]
  BY <1>2, <1>3, <1>6, <1>7
<1> QED BY <1>1, <1>8

\* A turn has one approval.
LEMMA AtMostOne ==
    ASSUME IInv, NEW t \in Turns, NEW m \in Approvals[t]
    PROVE  Approvals[t] = {m}
<1>1. ASSUME NEW b \in Holders(t), NEW c \in Holders(t) PROVE b = c
  BY DEF Holders, IInv, OneGrant
<1>2. ASSUME NEW c \in Holders(t) PROVE ~Unused(t)
  BY DEF Holders, Unused, IInv, OneGrant
<1>3. Approvals[t] = {<<turn[t].session, call[c].content>> : c \in Holders(t)}
         \union (IF Unused(t) THEN {<<turn[t].session, auth[t].content>>} ELSE {})
  BY DEF Approvals
<1>4. CASE Holders(t) = {}
  BY <1>3, <1>4
<1>5. CASE Holders(t) # {}
  <2>1. PICK c \in Holders(t) : Holders(t) = {c}
    BY <1>1, <1>5
  <2> QED BY <1>2, <1>3, <2>1
<1> QED BY <1>4, <1>5

\* What may be sent is let go, if anything.
LEMMA WithdrawMaps ==
    ASSUME IInv, TurnsGo, AuthsGo, HoldsGo, UNCHANGED hist
    PROVE  Maps
<1>1. ASSUME NEW t \in Turns, NEW m \in Approvals'[t] PROVE m \in Approvals[t]
  <2>1. Approvals'[t] = {<<turn'[t].session, call'[c].content>> : c \in Holders(t)'}
           \union (IF Unused(t)' THEN {<<turn'[t].session, auth'[t].content>>} ELSE {})
    BY DEF Approvals
  <2>2. Approvals[t] = {<<turn[t].session, call[c].content>> : c \in Holders(t)}
           \union (IF Unused(t) THEN {<<turn[t].session, auth[t].content>>} ELSE {})
    BY DEF Approvals
  <2>3. CASE \E c \in Holders(t)' : m = <<turn'[t].session, call'[c].content>>
    <3>1. PICK c \in Calls : /\ Holding(c)' /\ call'[c].pc # "sent" /\ call'[c].turn = t
                             /\ m = <<turn'[t].session, call'[c].content>>
      BY <2>3 DEF Holders
    <3>2. c \in Holders(t) /\ call'[c].content = call[c].content
      BY <3>1 DEF HoldsGo, Holders
    <3>3. Entered(t)
      BY <3>2, HolderTurn DEF Holders, IInv
    <3> QED BY <2>2, <3>1, <3>2, <3>3 DEF TurnsGo
  <2>4. CASE Unused(t)' /\ m = <<turn'[t].session, auth'[t].content>>
    <3>1. auth[t] \in AuthRows
      BY DEF IInv, TypeOK
    <3>2. auth'[t] = auth[t] /\ Unused(t)
      BY <2>4, <3>1 DEF AuthsGo, Unused, AuthRows
    <3>3. Entered(t)
      BY <3>2 DEF Unused, IInv, Auths, ApprovedTurns, Entered
    <3> QED BY <2>2, <2>4, <3>2, <3>3 DEF TurnsGo
  <2> QED BY <2>1, <2>3, <2>4
<1>2. \A t \in Turns : Approvals'[t] = {} \/ Approvals'[t] = Approvals[t]
  BY <1>1, AtMostOne
<1>3. PICK T \in SUBSET Turns : T = {t \in Turns : Approvals'[t] = {}}
  OBVIOUS
<1>4. Approvals' = [t \in Turns |-> Approvals'[t]]
  BY DEF Approvals
<1>5. Approvals' = [t \in Turns |-> IF t \in T THEN {} ELSE Approvals[t]]
  BY <1>2, <1>3, <1>4
<1>6. Approval!Withdraw(T)
  BY <1>5 DEF Approval!Withdraw, hist
<1> QED BY <1>6 DEF Maps, Approval!Next

\* A step that disturbs nothing more than that.
LEMMA Kept ==
    ASSUME IInv, TypeOK', TicketsGo, TurnsInOrder', CallsAlive',
           TurnsGo, DraftsGo, AuthsGo, HoldsGo, UNCHANGED hist
    PROVE  IInv' /\ Maps
<1>1. HistoryGrows /\ UNCHANGED <<sent, approvals>>
  BY DEF HistoryGrows, hist
<1>2. Auths'
  BY <1>1, AuthsKept DEF IInv, Auths, AuthsGo
<1>3. OneLineOneApproval' /\ Submitted'
  BY <1>1, CountKept DEF IInv, TicketsGo
<1> QED
  BY <1>1, <1>2, <1>3, ReviewsKept, ApprovedKept, GrantsKept, OneGrantKept, MatchesKept, SentKept,
     WithdrawMaps DEF IInv

LEMMA Unmoved ==
    ASSUME IInv
    PROVE  /\ UNCHANGED turn => TurnsGo
           /\ UNCHANGED hist => HistoryGrows /\ UNCHANGED <<sent, approvals>>
           /\ UNCHANGED pending => DraftsGo
           /\ UNCHANGED auth => AuthsGo
           /\ UNCHANGED call => HoldsGo
           /\ UNCHANGED <<rpc, ticket, lines>> => TicketsGo
           /\ UNCHANGED <<turn, snapshot>> => TurnsInOrder'
           /\ UNCHANGED <<turn, call>> => CallsAlive'
<1>1. UNCHANGED turn => TurnsGo
  BY DEF TurnsGo, Entered
<1>2. UNCHANGED hist => HistoryGrows /\ UNCHANGED <<sent, approvals>>
  BY DEF hist, HistoryGrows
<1>3. UNCHANGED pending => DraftsGo
  BY DEF DraftsGo
<1>4. UNCHANGED auth => AuthsGo
  BY DEF AuthsGo
<1>5. UNCHANGED call => HoldsGo
  BY DEF IInv, HoldsGo, Grants, Holding
<1>6. UNCHANGED <<rpc, ticket, lines>> => TicketsGo
  <2>1. \A s \in Sessions : ticket[s]["go"] \in Nat /\ lines[s]["go"] \in Nat
    BY Countable DEF IInv
  <2> QED BY <2>1 DEF IInv, Submitted, TicketsGo
<1>7. UNCHANGED <<turn, snapshot>> => TurnsInOrder'
  BY DEF IInv, TurnsInOrder, Entered, Live
<1>8. UNCHANGED <<turn, call>> => CallsAlive'
  BY DEF IInv, CallsAlive
<1> QED BY <1>1, <1>2, <1>3, <1>4, <1>5, <1>6, <1>7, <1>8

\* Tickets, rows of a correction, the owner's edits: nothing that the
\* invariants tie to a draft changes.
LEMMA QuietStep ==
    ASSUME IInv, TypeOK', TicketsGo, UNCHANGED <<turn, snapshot, pending, auth, call, hist>>
    PROVE  IInv' /\ Maps
  BY Unmoved, Kept

\* A turn begins.
LEMMA BegunStep ==
    ASSUME IInv, TypeOK', TicketsGo, NEW t \in Fresh, NEW s \in Sessions, NEW line \in TurnLines,
           Begun(t, s, line), Active(s) = {}, UNCHANGED <<snapshot, pending, auth, call, hist>>
    PROVE  IInv' /\ Maps
<1>0. t \in Turns /\ turn[t].state = "none" /\ \A u \in Turns : u < t => turn[u].state # "none"
  BY DEF Fresh
<1>1. turn' = [turn EXCEPT ![t] = [session |-> s, line |-> line, state |-> "starting", flushed |-> FALSE]]
  BY DEF Begun
<1>2. /\ \A u \in Turns : u # t => turn'[u] = turn[u]
      /\ turn'[t] = [session |-> s, line |-> line, state |-> "starting", flushed |-> FALSE]
  BY <1>0, <1>1 DEF IInv, TypeOK
<1>3. TurnsGo
  BY <1>0, <1>2 DEF TurnsGo, Entered, Begins
<1>4. CallsAlive'
  BY <1>0, <1>2 DEF IInv, CallsAlive
<1>5. TurnsInOrder'
  <2>1. ASSUME NEW v \in Turns, Entered(v)'
        PROVE  /\ turn'[v].session \in Sessions /\ turn'[v].line \in TurnLines
               /\ v # t => Entered(v)
    BY <1>2, <2>1 DEF IInv, TurnsInOrder, Entered
  <2>2. ASSUME NEW v \in Turns, turn'[v].state = "stopping" PROVE snapshot'[v] # "read"
    BY <1>2, <2>2 DEF IInv, TurnsInOrder
  <2>3. ASSUME NEW v \in Turns, NEW u \in Turns, u < v, Entered(v)' PROVE Entered(u)'
    BY <1>0, <1>2, <2>1, <2>3 DEF IInv, TurnsInOrder, Entered
  <2>4. ASSUME NEW v \in Turns, NEW u \in Turns, Live(v)', Entered(u)', u # v,
               turn'[u].session = turn'[v].session
        PROVE  u < v /\ turn'[u].state = "over"
    <3>1. CASE v = t
      <4>1. turn[u].session = s /\ Entered(u) /\ turn'[u] = turn[u]
        BY <1>2, <2>4, <3>1 DEF Entered
      <4>2. ~Live(u)
        BY <4>1 DEF Active
      <4>3. turn[u] \in TurnRows
        BY DEF IInv, TypeOK
      <4>4. turn[u].state = "over"
        BY <4>1, <4>2, <4>3 DEF Live, Entered, TurnRows, TurnStates
      <4>5. ~(t < u)
        BY <1>0, <4>1 DEF IInv, TurnsInOrder, Entered
      <4>6. t \in Nat /\ u \in Nat
        BY <1>0, Parameters DEF Turns
      <4>7. u < t
        BY <2>4, <3>1, <4>5, <4>6
      <4> QED BY <3>1, <4>1, <4>4, <4>7
    <3>2. CASE v # t /\ u = t
      <4>1. Live(v) /\ turn[v].session = s
        BY <1>2, <2>4, <3>2 DEF Live
      <4> QED BY <4>1 DEF Active
    <3>3. CASE v # t /\ u # t
      <4>1. turn'[v] = turn[v] /\ turn'[u] = turn[u]
        BY <1>2, <3>3
      <4> QED BY <2>4, <4>1 DEF IInv, TurnsInOrder, Live, Entered
    <3> QED BY <3>1, <3>2, <3>3
  <2> QED BY <2>1, <2>2, <2>3, <2>4 DEF TurnsInOrder
<1> QED BY <1>3, <1>4, <1>5, Unmoved, Kept

\* Only a turn that is over counts as done: a turn moves within its life.
LEMMA OrderKept ==
    ASSUME TypeOK, TurnsInOrder,
           \A t \in Turns :
             /\ turn'[t].session = turn[t].session /\ turn'[t].line = turn[t].line
             /\ Entered(t)' <=> Entered(t)
             /\ Live(t)' => Live(t)
             /\ turn[t].state = "over" => turn'[t].state = "over"
             /\ turn'[t].state = "stopping" => snapshot'[t] # "read"
    PROVE  TurnsInOrder'
  BY DEF TurnsInOrder

\* The owner's lines.
LEMMA SubmitKeeps == ASSUME IInv, Submit PROVE IInv' /\ Maps
<1>n. MaxLines \in Nat /\ \A l \in Lines : l \in TurnLines
  BY Parameters DEF TurnLines
<1>t. TypeOK'
  BY SubmitTypes DEF IInv
<1>r. /\ \A s \in Sessions : rpc[s] \in RpcRows
      /\ ticket \in [Sessions -> [Lines -> 0..MaxLines]] /\ lines \in [Sessions -> [Lines -> 0..MaxLines]]
      /\ rpc \in [Sessions -> RpcRows] /\ queue \in [Sessions -> Lines \union {"none", Merged}]
  BY DEF IInv, TypeOK
<1>s. Submitted
  BY DEF IInv
<1>i. \A s \in Sessions, l \in Lines : ticket[s][l] \in Int /\ lines[s][l] \in Int
  BY <1>r, <1>n
<1>g. "go" \in Lines
  BY Parameters
<1>k. ASSUME \A s \in Sessions : rpc'[s].state # "none" => rpc'[s].line \in Lines,
             \A s \in Sessions, l \in Lines :
               \/ ticket'[s][l] = ticket[s][l] /\ lines'[s][l] = lines[s][l]
               \/ ticket'[s][l] = ticket[s][l] - 1 /\ lines'[s][l] = lines[s][l]
               \/ ticket'[s][l] = ticket[s][l] + 1 /\ lines'[s][l] = lines[s][l] + 1
      PROVE  TicketsGo
  BY <1>k, <1>s, <1>i, <1>g DEF TicketsGo, Submitted
<1> USE DEF owner, gate
<1>1. ASSUME NEW s \in Sessions, NEW line \in Lines, mint(s, line) PROVE IInv' /\ Maps
  <2>1. \A o \in Sessions : rpc'[o].state # "none" => rpc'[o].line \in Lines
    BY <1>1, <1>r, <1>s DEF mint, Submitted
  <2>2. \A o \in Sessions, l \in Lines :
          \/ ticket'[o][l] = ticket[o][l] /\ lines'[o][l] = lines[o][l]
          \/ ticket'[o][l] = ticket[o][l] + 1 /\ lines'[o][l] = lines[o][l] + 1
    BY <1>1, <1>r DEF mint
  <2>3. TicketsGo
    BY <1>k, <2>1, <2>2
  <2> QED BY <1>1, <1>t, <2>3, QuietStep DEF mint
<1>2. ASSUME NEW s \in Sessions, NEW line \in Lines, TicketExpires(s, line) PROVE IInv' /\ Maps
  <2>1. \A o \in Sessions, l \in Lines : ticket'[o][l] = ticket[o][l] \/ ticket'[o][l] = ticket[o][l] - 1
    BY <1>2, <1>r DEF TicketExpires
  <2>2. TicketsGo
    BY <1>2, <1>k, <1>s, <2>1 DEF TicketExpires, Submitted
  <2> QED BY <1>2, <1>t, <2>2, QuietStep DEF TicketExpires
<1>h. ASSUME NEW s \in Sessions, NEW st \in {"streaming", "queued", "refused"}, Handled(s, st),
             rpc[s].state = "asked", UNCHANGED <<ticket, lines>>
      PROVE  TicketsGo
  <2>1. \A o \in Sessions : rpc'[o].state # "none" => rpc'[o].line \in Lines
    BY <1>h, <1>r, <1>s DEF Handled, Submitted, RpcRows
  <2> QED BY <1>h, <1>k, <2>1
<1>3. ASSUME NEW s \in Sessions, HandlerStarts(s) PROVE IInv' /\ Maps
  <2>1. TicketsGo
    BY <1>3, <1>h DEF HandlerStarts
  <2>2. PICK t \in Fresh : Begun(t, s, rpc[s].line)
    BY <1>3 DEF HandlerStarts
  <2>3. rpc[s].line \in TurnLines
    BY <1>3, <1>n, <1>s DEF HandlerStarts, Submitted
  <2> QED BY <1>3, <1>t, <2>1, <2>2, <2>3, BegunStep DEF HandlerStarts
<1>4. ASSUME NEW s \in Sessions, HandlerQueues(s) PROVE IInv' /\ Maps
  <2>1. TicketsGo
    BY <1>4, <1>h DEF HandlerQueues
  <2> QED BY <1>4, <1>t, <2>1, QuietStep DEF HandlerQueues
<1>5. ASSUME NEW s \in Sessions, HandlerRedirects(s) PROVE IInv' /\ Maps
  <2>1. TicketsGo
    BY <1>5, <1>h DEF HandlerRedirects
  <2> QED BY <1>5, <1>t, <2>1, QuietStep DEF HandlerRedirects
<1>6. ASSUME NEW s \in Sessions, HandlerRefuses(s) PROVE IInv' /\ Maps
  <2>1. TicketsGo
    BY <1>6, <1>h DEF HandlerRefuses
  <2> QED BY <1>6, <1>t, <2>1, QuietStep DEF HandlerRefuses
<1>7. ASSUME NEW s \in Sessions, Dispatched(s) PROVE IInv' /\ Maps
  <2>1. \A o \in Sessions : rpc'[o].state # "none" => rpc'[o].line \in Lines
    BY <1>7, <1>r, <1>s DEF Dispatched, Submitted, NoRpc
  <2>2. \/ ticket' = ticket
        \/ ticket' = [ticket EXCEPT ![s][rpc[s].line] = @ - 1]
    BY <1>7 DEF Dispatched
  <2>3. rpc[s].line \in Lines
    BY <1>7, <1>s DEF Dispatched, Submitted
  <2>4. PICK line \in Lines : line = rpc[s].line
    BY <2>3
  <2>5. \A o \in Sessions, l \in Lines : ticket'[o][l] = ticket[o][l] \/ ticket'[o][l] = ticket[o][l] - 1
    BY <2>2, <2>4, <1>r
  <2>8. TicketsGo
    BY <1>7, <1>k, <2>1, <2>5 DEF Dispatched
  <2> QED BY <1>7, <1>t, <2>8, QuietStep DEF Dispatched
<1>8. ASSUME NEW s \in Sessions, Drain(s) PROVE IInv' /\ Maps
  <2>1. PICK t \in Fresh : Begun(t, s, queue[s])
    BY <1>8 DEF Drain
  <2>2. queue[s] \in TurnLines
    BY <1>8, <1>n, <1>r DEF Drain, TurnLines
  <2>3. TicketsGo
    BY <1>8, Unmoved DEF Drain
  <2> QED BY <1>8, <1>t, <2>1, <2>2, <2>3, BegunStep DEF Drain
<1>9. ASSUME NEW s \in Sessions, Synthetic(s) PROVE IInv' /\ Maps
  <2>1. PICK t \in Fresh : Begun(t, s, "go")
    BY <1>9 DEF Synthetic
  <2>2. TicketsGo /\ "go" \in TurnLines
    BY <1>9, Unmoved DEF Synthetic, TurnLines
  <2> QED BY <1>9, <1>t, <2>1, <2>2, BegunStep DEF Synthetic
<1> QED BY <1>1, <1>2, <1>3, <1>4, <1>5, <1>6, <1>7, <1>8, <1>9 DEF Submit

\* A turn is over: its calls have ended before it.
LEMMA EndedStep ==
    ASSUME IInv, NEW t \in Turns, Ended(t), turn[t].state \in {"running", "stopping"},
           \A c \in Calls : call[c].turn # t, UNCHANGED call
    PROVE  /\ TurnsGo /\ TurnsInOrder' /\ CallsAlive'
           /\ turn'[t].state = "over" /\ turn'[t].session = turn[t].session
           /\ \A u \in Turns : u # t => turn'[u] = turn[u]
<1>1. turn \in [Turns -> TurnRows]
  BY DEF IInv, TypeOK
<1>2. turn' = [turn EXCEPT ![t].state = "over", ![t].flushed = FALSE]
  BY DEF Ended
<1>3. /\ turn'[t].state = "over" /\ turn'[t].session = turn[t].session /\ turn'[t].line = turn[t].line
      /\ \A u \in Turns : u # t => turn'[u] = turn[u]
  BY <1>1, <1>2 DEF TurnRows
<1>4. TurnsGo
  BY <1>3 DEF TurnsGo, Entered, Begins
<1>5. snapshot' = [snapshot EXCEPT ![t] = "none"]
  BY DEF Ended
<1>6. \A u \in Turns : turn'[u].state = "stopping" => snapshot'[u] # "read"
  BY <1>3, <1>5 DEF IInv, TypeOK, TurnsInOrder
<1>7. TurnsInOrder'
  BY <1>3, <1>6, OrderKept DEF IInv, Entered, Live
<1>8. CallsAlive'
  BY <1>3 DEF IInv, CallsAlive
<1> QED BY <1>3, <1>4, <1>7, <1>8

\* The last turns of a session before one that is under way are over, so what
\* was read back in them was read back before.
LEMMA ReviewedBefore ==
    ASSUME IInv, NEW t \in Turns, Live(t), Reviewed(turn[t].session), turn[t].session \in Sessions
    PROVE  LET s == turn[t].session IN
           /\ pending[s] # NoDraft /\ pending[s].content \in Contents
           /\ ReadBack(s, pending[s].content, t)
<1> DEFINE s == turn[t].session  d == pending[s]
<1>1. /\ d # NoDraft /\ d.content \in Contents /\ d.turn \in Turns
      /\ <<s, d.content, d.turn>> \in heard
      /\ turn[d.turn].session = s /\ turn[d.turn].state = "over"
  BY DEF IInv, Reviews, Reviewed
<1>2. d.turn # t /\ Entered(d.turn)
  BY <1>1 DEF Live, Entered
<1>3. d.turn < t
  BY <1>1, <1>2 DEF IInv, TurnsInOrder
<1> QED BY <1>1, <1>3 DEF ReadBack

\* The hook takes the ticket and, for the passphrase, grants the reviewed draft.
LEMMA PreKeeps ==
    ASSUME IInv, TypeOK', NEW t \in Turns, NEW flushed \in BOOLEAN, NEW readable \in BOOLEAN,
           pre_llm_call(t, flushed, readable)
    PROVE  IInv' /\ Maps
<1> DEFINE s == turn[t].session
           line == turn[t].line
           mine == line \in Lines /\ ticket[s][line] > 0
           granted == mine /\ Reviewed(s) /\ line = "go"
<1>1. /\ turn[t].state = "starting" /\ s \in Sessions
      /\ turn' = [turn EXCEPT ![t].state = "running", ![t].flushed = flushed]
      /\ turn \in [Turns -> TurnRows]
  BY DEF pre_llm_call, IInv, TypeOK, TurnsInOrder, Entered
<1>2. /\ turn'[t].state = "running" /\ turn'[t].session = s /\ turn'[t].line = line
      /\ \A u \in Turns : u # t => turn'[u] = turn[u]
  BY <1>1 DEF TurnRows
<1>3. TurnsGo
  BY <1>1, <1>2 DEF TurnsGo, Entered, Begins
<1>4. CallsAlive'
  BY <1>1, <1>2 DEF IInv, CallsAlive, pre_llm_call
<1>5. TurnsInOrder'
  <2>1. snapshot' = [snapshot EXCEPT ![t] = IF readable THEN "read" ELSE "failed"]
    BY DEF pre_llm_call
  <2>2. \A u \in Turns : turn'[u].state = "stopping" => snapshot'[u] # "read"
    BY <1>2, <2>1 DEF IInv, TypeOK, TurnsInOrder
  <2> QED BY <1>1, <1>2, <2>2, OrderKept DEF IInv, Entered, Live
<1>6. TicketsGo
  <2>1. MaxLines \in Nat
    BY Parameters
  <2>2. /\ ticket \in [Sessions -> [Lines -> 0..MaxLines]]
        /\ lines \in [Sessions -> [Lines -> 0..MaxLines]]
        /\ \A o \in Sessions, l \in Lines : ticket[o][l] <= lines[o][l]
        /\ \A o \in Sessions : rpc[o].state # "none" => rpc[o].line \in Lines
    BY DEF IInv, TypeOK, Submitted
  <2>3. ticket' = ticket \/ (line \in Lines /\ ticket' = [ticket EXCEPT ![s][line] = @ - 1])
    BY DEF pre_llm_call, Taken
  <2>4. \A o \in Sessions, l \in Lines : ticket'[o][l] = ticket[o][l] \/ ticket'[o][l] = ticket[o][l] - 1
    <3> HIDE DEF s, line
    <3> QED BY <1>1, <2>2, <2>3
  <2>5. \A o \in Sessions, l \in Lines : ticket[o][l] \in Int /\ lines[o][l] \in Int
    BY <2>1, <2>2
  <2>6. \A o \in Sessions, l \in Lines : ticket'[o][l] <= lines[o][l]
    BY <2>2, <2>4, <2>5
  <2>7. Submitted'
    BY <2>2, <2>6 DEF Submitted, pre_llm_call
  <2> QED BY <2>4, <2>5, <2>7, Parameters DEF TicketsGo, pre_llm_call
<1>7. DraftsGo /\ HoldsGo
  BY Unmoved DEF pre_llm_call
<1>8. HistoryGrows /\ UNCHANGED <<heard, sent>>
  BY DEF pre_llm_call, HistoryGrows
<1>9. CASE ~granted
  <2>1. UNCHANGED <<auth, hist>>
    BY <1>9 DEF pre_llm_call, hist
  <2> QED BY <2>1, <1>3, <1>4, <1>5, <1>6, <1>7, <1>8, Unmoved, Kept
<1>10. CASE granted
  <2> DEFINE new == [draft |-> pending[s].draft, content |-> pending[s].content,
                     session |-> s, used |-> FALSE]
  <2>1. auth' = [auth EXCEPT ![t] = new] /\ approvals' = approvals \union {t}
    BY <1>10 DEF pre_llm_call
  <2>2. auth'[t] = new /\ \A u \in Turns : u # t => auth'[u] = auth[u]
    BY <2>1 DEF IInv, TypeOK
  <2>3. pending[s].content \in Contents /\ ReadBack(s, pending[s].content, t)
    BY <1>1, <1>10, ReviewedBefore DEF Live
  <2>4. Reviews' /\ Grants' /\ SentReviewed'
    BY <1>3, <1>7, <1>8, ReviewsKept, GrantsKept, SentKept DEF IInv
  <2>5. ApprovedTurns'
    <3>1. \A u \in approvals : turn'[u].state \in Begins /\ turn'[u].line = "go" /\ u \in Turns
      BY <1>3 DEF IInv, TypeOK, ApprovedTurns, TurnsGo, Begins, Entered
    <3> QED BY <1>2, <1>10, <2>1, <3>1 DEF ApprovedTurns, Begins
  <2>6. Auths'
    <3>1. ASSUME NEW u \in Turns, u # t, auth'[u] # NoAuth
          PROVE  /\ u \in approvals' /\ auth'[u].session = turn'[u].session
                 /\ auth'[u].content \in Contents /\ ReadBack(turn[u].session, auth[u].content, u)'
      BY <1>3, <1>8, <2>2, <3>1, AuthsKept DEF IInv
    <3>2. /\ t \in approvals' /\ auth'[t].session = turn'[t].session
          /\ auth'[t].content \in Contents /\ ReadBack(turn[t].session, auth[t].content, t)'
      BY <1>2, <1>8, <2>1, <2>2, <2>3 DEF ReadBack
    <3> QED BY <3>1, <3>2 DEF Auths
  <2>7. OneGrant'
    <3>1. \A c \in Calls : Holding(c) => call[c].turn \in Turns /\ call[c].turn # t
      BY <1>1, HolderTurn DEF IInv
    <3> QED BY <2>2, <3>1 DEF IInv, OneGrant, Holding, pre_llm_call
  <2>8. ApprovalMatches'
    <3>1. ASSUME NEW u \in Turns, u # t PROVE auth'[u] = auth[u] /\ pending' = pending
      BY <2>2, <3>1 DEF pre_llm_call
    <3>2. pending'[s].review # "no" /\ pending'[s].draft = new.draft /\ pending'[s].content = new.content
          /\ new.session = s
      BY <1>10 DEF pre_llm_call, Reviewed
    <3> HIDE DEF new, s
    <3> QED BY <2>2, <3>1, <3>2 DEF IInv, ApprovalMatches
  <2>9. t \notin approvals
    BY <1>1 DEF IInv, ApprovedTurns
  <2>10. OneLineOneApproval'
    <3> SUFFICES ASSUME NEW o \in Sessions
                 PROVE  ticket'[o]["go"] + Cardinality({u \in approvals' : turn'[u].session = o})
                          <= lines'[o]["go"]
      BY DEF OneLineOneApproval
    <3>1. ticket[o]["go"] + Cardinality(ApprovedIn(o)) <= lines[o]["go"]
      BY DEF IInv, OneLineOneApproval, ApprovedIn
    <3>2. /\ IsFiniteSet(ApprovedIn(o)) /\ Cardinality(ApprovedIn(o)) \in Nat
          /\ ticket[o]["go"] \in Nat /\ lines[o]["go"] \in Nat /\ lines' = lines
      BY Countable DEF IInv, pre_llm_call
    <3>3. ticket' = [ticket EXCEPT ![s]["go"] = @ - 1]
      BY <1>10 DEF pre_llm_call, Taken
    <3>4. \A u \in approvals : turn'[u].session = turn[u].session
      BY <1>2, <2>9 DEF IInv, TypeOK
    <3>5. CASE o = s
      <4>1. {u \in approvals' : turn'[u].session = o} = ApprovedIn(o) \union {t}
        BY <1>2, <2>1, <3>4, <3>5 DEF ApprovedIn
      <4>2. t \notin ApprovedIn(o)
        BY <2>9 DEF ApprovedIn
      <4>3. Cardinality({u \in approvals' : turn'[u].session = o}) = Cardinality(ApprovedIn(o)) + 1
        BY <3>2, <4>1, <4>2, FS_AddElement
      <4>4. ticket'[o]["go"] = ticket[o]["go"] - 1
        <5> HIDE DEF s
        <5> QED BY <1>1, <3>3, <3>5, Parameters DEF IInv, TypeOK
      <4> QED BY <3>1, <3>2, <4>3, <4>4
    <3>6. CASE o # s
      <4>1. {u \in approvals' : turn'[u].session = o} = ApprovedIn(o)
        BY <1>2, <2>1, <3>4, <3>6 DEF ApprovedIn
      <4>2. ticket'[o]["go"] = ticket[o]["go"]
        BY <3>3, <3>6 DEF IInv, TypeOK
      <4> QED BY <3>1, <3>2, <4>1, <4>2
    <3> QED BY <3>5, <3>6
  <2>11. Maps
    <3> DEFINE m == <<s, pending[s].content>>
    <3>1. m \in Sessions \X Contents
      BY <1>1, <2>3
    <3>2. \E u \in Turns : u < t /\ <<m, u>> \in {<<<<h[1], h[2]>>, h[3]>> : h \in heard}
      <4>1. PICK u \in Turns : u < t /\ <<s, pending[s].content, u>> \in heard
        BY <2>3 DEF ReadBack
      <4> QED BY <4>1
    <3>3. ASSUME NEW u \in Turns PROVE Holders(u)' = Holders(u)
      BY DEF Holders, Holding, pre_llm_call
    <3>4. Holders(t) = {}
      BY <1>1, HolderTurn DEF IInv, Holders
    <3>5. ASSUME NEW u \in Turns, u # t PROVE Approvals'[u] = Approvals[u]
      <4>1. turn'[u] = turn[u] /\ auth'[u] = auth[u] /\ call' = call
        BY <1>2, <2>2, <3>5 DEF pre_llm_call
      <4> QED BY <3>3, <4>1 DEF Approvals, Unused
    <3>6. Approvals'[t] = {m}
      <4>1. Unused(t)' /\ auth'[t].content = pending[s].content
        <5>1. new # NoAuth
          BY <1>1, Parameters DEF NoAuth
        <5> QED BY <2>2, <5>1 DEF Unused
      <4> QED BY <1>2, <3>3, <3>4, <4>1 DEF Approvals
    <3>7. Approvals' = [Approvals EXCEPT ![t] = {m}]
      BY <3>5, <3>6 DEF Approvals
    <3>8. Approval!Approve(m, t)
      BY <1>8, <2>1, <2>9, <3>2, <3>7 DEF Approval!Approve
    <3> HIDE DEF m
    <3> QED BY <3>1, <3>8 DEF Maps, Approval!Next
  <2> QED BY <1>4, <1>5, <1>6, <2>4, <2>5, <2>6, <2>7, <2>8, <2>10, <2>11 DEF IInv, TicketsGo
<1> QED BY <1>9, <1>10

\* The reply that ends a turn may bring the presented draft under review.
LEMMA PostKeeps ==
    ASSUME IInv, TypeOK', NEW t \in Turns, NEW said \in {"none", pending[turn[t].session].content},
           post_llm_call(t, said)
    PROVE  IInv' /\ Maps
<1> DEFINE s == turn[t].session
           d == pending[s]
           news == d.turn = t /\ d.review = "no" /\ said = d.content
<1>1. turn[t].state = "running" /\ s \in Sessions /\ Ended(t) /\ d \in DraftRows
  BY DEF post_llm_call, IInv, TypeOK, TurnsInOrder, Entered
<1>2. /\ TurnsGo /\ TurnsInOrder' /\ CallsAlive'
      /\ turn'[t].state = "over" /\ turn'[t].session = s
  BY <1>1, EndedStep DEF post_llm_call
<1>3. TicketsGo /\ HoldsGo
  BY Unmoved DEF post_llm_call, owner
<1>4. HistoryGrows /\ UNCHANGED <<approvals, sent>>
  BY DEF post_llm_call, HistoryGrows
<1>5. AuthsGo
  BY DEF post_llm_call, AuthsGo, IInv, TypeOK
<1>6. pending' = IF news THEN [pending EXCEPT ![s].review = "live"] ELSE pending
  BY DEF post_llm_call, Reviewing, Covers
<1>7. ASSUME ~news PROVE Reviews' /\ ApprovalMatches'
  <2>1. DraftsGo
    BY <1>6, <1>7 DEF DraftsGo
  <2> QED BY <2>1, <1>2, <1>4, <1>5, ReviewsKept, MatchesKept DEF IInv
<1>8. ASSUME news PROVE Reviews' /\ ApprovalMatches'
  <2>1. d # NoDraft
    BY <1>8, Parameters DEF NoDraft, Turns
  <2>2. d.draft \in Drafts /\ d.content \in Contents
    BY <1>1, <2>1 DEF IInv, Reviews
  <2>3. /\ pending'[s].draft = d.draft /\ pending'[s].content = d.content
        /\ pending'[s].turn = t /\ pending'[s].review = "live"
        /\ \A o \in Sessions : o # s => pending'[o] = pending[o]
    BY <1>1, <1>6, <1>8 DEF DraftRows, IInv, TypeOK
  <2>4. <<s, d.content, t>> \in heard'
    <3>1. heard' = heard \union ({<<s, said, t>>} \ {<<s, "none", t>>}) /\ said # "none"
      BY <1>8, <2>2, Parameters DEF post_llm_call
    <3> QED BY <1>8, <3>1
  <2>5. Reviews'
    <3>1. pending'[s] # NoDraft
      BY <2>3 DEF NoDraft
    <3>2. ASSUME NEW o \in Sessions, o # s
          PROVE  /\ pending'[o] = NoDraft \/ (pending'[o].draft \in Drafts
                      /\ pending'[o].content \in Contents /\ pending'[o].turn \in Turns)
                 /\ pending'[o].review # "no" =>
                      /\ pending'[o] # NoDraft /\ <<o, pending'[o].content, pending'[o].turn>> \in heard'
                      /\ turn'[pending'[o].turn].session = o /\ turn'[pending'[o].turn].state = "over"
      BY <1>2, <1>4, <2>3, <3>2 DEF IInv, Reviews, TurnsGo, HistoryGrows, Entered, NoDraft
    <3> HIDE DEF s, d
    <3>3. ASSUME NEW o \in Sessions, o = s
          PROVE  /\ pending'[o].draft \in Drafts /\ pending'[o].content \in Contents
                 /\ pending'[o].turn \in Turns /\ pending'[o] # NoDraft
                 /\ <<o, pending'[o].content, pending'[o].turn>> \in heard'
                 /\ turn'[pending'[o].turn].session = o /\ turn'[pending'[o].turn].state = "over"
      BY <1>2, <2>2, <2>3, <2>4, <3>1, <3>3
    <3> QED BY <3>2, <3>3 DEF Reviews
  <2>6. ApprovalMatches'
    <3>1. \A u \in Turns : auth'[u] # NoAuth /\ ~auth'[u].used =>
            auth'[u] = auth[u] /\ auth[u].session # s
      <4>1. \A u \in Turns : auth[u] # NoAuth /\ ~auth[u].used => auth[u].session # s
        BY <1>8, <2>1 DEF IInv, ApprovalMatches
      <4> QED BY <4>1 DEF post_llm_call, IInv, TypeOK
    <3>2. \A u \in Turns : auth[u] # NoAuth => auth[u].session \in Sessions
      BY DEF IInv, Auths, ApprovedTurns, TurnsInOrder, Entered
    <3> QED BY <2>3, <3>1, <3>2 DEF IInv, ApprovalMatches
  <2> QED BY <2>5, <2>6
<1>9. Auths'
  BY <1>2, <1>4, <1>5, AuthsKept DEF IInv, Auths, AuthsGo
<1>10. OneLineOneApproval' /\ Submitted'
  BY <1>2, <1>3, <1>4, CountKept DEF IInv, TicketsGo
<1>11. Maps
  <2> DEFINE M == IF said = "none" THEN {} ELSE {<<s, said>>}
  <2>1. M \in SUBSET (Sessions \X Contents)
    BY <1>1 DEF DraftRows
  <2>2. heard' = heard \union {<<s, n[2], t>> : n \in M}
    <3>1. heard' = heard \union ({<<s, said, t>>} \ {<<s, "none", t>>})
      BY DEF post_llm_call
    <3>2. CASE said = "none"
      BY <3>1, <3>2
    <3>3. CASE said # "none"
      <4>1. {<<s, n[2], t>> : n \in M} = {<<s, said, t>>}
        BY <3>3
      <4> QED BY <3>1, <3>3, <4>1
    <3> QED BY <3>2, <3>3
  <2>3. \A n \in M : n = <<s, n[2]>>
    OBVIOUS
  <2>4. {<<<<h[1], h[2]>>, h[3]>> : h \in heard'}
          = {<<<<h[1], h[2]>>, h[3]>> : h \in heard} \union {<<n, t>> : n \in M}
    <3> HIDE DEF M, s
    <3>1. {<<<<h[1], h[2]>>, h[3]>> : h \in heard'}
            = {<<<<h[1], h[2]>>, h[3]>> : h \in heard}
                \union {<<<<h[1], h[2]>>, h[3]>> : h \in {<<s, n[2], t>> : n \in M}}
      BY <2>2
    <3>2. {<<<<h[1], h[2]>>, h[3]>> : h \in {<<s, n[2], t>> : n \in M}} = {<<<<s, n[2]>>, t>> : n \in M}
      <4> DEFINE new == {<<s, n[2], t>> : n \in M}
      <4>1. ASSUME NEW h \in new
            PROVE  <<<<h[1], h[2]>>, h[3]>> \in {<<<<s, n[2]>>, t>> : n \in M}
        <5>1. PICK n \in M : h = <<s, n[2], t>>
          BY <4>1
        <5>2. h[1] = s /\ h[2] = n[2] /\ h[3] = t
          BY <5>1
        <5> QED BY <5>2
      <4>2. ASSUME NEW n \in M PROVE \E h \in new : <<<<h[1], h[2]>>, h[3]>> = <<<<s, n[2]>>, t>>
        <5>1. <<s, n[2], t>> \in new
          BY <4>2
        <5> QED BY <5>1
      <4> HIDE DEF new
      <4>3. {<<<<h[1], h[2]>>, h[3]>> : h \in new} = {<<<<s, n[2]>>, t>> : n \in M}
        BY <4>1, <4>2
      <4> QED BY <4>3 DEF new
    <3>3. {<<<<s, n[2]>>, t>> : n \in M} = {<<n, t>> : n \in M}
      BY <2>3
    <3> QED BY <3>1, <3>2, <3>3
  <2>5. ASSUME NEW u \in Turns PROVE Holders(u)' = Holders(u)
    BY DEF Holders, Holding, post_llm_call
  <2>6. ASSUME NEW u \in Turns, u # t PROVE Approvals'[u] = Approvals[u]
    <3>1. turn'[u] = turn[u] /\ auth'[u] = auth[u] /\ call' = call
      BY <1>1, <2>6, EndedStep DEF post_llm_call
    <3> QED BY <2>5, <3>1 DEF Approvals, Unused
  <2>7. Approvals'[t] = {}
    <3>1. Holders(t) = {} /\ ~Unused(t)'
      BY DEF Holders, Unused, post_llm_call, IInv, TypeOK
    <3> QED BY <2>5, <3>1 DEF Approvals
  <2>8. Approvals' = [Approvals EXCEPT ![t] = {}]
    BY <2>6, <2>7 DEF Approvals
  <2> HIDE DEF M
  <2>9. Approval!EndTurn(M, t)
    BY <1>4, <2>4, <2>8 DEF Approval!EndTurn
  <2> QED BY <2>1, <2>9 DEF Maps, Approval!Next
<1> QED
  BY <1>2, <1>3, <1>4, <1>5, <1>7, <1>8, <1>9, <1>10, <1>11, ApprovedKept, GrantsKept, OneGrantKept,
     SentKept
  DEF IInv

\* An interrupt clears its session.
LEMMA InterruptKeeps == ASSUME IInv, TypeOK', NEW t \in Turns, Interrupt(t) PROVE IInv' /\ Maps
<1> DEFINE s == turn[t].session
<1>1. turn[t].state = "running" /\ turn' = [turn EXCEPT ![t].state = "stopping"]
      /\ turn \in [Turns -> TurnRows] /\ s \in Sessions
  BY DEF Interrupt, IInv, TypeOK, TurnsInOrder, Entered
<1>2. /\ turn'[t].state = "stopping" /\ turn'[t].session = s /\ turn'[t].line = turn[t].line
      /\ \A u \in Turns : u # t => turn'[u] = turn[u]
  BY <1>1 DEF TurnRows
<1>3. TurnsGo /\ CallsAlive'
  BY <1>1, <1>2 DEF TurnsGo, Entered, Begins, IInv, CallsAlive, Interrupt
<1>4. TurnsInOrder'
  <2>1. snapshot' = [u \in Turns |-> IF turn[u].session = s THEN "none" ELSE snapshot[u]]
    BY DEF Interrupt
  <2>2. \A u \in Turns : turn'[u].state = "stopping" => snapshot'[u] # "read"
    BY <1>2, <2>1 DEF IInv, TurnsInOrder
  <2> QED BY <1>1, <1>2, <2>2, OrderKept DEF IInv, Entered, Live
<1>5. DraftsGo
  BY DEF Interrupt, clear_session, DraftsGo, IInv, TypeOK
<1>6. AuthsGo
  BY DEF Interrupt, clear_session, AuthsGo
<1>7. TicketsGo /\ HoldsGo /\ UNCHANGED hist
  BY Unmoved DEF Interrupt, owner
<1> QED BY <1>3, <1>4, <1>5, <1>6, <1>7, Kept

LEMMA HooksKeep == ASSUME IInv, Hooks PROVE IInv' /\ Maps
<1>t. TypeOK'
  BY HookTypes DEF IInv
<1>1. ASSUME NEW t \in Turns, RowFlushed(t) PROVE IInv' /\ Maps
  <2>1. /\ turn \in [Turns -> TurnRows] /\ turn' = [turn EXCEPT ![t].flushed = TRUE]
        /\ UNCHANGED <<snapshot, pending, auth, call, hist, ticket, rpc, lines>>
    BY <1>1 DEF RowFlushed, gate, owner, IInv, TypeOK
  <2>2. \A u \in Turns : turn'[u].state = turn[u].state /\ turn'[u].session = turn[u].session
                         /\ turn'[u].line = turn[u].line
    BY <2>1 DEF TurnRows
  <2>3. TurnsGo /\ CallsAlive'
    BY <2>1, <2>2 DEF TurnsGo, Entered, IInv, CallsAlive
  <2>4. TurnsInOrder'
    BY <2>1, <2>2, OrderKept DEF IInv, Entered, Live, TurnsInOrder
  <2> QED BY <1>t, <2>1, <2>3, <2>4, Unmoved, Kept
<1>2. ASSUME NEW t \in Turns, BoundExpires(t) PROVE IInv' /\ Maps
  BY <1>2, <1>t, Unmoved, QuietStep DEF BoundExpires, gate, owner
<1>3. ASSUME NEW t \in Turns, on_session_end(t) PROVE IInv' /\ Maps
  BY <1>3, <1>t, EndedStep, Unmoved, Kept DEF on_session_end, gate, owner
<1>4. ASSUME NEW s \in Sessions, ReviewExpires(s) PROVE IInv' /\ Maps
  <2>1. DraftsGo
    BY <1>4 DEF ReviewExpires, DraftsGo, IInv, TypeOK
  <2> QED BY <1>4, <1>t, <2>1, Unmoved, Kept DEF ReviewExpires, gate, owner
<1> QED BY <1>1, <1>2, <1>3, <1>4, <1>t, PreKeeps, PostKeeps, InterruptKeeps DEF Hooks

\* One call moves and stays with its turn and draft, or ends.
Moves(c) ==
    /\ \A b \in Calls : b # c => call'[b] = call[b]
    /\ \/ call'[c] = NoCall
       \/ /\ call[c] # NoCall /\ call'[c].pc # "idle"
          /\ call'[c].kind = call[c].kind /\ call'[c].turn = call[c].turn
          /\ call'[c].draft = call[c].draft
          /\ call'[c].pc = "fetched" /\ call'[c].kind # "send" => call'[c].content \in Contents

LEMMA MovesAlive ==
    ASSUME IInv, NEW c \in Calls, Moves(c), UNCHANGED turn
    PROVE  CallsAlive'
<1> SUFFICES ASSUME NEW b \in Calls, call'[b] # NoCall
             PROVE  /\ call'[b].turn \in Turns /\ turn[call'[b].turn].state \in {"running", "stopping"}
                    /\ call'[b].draft \in Drafts /\ call'[b].kind # "none" /\ call'[b].pc # "idle"
                    /\ call'[b].pc = "fetched" /\ call'[b].kind # "send" => call'[b].content \in Contents
  BY DEF CallsAlive
<1> QED BY DEF IInv, CallsAlive, Moves

LEMMA MovesHold ==
    ASSUME IInv, NEW c \in Calls, Moves(c),
           Holding(c)' => /\ Holding(c) /\ call'[c].content = call[c].content
                          /\ call'[c].pc \in {"matched", "issued", "sent"} => call'[c].got = call'[c].content
                          /\ call[c].pc # "sent"
    PROVE  HoldsGo
<1>1. ASSUME NEW b \in Calls, b # c, Holding(b)'
      PROVE  /\ Holding(b) /\ call'[b].turn = call[b].turn /\ call'[b].content = call[b].content
             /\ call'[b].pc \in {"matched", "issued", "sent"} => call'[b].got = call'[b].content
             /\ call[b].pc = "sent" => call'[b].pc = "sent"
  BY <1>1 DEF Moves, Holding, IInv, Grants
<1>2. ASSUME Holding(c)' PROVE call'[c].turn = call[c].turn
  BY <1>2 DEF Moves, Holding, NoCall
<1> QED BY <1>1, <1>2 DEF HoldsGo

\* A call ends, or a call that does not hold an approval goes a step further.
LEMMA GotoMoves ==
    ASSUME TypeOK, NEW c \in Calls, NEW pc \in Steps \ {"idle", "fetched"}, Goto(c, pc), call[c] # NoCall
    PROVE  /\ Moves(c) /\ call'[c].kind = call[c].kind /\ call'[c].pc = pc
           /\ call'[c].content = call[c].content /\ call'[c].got = call[c].got
<1>1. call \in [Calls -> CallRows] /\ call' = [call EXCEPT ![c].pc = pc]
  BY DEF TypeOK, Goto
<1>2. /\ call'[c].kind = call[c].kind /\ call'[c].pc = pc /\ call'[c].turn = call[c].turn
      /\ call'[c].content = call[c].content /\ call'[c].got = call[c].got
      /\ call'[c].draft = call[c].draft
      /\ \A b \in Calls : b # c => call'[b] = call[b]
  BY <1>1 DEF CallRows
<1> QED BY <1>2 DEF Moves

LEMMA DoneMoves ==
    ASSUME TypeOK, NEW c \in Calls, Done(c)
    PROVE  Moves(c) /\ ~Holding(c)' /\ call'[c] = NoCall
  BY DEF TypeOK, Done, Moves, Holding, NoCall

\* A call begins with no approval, in a turn that is under way.
LEMMA BeginKeeps ==
    ASSUME IInv, TypeOK', NEW c \in Calls, NEW t \in Turns, NEW d \in Drafts,
           NEW kind \in {"create", "update", "show", "delete", "send"}, begin_call(c, t, kind, d)
    PROVE  IInv' /\ Maps
<1>1. /\ call'[c] = [NoCall EXCEPT !.kind = kind, !.turn = t, !.draft = d, !.pc = "gated"]
      /\ \A b \in Calls : b # c => call'[b] = call[b]
      /\ turn[t].state = "running"
  BY DEF begin_call, IInv, TypeOK
<1>2. /\ call'[c].pc = "gated" /\ call'[c].turn = t /\ call'[c].draft = d /\ call'[c].kind = kind
  BY <1>1 DEF NoCall
<1>3. CallsAlive'
  BY <1>1, <1>2 DEF CallsAlive, IInv, begin_call
<1>4. HoldsGo
  BY <1>1, <1>2 DEF HoldsGo, Holding, IInv, Grants
<1> QED BY <1>3, <1>4, Unmoved, Kept DEF begin_call, owner, gate

\* A draft that is shown anew takes the older approvals of its session away.
LEMMA PresentKeeps ==
    ASSUME IInv, TypeOK', NEW c \in Calls, present(c)
    PROVE  IInv' /\ Maps
<1> DEFINE s == Session(c)
           new == [draft |-> call[c].draft, content |-> call[c].content,
                   turn |-> call[c].turn, review |-> "no"]
<1>1. call[c] # NoCall
  BY DEF present, NoCall
<1>2. s \in Sessions /\ call[c].draft \in Drafts /\ call[c].content \in Contents /\ call[c].turn \in Turns
  BY <1>1, CallAlive DEF IInv, present
<1>3. /\ pending'[s] = new
      /\ \A o \in Sessions : o # s =>
           pending'[o] = pending[o] \/ pending'[o] = NoDraft
  BY <1>2 DEF present
<1>4. \A t \in Turns : auth'[t] = IF auth[t].session = s THEN NoAuth ELSE auth[t]
  BY DEF present, Cleared, Of
<1>5. Moves(c) /\ ~Holding(c)'
  BY DoneMoves DEF present, IInv
<1>6. CallsAlive' /\ HoldsGo
  BY <1>5, MovesAlive, MovesHold DEF present
<1>7. AuthsGo
  BY <1>4 DEF AuthsGo
<1>8. TicketsGo /\ TurnsInOrder' /\ TurnsGo /\ HistoryGrows /\ UNCHANGED <<sent, approvals, heard, turn>>
  BY Unmoved DEF present, owner, hist
<1>9. Reviews'
  <2>1. new.review = "no" /\ new.draft \in Drafts /\ new.content \in Contents /\ new.turn \in Turns
    BY <1>2
  <2>2. NoDraft.review = "no"
    BY DEF NoDraft
  <2> HIDE DEF new, s
  <2> QED BY <1>3, <1>8, <2>1, <2>2 DEF IInv, Reviews
<1>10. ApprovalMatches'
  <2> HIDE DEF new, s
  <2>1. \A t \in Turns : auth[t] # NoAuth => auth[t].session \in Sessions
    BY DEF IInv, Auths, ApprovedTurns, TurnsInOrder, Entered
  <2> QED BY <1>3, <1>4, <2>1 DEF IInv, ApprovalMatches
<1>11. Auths'
  BY <1>7, <1>8, AuthsKept DEF IInv, Auths, AuthsGo
<1>12. OneLineOneApproval' /\ Submitted'
  BY <1>8, CountKept DEF IInv, TicketsGo
<1>13. Maps
  BY <1>6, <1>7, <1>8, WithdrawMaps DEF hist
<1> QED
  BY <1>6, <1>7, <1>8, <1>9, <1>10, <1>11, <1>12, <1>13, ApprovedKept, GrantsKept, OneGrantKept,
     SentKept
  DEF IInv

LEMMA DropDrafts == ASSUME IInv, NEW s \in Sessions, NEW d, drop_pending(s, d) PROVE DraftsGo
  BY DEF drop_pending, DraftsGo, IInv, TypeOK

LEMMA DraftsKeep == ASSUME IInv, DraftTool PROVE IInv' /\ Maps
<1>t. TypeOK'
  BY DraftTypes DEF IInv
<1>r. TypeOK
  BY DEF IInv
<1> USE DEF owner, gate
<1>a. ASSUME NEW c \in Calls, call[c].kind # "none" PROVE call[c] # NoCall
  BY <1>a DEF NoCall
<1>g. ASSUME NEW c \in Calls, NEW pc \in Steps \ {"idle", "fetched"}, Goto(c, pc),
             call[c].kind \notin {"none", "send"}, UNCHANGED turn
      PROVE  CallsAlive' /\ HoldsGo
  <2>1. Moves(c) /\ call'[c].kind = call[c].kind
    BY <1>a, <1>g, <1>r, GotoMoves
  <2> QED BY <1>g, <2>1, MovesAlive, MovesHold DEF Holding
<1>1. ASSUME NEW c \in Calls, NEW v \in Contents, create(c, v) PROVE IInv' /\ Maps
  <2>1. CallsAlive' /\ HoldsGo
    BY <1>1, <1>g DEF create, At, Steps
  <2> QED BY <1>1, <1>t, <2>1, Unmoved, Kept DEF create
<1>2. ASSUME NEW c \in Calls, NEW v \in Contents, put(c, v) PROVE IInv' /\ Maps
  <2>1. CallsAlive' /\ HoldsGo
    BY <1>2, <1>g DEF put, At, Steps
  <2> QED BY <1>2, <1>t, <2>1, Unmoved, Kept DEF put
<1>3. ASSUME NEW c \in Calls, remember_own(c) PROVE IInv' /\ Maps
  <2>1. CallsAlive' /\ HoldsGo
    BY <1>3, <1>g DEF remember_own, At, Steps
  <2> QED BY <1>3, <1>t, <2>1, Unmoved, Kept DEF remember_own
<1>4. ASSUME NEW c \in Calls, load_own(c) \/ fetch_draft(c) PROVE IInv' /\ Maps
  <2>1. PICK v \in Contents, pc \in {"fetched", "loaded"} :
           call' = [call EXCEPT ![c].pc = pc, ![c].content = v]
    BY <1>4 DEF load_own, fetch_draft, There
  <2>2. call[c].kind \notin {"none", "send"}
    BY <1>4 DEF load_own, fetch_draft, At
  <2>3. /\ call'[c].kind = call[c].kind /\ call'[c].turn = call[c].turn
        /\ call'[c].draft = call[c].draft /\ call'[c].content = v /\ call'[c].pc = pc
        /\ \A b \in Calls : b # c => call'[b] = call[b]
    BY <1>r, <2>1 DEF TypeOK, CallRows
  <2>4. Moves(c) /\ ~Holding(c)'
    BY <1>a, <2>2, <2>3 DEF Moves, Holding
  <2>5. CallsAlive' /\ HoldsGo
    BY <1>4, <2>4, MovesAlive, MovesHold DEF load_own, fetch_draft
  <2> QED BY <1>4, <1>t, <2>5, Unmoved, Kept DEF load_own, fetch_draft
<1>5. ASSUME NEW c \in Calls, erase(c) PROVE IInv' /\ Maps
  <2>1. CallsAlive' /\ HoldsGo
    BY <1>5, <1>g DEF erase, At, Steps
  <2> QED BY <1>5, <1>t, <2>1, Unmoved, Kept DEF erase
<1>6. ASSUME NEW c \in Calls, erased(c) PROVE IInv' /\ Maps
  <2>1. Session(c) \in Sessions
    BY <1>6, <1>a, CallAlive DEF erased, At, IInv
  <2>2. DraftsGo
    BY <1>6, <2>1, DropDrafts DEF erased
  <2>3. CallsAlive' /\ HoldsGo
    BY <1>6, <1>r, DoneMoves, MovesAlive, MovesHold DEF erased
  <2> QED BY <1>6, <1>t, <2>2, <2>3, Unmoved, Kept DEF erased
<1>7. ASSUME NEW c \in Calls, draft_gives_up(c) PROVE IInv' /\ Maps
  <2>1. CallsAlive' /\ HoldsGo
    BY <1>7, <1>r, DoneMoves, MovesAlive, MovesHold DEF draft_gives_up
  <2> QED BY <1>7, <1>t, <2>1, Unmoved, Kept DEF draft_gives_up
<1>q. PICK c \in Calls :
        \/ \E t \in Turns, d \in Drafts, kind \in {"create", "update", "show", "delete"} :
             begin_call(c, t, kind, d)
        \/ \E v \in Contents : create(c, v) \/ put(c, v)
        \/ remember_own(c) \/ load_own(c) \/ fetch_draft(c) \/ present(c) \/ erase(c) \/ erased(c)
        \/ draft_gives_up(c)
  BY DEF DraftTool
<1>b. ASSUME NEW t \in Turns, NEW d \in Drafts,
             NEW kind \in {"create", "update", "show", "delete"}, begin_call(c, t, kind, d)
      PROVE  IInv' /\ Maps
  BY <1>b, <1>t, BeginKeeps
<1>c. ASSUME present(c) PROVE IInv' /\ Maps
  BY <1>c, <1>t, PresentKeeps
<1> QED BY <1>1, <1>2, <1>3, <1>4, <1>5, <1>6, <1>7, <1>b, <1>c, <1>q

\* begin_send takes the approval of its turn, which nobody else holds.
LEMMA TakeKeeps == ASSUME IInv, TypeOK', NEW c \in Calls, begin_send(c) PROVE IInv' /\ Maps
<1> DEFINE t == call[c].turn
<1>1. call[c] # NoCall /\ call[c].kind = "send" /\ call[c].pc = "gated"
  BY DEF begin_send, At, NoCall
<1>2. t \in Turns
  BY <1>1, CallAlive DEF IInv
<1>3. auth[t] # NoAuth /\ ~auth[t].used /\ auth[t] \in AuthRows
  BY <1>2 DEF begin_send, Authorized, IInv, TypeOK
<1>4. /\ auth'[t] = [auth[t] EXCEPT !.used = TRUE] /\ auth'[t].used
      /\ \A u \in Turns : u # t => auth'[u] = auth[u]
  BY <1>2, <1>3 DEF begin_send, Used, IInv, TypeOK, AuthRows
<1>5. /\ call'[c].kind = "send" /\ call'[c].turn = t /\ call'[c].draft = call[c].draft
      /\ call'[c].pc = "granted" /\ call'[c].content = auth[t].content
      /\ \A b \in Calls : b # c => call'[b] = call[b]
  BY <1>1 DEF begin_send, IInv, TypeOK, CallRows
<1>6. /\ TurnsGo /\ HistoryGrows /\ DraftsGo /\ TicketsGo /\ TurnsInOrder'
      /\ UNCHANGED <<sent, approvals, heard, turn>>
  BY Unmoved DEF begin_send, owner, hist
<1>7. AuthsGo
  BY <1>3, <1>4 DEF AuthsGo
<1>8. CallsAlive'
  BY <1>1, <1>5, <1>6, MovesAlive DEF Moves
<1>9. Grants'
  <2>1. t \in approvals /\ auth[t].content \in Contents
        /\ ReadBack(turn[t].session, auth[t].content, t)
    BY <1>2, <1>3 DEF IInv, Auths
  <2>2. Holding(c)' => /\ call'[c].turn \in approvals' /\ call'[c].content \in Contents
                       /\ ReadBack(Session(c), call[c].content, call[c].turn)'
                       /\ call'[c].pc \notin {"matched", "issued", "sent"}
    BY <1>5, <1>6, <2>1 DEF ReadBack, Session
  <2>3. ASSUME NEW b \in Calls, b # c, Holding(b)'
        PROVE  /\ call'[b].turn \in approvals' /\ call'[b].content \in Contents
               /\ ReadBack(Session(b), call[b].content, call[b].turn)'
               /\ call'[b].pc \in {"matched", "issued", "sent"} => call'[b].got = call'[b].content
    <3>1. Holding(b) /\ call'[b] = call[b]
      BY <1>5, <2>3 DEF Holding
    <3> QED BY <1>6, <3>1 DEF IInv, Grants, ReadBack, Session
  <2> QED BY <2>2, <2>3 DEF Grants
<1>10. OneGrant'
  <2>1. ~Holding(c)
    BY <1>1 DEF Holding
  <2>2. \A b \in Calls : b # c => (Holding(b)' <=> Holding(b)) /\ call'[b] = call[b]
    BY <1>5 DEF Holding
  <2>3. \A b \in Calls : Holding(b) => call[b].turn # t /\ call[b].turn \in Turns
    BY <1>3, HolderTurn DEF IInv, OneGrant
  <2> HIDE DEF t
  <2>4. \A b \in Calls : b # c /\ Holding(b)' =>
          /\ call'[b].turn # t /\ (auth'[call'[b].turn] = NoAuth \/ auth'[call'[b].turn].used)
          /\ \A e \in Calls : e # c /\ Holding(e)' /\ call'[e].turn = call'[b].turn => e = b
    BY <1>4, <2>2, <2>3 DEF IInv, OneGrant
  <2> QED BY <1>4, <1>5, <2>4 DEF OneGrant
<1>11. Auths'
  BY <1>6, <1>7, AuthsKept DEF IInv, Auths, AuthsGo
<1>12. OneLineOneApproval' /\ Submitted'
  BY <1>6, CountKept DEF IInv, TicketsGo
<1>13. Maps
  <2>1. ASSUME NEW u \in Turns, u # t PROVE Approvals'[u] = Approvals[u]
    <3>1. Holders(u)' = Holders(u)
      BY <1>5, <2>1, <1>1 DEF Holders, Holding
    <3>2. auth'[u] = auth[u]
      BY <1>4, <2>1
    <3>3. {<<turn'[u].session, call'[b].content>> : b \in Holders(u)'}
            = {<<turn[u].session, call[b].content>> : b \in Holders(u)}
      BY <1>5, <1>6, <1>1, <3>1 DEF Holders, Holding
    <3> QED BY <1>6, <3>2, <3>3 DEF Approvals, Unused
  <2>2. Approvals'[t] = {<<turn[t].session, auth[t].content>>}
    <3>0. PICK u \in Turns : u = t
      BY <1>2
    <3>1. Holders(u)' = {c}
      <4>1. \A b \in Calls : Holding(b) => call[b].turn # u
        BY <1>3, <3>0 DEF IInv, OneGrant
      <4>2. \A b \in Calls : b # c => b \notin Holders(u)'
        BY <1>5, <4>1 DEF Holders, Holding
      <4>3. c \in Holders(u)'
        BY <1>5, <3>0 DEF Holders, Holding
      <4> QED BY <4>2, <4>3 DEF Holders
    <3>2. ~Unused(u)'
      BY <1>4, <3>0 DEF Unused
    <3> QED BY <1>5, <1>6, <3>0, <3>1, <3>2 DEF Approvals
  <2>3. <<turn[t].session, auth[t].content>> \in Approvals[t]
    BY <1>2, <1>3 DEF Approvals, Unused
  <2>4. Approvals[t] = {<<turn[t].session, auth[t].content>>}
    BY <1>2, <2>3, AtMostOne
  <2>5. Approvals' = Approvals
    BY <2>1, <2>2, <2>4 DEF Approvals
  <2> QED BY <1>6, <2>5 DEF Maps, Approval!vars
<1> QED
  BY <1>6, <1>7, <1>8, <1>9, <1>10, <1>11, <1>12, <1>13, ReviewsKept, ApprovedKept, MatchesKept,
     SentKept
  DEF IInv

\* Gmail sends: the content that the gate let go is the one that was granted.
LEMMA SendKeeps == ASSUME IInv, TypeOK', NEW c \in Calls, drafts_send(c) PROVE IInv' /\ Maps
<1> DEFINE t == call[c].turn
<1>1. call[c] # NoCall /\ Holding(c) /\ call[c].pc = "issued" /\ call[c].kind = "send"
  BY DEF drafts_send, At, NoCall, Holding
<1>2. /\ Moves(c) /\ call'[c].content = call[c].content /\ call'[c].got = call[c].got
  BY <1>1, GotoMoves DEF drafts_send, IInv, Steps
<1>3. t \in approvals /\ ReadBack(turn[t].session, call[c].content, t) /\ call[c].got = call[c].content
  BY <1>1 DEF IInv, Grants, Session
<1>4. CallsAlive' /\ HoldsGo
  BY <1>1, <1>2, <1>3, MovesAlive, MovesHold DEF drafts_send
<1>5. /\ TurnsGo /\ HistoryGrows /\ DraftsGo /\ AuthsGo /\ TicketsGo /\ TurnsInOrder'
      /\ UNCHANGED <<approvals, heard, turn>>
  BY Unmoved DEF drafts_send, owner, gate, HistoryGrows
<1>6. SentReviewed'
  <2>1. turn[t].line = "go"
    BY <1>3 DEF IInv, ApprovedTurns
  <2>2. \E u \in Turns : u < t /\ <<turn[t].session, call[c].got, u>> \in heard
    BY <1>3 DEF ReadBack
  <2>3. sent' = sent \union {<<turn[t].session, call[c].got, t, gmail[call[c].draft]>>}
    BY DEF drafts_send
  <2> HIDE DEF t
  <2>4. \A m \in sent' : m \in sent \/ (m[1] = turn[t].session /\ m[2] = call[c].got /\ m[3] = t)
    BY <2>3
  <2> QED BY <1>3, <1>5, <2>1, <2>2, <2>4 DEF IInv, SentReviewed
<1>7. Auths'
  BY <1>5, AuthsKept DEF IInv, Auths, AuthsGo
<1>8. OneLineOneApproval' /\ Submitted'
  BY <1>5, CountKept DEF IInv, TicketsGo
<1>9. Maps
  <2> DEFINE m == <<turn[t].session, call[c].got>>
  <2>1. t \in Turns /\ m \in Sessions \X Contents
    BY <1>1, <1>3, HolderTurn DEF IInv, Session, Grants
  <2>2. m \in Approvals[t]
    BY <1>1, <1>3, <2>1 DEF Approvals, Holders
  <2>3. /\ call'[c].pc = "sent" /\ call'[c].turn = t
        /\ \A b \in Calls : b # c => call'[b] = call[b]
    BY <1>1, <1>2, GotoMoves DEF Moves, drafts_send, IInv, Steps, NoCall
  <2>4. ASSUME NEW u \in Turns, u # t PROVE Approvals'[u] = Approvals[u]
    <3>1. Holders(u)' = Holders(u)
      BY <2>3, <2>4 DEF Holders, Holding
    <3>2. {<<turn'[u].session, call'[b].content>> : b \in Holders(u)'}
            = {<<turn[u].session, call[b].content>> : b \in Holders(u)}
      BY <1>5, <2>3, <2>4, <3>1 DEF Holders
    <3> QED BY <1>5, <3>2 DEF Approvals, Unused, drafts_send, gate
  <2>5. Approvals'[t] = {}
    <3>1. \A b \in Calls : Holding(b) /\ call[b].turn = t => b = c
      BY <1>1 DEF IInv, OneGrant
    <3>2. PICK u \in Turns : u = t
      BY <2>1
    <3>3. Holders(u)' = {}
      BY <2>3, <3>1, <3>2 DEF Holders, Holding
    <3>4. auth[u] = NoAuth \/ auth[u].used
      BY <1>1, <3>2 DEF IInv, OneGrant
    <3>5. ~Unused(u)'
      BY <3>4 DEF Unused, drafts_send, gate
    <3> QED BY <3>2, <3>3, <3>5 DEF Approvals
  <2>6. Approvals' = [Approvals EXCEPT ![t] = {}]
    BY <2>4, <2>5 DEF Approvals
  <2>7. {<<<<n[1], n[2]>>, n[3]>> : n \in sent'}
          = {<<<<n[1], n[2]>>, n[3]>> : n \in sent} \union {<<m, t>>}
    <3> DEFINE x == <<turn[t].session, call[c].got, t, gmail[call[c].draft]>>
    <3>1. sent' = sent \union {x} /\ <<<<x[1], x[2]>>, x[3]>> = <<m, t>>
      BY DEF drafts_send
    <3> HIDE DEF x, m
    <3> QED BY <3>1
  <2>8. PICK u \in Turns, w \in Sessions \X Contents : u = t /\ w = m
    BY <2>1
  <2> HIDE DEF m, t
  <2>9. Approval!Send(w, u)
    BY <1>5, <2>2, <2>6, <2>7, <2>8 DEF Approval!Send
  <2> QED BY <2>9 DEF Maps, Approval!Next
<1> QED
  BY <1>4, <1>5, <1>6, <1>7, <1>8, <1>9, ReviewsKept, ApprovedKept, GrantsKept, OneGrantKept,
     MatchesKept
  DEF IInv

LEMMA SendsKeep == ASSUME IInv, SendTool PROVE IInv' /\ Maps
<1>t. TypeOK'
  BY SendTypes DEF IInv
<1>r. TypeOK
  BY DEF IInv
<1> USE DEF owner, gate
<1>a. ASSUME NEW c \in Calls, call[c].kind = "send" PROVE call[c] # NoCall
  BY <1>a DEF NoCall
<1>1. ASSUME NEW c \in Calls, send_refused(c) PROVE IInv' /\ Maps
  <2>1. CallsAlive' /\ HoldsGo
    BY <1>1, <1>r, DoneMoves, MovesAlive, MovesHold DEF send_refused
  <2> QED BY <1>1, <1>t, <2>1, Unmoved, Kept DEF send_refused
<1>2. ASSUME NEW c \in Calls, send_fetch(c) PROVE IInv' /\ Maps
  <2>1. call[c].kind = "send" /\ Holding(c) /\ call[c].pc = "granted"
    BY <1>2 DEF send_fetch, At, Holding
  <2>2. /\ call'[c].kind = "send" /\ call'[c].turn = call[c].turn /\ call'[c].draft = call[c].draft
        /\ call'[c].content = call[c].content /\ call'[c].pc = "fetched"
        /\ \A b \in Calls : b # c => call'[b] = call[b]
    BY <1>2, <1>r, <2>1 DEF send_fetch, TypeOK, CallRows
  <2>3. Moves(c)
    BY <1>a, <2>1, <2>2 DEF Moves
  <2>4. CallsAlive' /\ HoldsGo
    BY <1>2, <2>1, <2>2, <2>3, MovesAlive, MovesHold DEF send_fetch
  <2> QED BY <1>2, <1>t, <2>4, Unmoved, Kept DEF send_fetch
<1>3. ASSUME NEW c \in Calls, NEW pc \in {"matched", "issued"}, Goto(c, pc), Holding(c),
             call[c].pc # "sent", call[c].got = call[c].content, UNCHANGED turn
      PROVE  CallsAlive' /\ HoldsGo
  <2>1. Moves(c) /\ call'[c].content = call[c].content /\ call'[c].got = call[c].got
    BY <1>3, <1>a, <1>r, GotoMoves DEF Holding, Steps
  <2> QED BY <1>3, <2>1, MovesAlive, MovesHold
<1>4. ASSUME NEW c \in Calls, send_matches(c) PROVE IInv' /\ Maps
  <2>1. CallsAlive' /\ HoldsGo
    BY <1>4, <1>3 DEF send_matches, Matches, At, Holding
  <2> QED BY <1>4, <1>t, <2>1, Unmoved, Kept DEF send_matches
<1>5. ASSUME NEW c \in Calls, send_rechecks(c) PROVE IInv' /\ Maps
  <2>1. Holding(c) /\ call[c].pc = "matched"
    BY <1>5 DEF send_rechecks, At, Holding
  <2>2. call[c].got = call[c].content
    BY <2>1 DEF IInv, Grants
  <2>3. CallsAlive' /\ HoldsGo
    BY <1>5, <1>3, <2>1, <2>2 DEF send_rechecks
  <2> QED BY <1>5, <1>t, <2>3, Unmoved, Kept DEF send_rechecks
<1>6. ASSUME NEW c \in Calls, send_fails(c) PROVE IInv' /\ Maps
  <2>1. CallsAlive' /\ HoldsGo
    BY <1>6, <1>r, DoneMoves, MovesAlive, MovesHold DEF send_fails
  <2>2. AuthsGo
    BY <1>6, <1>r DEF send_fails, clear_authorization, AuthsGo, TypeOK
  <2> QED BY <1>6, <1>t, <2>1, <2>2, Unmoved, Kept DEF send_fails
<1>7. ASSUME NEW c \in Calls, send_done(c) PROVE IInv' /\ Maps
  <2>1. CallsAlive' /\ HoldsGo
    BY <1>7, <1>r, DoneMoves, MovesAlive, MovesHold DEF send_done
  <2>2. AuthsGo
    BY <1>7, <1>r DEF send_done, clear_authorization, AuthsGo, TypeOK
  <2>3. Session(c) \in Sessions
    BY <1>7, <1>a, CallAlive DEF send_done, At, IInv
  <2>4. DraftsGo
    BY <1>7, <2>3, DropDrafts DEF send_done
  <2> QED BY <1>7, <1>t, <2>1, <2>2, <2>4, Unmoved, Kept DEF send_done
<1> QED BY <1>1, <1>2, <1>4, <1>5, <1>6, <1>7, <1>t, BeginKeeps, TakeKeeps, SendKeeps DEF SendTool

\* The owner's edits leave the gate alone; a restart ends every turn.
LEMMA WorldKeeps == ASSUME IInv, World PROVE IInv' /\ Maps
<1>t. TypeOK'
  BY WorldTypes DEF IInv
<1> USE DEF owner, gate
<1>1. ASSUME NEW d \in Drafts, NEW v \in Contents, Edit(d, v) PROVE IInv' /\ Maps
  BY <1>1, <1>t, Unmoved, QuietStep DEF Edit
<1>2. ASSUME Restart PROVE IInv' /\ Maps
  <2>1. \A t \in Turns :
          IF turn[t].state = "none" THEN turn'[t].state = "none"
          ELSE /\ turn'[t].session = turn[t].session /\ turn'[t].line = turn[t].line
               /\ turn'[t].state = "over"
    BY <1>2 DEF Restart, NoTurn, IInv, TypeOK, TurnRows
  <2>2. TurnsGo
    BY <2>1 DEF TurnsGo, Entered, Begins
  <2>3. TurnsInOrder'
    <3>1. \A t \in Turns : ~Live(t)' /\ turn'[t].state # "stopping" /\ (Entered(t)' <=> Entered(t))
      BY <2>1 DEF Live, Entered
    <3> QED BY <2>1, <3>1 DEF IInv, TurnsInOrder, Entered
  <2>4. CallsAlive' /\ HoldsGo
    BY <1>2 DEF Restart, CallsAlive, HoldsGo, Holding, NoCall
  <2>5. DraftsGo /\ AuthsGo
    BY <1>2 DEF Restart, DraftsGo, AuthsGo
  <2>6. TicketsGo
    <3>1. \A s \in Sessions : rpc'[s].state = "none"
      BY <1>2 DEF Restart, NoRpc
    <3>2. \A s \in Sessions, l \in Lines : ticket'[s][l] = 0 /\ lines'[s][l] = lines[s][l]
      BY <1>2 DEF Restart
    <3>3. \A s \in Sessions, l \in Lines : lines[s][l] \in 0..MaxLines
      BY DEF IInv, TypeOK
    <3>4. \A s \in Sessions, l \in Lines : 0 <= lines[s][l]
      BY <3>3, Parameters
    <3>5. \A s \in Sessions : ticket[s]["go"] \in Nat /\ lines[s]["go"] \in Nat
      BY Countable DEF IInv
    <3>6. Submitted'
      BY <3>1, <3>2, <3>4 DEF Submitted
    <3>7. \A s \in Sessions : ticket'[s]["go"] = 0 /\ lines'[s]["go"] = lines[s]["go"]
      BY <3>2, Parameters
    <3>8. \A s \in Sessions : lines[s]["go"] - ticket[s]["go"] <= lines'[s]["go"] - ticket'[s]["go"]
      BY <3>5, <3>7
    <3> QED BY <3>6, <3>8 DEF TicketsGo
  <2> QED BY <1>2, <1>t, <2>2, <2>3, <2>4, <2>5, <2>6, Unmoved, Kept DEF Restart
<1> QED BY <1>1, <1>2 DEF World

LEMMA Stutters == ASSUME IInv, UNCHANGED vars PROVE IInv' /\ Maps
<1>1. TypeOK'
  BY DEF IInv, TypeOK, vars, owner, gate, hist
<1> QED BY <1>1, Unmoved, Kept DEF vars, owner, gate

LEMMA Starts == ASSUME Init PROVE IInv
<1>1. MaxLines \in Nat /\ MaxEdits \in Nat
  BY Parameters
<1>2. NoDraft \in DraftRows /\ NoAuth \in AuthRows /\ NoCall \in CallRows /\ NoTurn \in TurnRows
      /\ NoRpc \in RpcRows
  BY DEF NoDraft, NoAuth, NoCall, NoTurn, NoRpc, DraftRows, AuthRows, CallRows, TurnRows,
         TurnStates, RpcRows
<1>3. TypeOK
  <2>1. /\ ticket \in [Sessions -> [Lines -> 0..MaxLines]]
        /\ lines \in [Sessions -> [Lines -> 0..MaxLines]]
    <3>1. /\ ticket = [s \in Sessions |-> [l \in Lines |-> 0]]
          /\ lines = [s \in Sessions |-> [l \in Lines |-> 0]]
      BY DEF Init
    <3>2. 0 \in 0..MaxLines
      BY <1>1
    <3> QED BY <3>1, <3>2, Zenon
  <2>2. newer = [t \in Turns |-> <<>>]
    BY DEF Init
  <2>3. newer \in [Turns -> Seq(TurnLines)] /\ \A t \in Turns : Len(newer[t]) <= 2
    <3>1. <<>> \in Seq(TurnLines) /\ Len(<<>>) = 0
      OBVIOUS
    <3> QED BY <2>2, <3>1
  <2> QED BY <1>1, <1>2, <2>1, <2>3 DEF Init, TypeOK
<1>4. Submitted
  <2>1. \A s \in Sessions : rpc[s].state = "none"
    BY DEF Init, NoRpc
  <2>2. \A s \in Sessions, l \in Lines : ticket[s][l] = 0 /\ lines[s][l] = 0
    BY DEF Init
  <2> QED BY <2>1, <2>2 DEF Submitted
<1>5. TurnsInOrder /\ ApprovedTurns /\ Auths /\ CallsAlive /\ ApprovalMatches /\ SentReviewed
  BY DEF Init, TurnsInOrder, ApprovedTurns, Auths, CallsAlive, ApprovalMatches, SentReviewed,
         Entered, Live, NoTurn
<1>6. Reviews /\ Grants /\ OneGrant
  BY DEF Init, Reviews, Grants, OneGrant, Holding, NoDraft, NoCall
<1>7. OneLineOneApproval
  <2>1. \A s \in Sessions : ticket[s]["go"] = 0 /\ lines[s]["go"] = 0
    BY Parameters DEF Init
  <2>2. \A s \in Sessions : {t \in approvals : turn[t].session = s} = {}
    BY DEF Init
  <2> QED BY <2>1, <2>2, FS_EmptySet DEF OneLineOneApproval
<1> QED BY <1>3, <1>4, <1>5, <1>6, <1>7 DEF IInv

\* The abstract specification starts where the gate does.
LEMMA StartMaps == ASSUME Init PROVE Approval!Init
<1>1. \A t \in Turns : Holders(t) = {} /\ ~Unused(t)
  BY DEF Init, Holders, Holding, Unused, NoCall
<1>2. Approvals = [t \in Turns |-> {}]
  BY <1>1 DEF Approvals
<1> QED BY <1>2 DEF Init, Approval!Init

\* The last re-check is the one step that lets a send go.
LEMMA RechecksLetGo ==
    ASSUME IInv, [Next]_vars, NEW c \in Calls, call[c].pc = "matched", call'[c].pc = "issued"
    PROVE  send_rechecks(c)
<1>0. call \in [Calls -> CallRows] /\ call' # call
  BY DEF IInv, TypeOK
<1>n. NoCall.pc = "idle"
  BY DEF NoCall
<1>1. CASE Submit
  BY <1>0, <1>1 DEF Submit, mint, TicketExpires, HandlerStarts, HandlerQueues, HandlerRedirects,
     HandlerRefuses, Dispatched, Drain, Synthetic
<1>2. CASE Hooks
  BY <1>0, <1>2 DEF Hooks, pre_llm_call, post_llm_call, RowFlushed, BoundExpires, Interrupt,
     on_session_end, ReviewExpires
<1>3. CASE World
  BY <1>0, <1>n, <1>3 DEF World, Restart, Edit
<1>4. CASE DraftTool
  <2>1. PICK b \in Calls :
          \/ \E t \in Turns, d \in Drafts, kind \in {"create", "update", "show", "delete"} :
               begin_call(b, t, kind, d)
          \/ \E v \in Contents : create(b, v) \/ put(b, v)
          \/ remember_own(b) \/ load_own(b) \/ fetch_draft(b) \/ present(b) \/ erase(b) \/ erased(b)
          \/ draft_gives_up(b)
    BY <1>4 DEF DraftTool
  <2>2. ASSUME NEW pc \in Steps \ {"issued"}, Goto(b, pc) \/ Done(b) PROVE FALSE
    BY <1>0, <1>n, <2>2 DEF Goto, Done, CallRows
  <2>3. ASSUME NEW t \in Turns, NEW d \in Drafts, NEW kind \in {"create", "update", "show", "delete"},
               begin_call(b, t, kind, d)
        PROVE  FALSE
    BY <1>0, <2>3 DEF begin_call, NoCall
  <2>4. ASSUME load_own(b) \/ fetch_draft(b) PROVE FALSE
    <3>1. PICK v \in Contents, pc \in {"fetched", "loaded"} :
             call' = [call EXCEPT ![b].pc = pc, ![b].content = v]
      BY <2>4 DEF load_own, fetch_draft, There
    <3> QED BY <1>0, <3>1 DEF CallRows
  <2> QED BY <2>1, <2>2, <2>3, <2>4 DEF create, put, remember_own, present, erase, erased,
          draft_gives_up, Steps
<1>5. CASE SendTool
  <2>1. PICK b \in Calls :
          \/ \E t \in Turns, d \in Drafts : begin_call(b, t, "send", d)
          \/ begin_send(b) \/ send_refused(b) \/ send_fetch(b) \/ send_matches(b) \/ send_rechecks(b)
          \/ send_fails(b) \/ drafts_send(b) \/ send_done(b)
    BY <1>5 DEF SendTool
  <2>2. ASSUME NEW pc \in Steps \ {"issued"}, Goto(b, pc) \/ Done(b) PROVE FALSE
    BY <1>0, <1>n, <2>2 DEF Goto, Done, CallRows
  <2>3. ASSUME NEW t \in Turns, NEW d \in Drafts, begin_call(b, t, "send", d) PROVE FALSE
    BY <1>0, <2>3 DEF begin_call, NoCall
  <2>4. ASSUME begin_send(b) \/ send_fetch(b) PROVE FALSE
    BY <1>0, <2>4 DEF begin_send, send_fetch, CallRows
  <2>5. ASSUME send_rechecks(b) PROVE b = c
    BY <1>0, <2>5 DEF send_rechecks, Goto
  <2> QED BY <2>1, <2>2, <2>3, <2>4, <2>5 DEF send_refused, send_matches, send_fails, drafts_send,
          send_done, Steps
<1>6. CASE UNCHANGED vars
  BY <1>0, <1>6 DEF vars
<1> QED BY <1>1, <1>2, <1>3, <1>4, <1>5, <1>6 DEF Next

\* Who takes a reviewed draft from its session.
LEMMA ReviewTakenBy ==
    ASSUME IInv, [Next]_vars, NEW s \in Sessions, Reviewed(s), pending'[s].review = "no"
    PROVE  \/ \E c \in Calls : call[c] # NoCall /\ Session(c) = s /\ call'[c] = NoCall
           \/ \E t \in Active(s) : turn[t].state = "running" /\ turn'[t].state = "stopping"
           \/ rpc' = [o \in Sessions |-> NoRpc] /\ bound' = {} /\ own'[s] = {}
<1>0. pending \in [Sessions -> DraftRows] /\ pending'[s] # pending[s] /\ TypeOK
  BY DEF IInv, TypeOK, Reviewed
<1> USE DEF gate
<1>1. CASE Submit
  BY <1>0, <1>1 DEF Submit, mint, TicketExpires, HandlerStarts, HandlerQueues, HandlerRedirects,
     HandlerRefuses, Dispatched, Drain, Synthetic
<1>2. ASSUME NEW t \in Turns, Interrupt(t)
      PROVE  \E u \in Active(s) : turn[u].state = "running" /\ turn'[u].state = "stopping"
  <2>1. pending' = [pending EXCEPT ![turn[t].session] = NoDraft]
    BY <1>2 DEF Interrupt, clear_session
  <2>2. turn[t].session = s
    BY <1>0, <2>1
  <2>3. turn[t].state = "running" /\ turn'[t].state = "stopping"
    BY <1>0, <1>2 DEF Interrupt, TypeOK, TurnRows
  <2> QED BY <2>2, <2>3 DEF Active, Live
<1>3. ASSUME NEW t \in Turns, NEW said, post_llm_call(t, said) PROVE FALSE
  <2>1. pending' = pending \/ pending' = [pending EXCEPT ![turn[t].session].review = "live"]
    BY <1>3 DEF post_llm_call, Reviewing
  <2> QED BY <1>0, <2>1 DEF DraftRows
<1>4. ASSUME ReviewExpires(s) PROVE FALSE
  BY <1>0, <1>4 DEF ReviewExpires, DraftRows
<1>5. ASSUME NEW o \in Sessions, o # s, ReviewExpires(o) PROVE FALSE
  BY <1>0, <1>5 DEF ReviewExpires
<1>6. CASE Hooks
  BY <1>0, <1>2, <1>3, <1>4, <1>5, <1>6
  DEF Hooks, pre_llm_call, RowFlushed, BoundExpires, on_session_end
<1>7. ASSUME Restart
      PROVE rpc' = [o \in Sessions |-> NoRpc] /\ bound' = {} /\ own'[s] = {}
  BY <1>7 DEF Restart
<1>8. CASE World
  BY <1>0, <1>7, <1>8 DEF World, Edit
<1>9. ASSUME NEW c \in Calls, Done(c), call[c] # NoCall, Session(c) = s
      PROVE  \E b \in Calls : call[b] # NoCall /\ Session(b) = s /\ call'[b] = NoCall
  BY <1>0, <1>9, DoneMoves
<1>10. ASSUME NEW c \in Calls, present(c) PROVE Session(c) = s /\ call[c] # NoCall /\ Done(c)
  <2>1. Session(c) = s
    <3>1. ASSUME Session(c) # s
          PROVE  /\ pending'[s] = (IF pending[s].review = "expired" THEN NoDraft ELSE pending[s])
      BY <1>10, <3>1 DEF present
    <3> QED BY <1>0, <3>1 DEF Reviewed
  <2> QED BY <1>10, <2>1 DEF present, NoCall
<1>11. ASSUME NEW c \in Calls, drop_pending(Session(c), call[c].draft) PROVE Session(c) = s
  BY <1>0, <1>11 DEF drop_pending
<1>12. CASE DraftTool
  <2>1. PICK c \in Calls :
          \/ \E t \in Turns, d \in Drafts, kind \in {"create", "update", "show", "delete"} :
               begin_call(c, t, kind, d)
          \/ \E v \in Contents : create(c, v) \/ put(c, v)
          \/ remember_own(c) \/ load_own(c) \/ fetch_draft(c) \/ present(c) \/ erase(c) \/ erased(c)
          \/ draft_gives_up(c)
    BY <1>12 DEF DraftTool
  <2>2. CASE present(c)
    BY <1>9, <1>10, <2>2
  <2>3. CASE erased(c)
    BY <1>9, <1>11, <2>3 DEF erased, At, NoCall
  <2>4. CASE UNCHANGED pending
    BY <1>0, <2>4
  <2> QED BY <2>1, <2>2, <2>3, <2>4 DEF begin_call, create, put, remember_own, load_own,
          fetch_draft, erase, draft_gives_up
<1>13. CASE SendTool
  <2>1. PICK c \in Calls :
          \/ \E t \in Turns, d \in Drafts : begin_call(c, t, "send", d)
          \/ begin_send(c) \/ send_refused(c) \/ send_fetch(c) \/ send_matches(c) \/ send_rechecks(c)
          \/ send_fails(c) \/ drafts_send(c) \/ send_done(c)
    BY <1>13 DEF SendTool
  <2>2. CASE send_done(c)
    BY <1>9, <1>11, <2>2 DEF send_done, At, NoCall
  <2>3. CASE UNCHANGED pending
    BY <1>0, <2>3
  <2> QED BY <2>1, <2>2, <2>3 DEF begin_call, begin_send, send_refused, send_fetch, send_matches,
          send_rechecks, send_fails, drafts_send
<1>14. CASE UNCHANGED vars
  BY <1>0, <1>14 DEF vars
<1> QED BY <1>1, <1>6, <1>8, <1>12, <1>13, <1>14 DEF Next

-----------------------------------------------------------------------------
(* The theorems. *)

\* A step keeps the invariant and is one of the abstract specification.
LEMMA StepKeeps == IInv /\ [Next]_vars => IInv' /\ Maps
  BY SubmitKeeps, HooksKeep, DraftsKeep, SendsKeep, WorldKeeps, Stutters DEF Next

\* In every reachable state the invariant holds.
THEOREM Invariant == Spec => []IInv
<1>1. IInv /\ [Next]_vars => IInv'
  BY StepKeeps
<1> QED BY <1>1, Starts, PTL DEF Spec

\* Every variable keeps its type.
THEOREM TypeCorrect == Spec => []TypeOK
<1>1. IInv => TypeOK
  BY DEF IInv
<1> QED BY <1>1, Invariant, PTL

\* Tickets and approved turns never outnumber the passphrases of the owner
\* (_dispatch, consume_for_hook).
THEOREM LinePaysForApproval == Spec => []OneLineOneApproval
<1>1. IInv => OneLineOneApproval
  BY DEF IInv
<1> QED BY <1>1, Invariant, PTL

\* No two calls of gmail_send_draft hold the approval of one turn, however they
\* overlap (begin_send takes it before Gmail is asked).
THEOREM OneApprovalOneCall == Spec => []OneGrant
<1>1. IInv => OneGrant
  BY DEF IInv
<1> QED BY <1>1, Invariant, PTL

\* The content that the gate lets go was read back in an earlier turn of the
\* session and approved in this one (pre_llm_call, post_llm_call, begin_send).
THEOREM SentWasReviewed == Spec => []SentReviewed
<1>1. IInv => SentReviewed
  BY DEF IInv
<1> QED BY <1>1, Invariant, PTL

\* An approval that can be used is for the draft under review, as it was
\* reviewed (present, clear_session, drop_pending).
THEOREM ApprovalIsForReviewed == Spec => []ApprovalMatches
<1>1. IInv => ApprovalMatches
  BY DEF IInv
<1> QED BY <1>1, Invariant, PTL

\* No send passes the last re-check after an interrupt, or after a row of the
\* owner's other than the passphrase (turn_changed).
THEOREM CancelStopsSend == Spec => CancelHolds
<1> DEFINE Cancelled ==
      \A c \in Calls : call[c].pc = "matched" /\ call'[c].pc = "issued" =>
        LET t == call[c].turn IN turn[t].state = "running" /\ newer[t] \in {<<>>, <<"go">>}
<1>1. ASSUME IInv, [Next]_vars PROVE Cancelled
  <2>1. SUFFICES ASSUME NEW c \in Calls, call[c].pc = "matched", call'[c].pc = "issued"
                 PROVE  /\ turn[call[c].turn].state = "running"
                        /\ newer[call[c].turn] \in {<<>>, <<"go">>}
    OBVIOUS
  <2>2. send_rechecks(c)
    BY <1>1, <2>1, RechecksLetGo
  <2>3. snapshot[call[c].turn] = "read" /\ newer[call[c].turn] \in {<<>>, <<"go">>}
    BY <2>2 DEF send_rechecks, turn_changed
  <2>4. call[c].turn \in Turns /\ turn[call[c].turn].state \in {"running", "stopping"}
    BY <1>1, <2>1 DEF IInv, CallsAlive, NoCall
  <2> QED BY <1>1, <2>3, <2>4 DEF IInv, TurnsInOrder
<1>2. [][Next]_vars /\ []IInv => [][Cancelled]_vars
  <2>1. IInv /\ [Next]_vars => [Cancelled]_vars
    BY <1>1
  <2> QED BY <2>1, PTL
<1> QED BY <1>2, Invariant, PTL DEF Spec, CancelHolds

\* The end of a turn never takes a reviewed draft away: only a call of the
\* session that ends, an interrupt or a restart does (on_session_end_hook).
THEOREM ReviewSurvivesTurn == Spec => ReviewKept
<1> DEFINE Taker ==
      \A s \in Sessions : Reviewed(s) /\ pending'[s].review = "no" =>
         \/ \E c \in Calls : call[c] # NoCall /\ Session(c) = s /\ call'[c] = NoCall
         \/ \E t \in Active(s) : turn[t].state = "running" /\ turn'[t].state = "stopping"
         \/ rpc' = [o \in Sessions |-> NoRpc] /\ bound' = {} /\ own'[s] = {}
<1>1. IInv /\ [Next]_vars => [Taker]_vars
  BY ReviewTakenBy
<1> QED BY <1>1, Invariant, PTL DEF Spec, ReviewKept

\* The gate implements the abstract specification: one approval, one send, of
\* what was read back before.
THEOREM GateImplementsApproval == Spec => ApprovalSpec
<1>1. IInv /\ [Next]_vars => [Approval!Next]_(Approval!vars)
  BY StepKeeps DEF Maps
<1> QED BY <1>1, StartMaps, Invariant, PTL DEF Spec, ApprovalSpec, Approval!Spec
=============================================================================
