-------------------------- MODULE SpeechDelivery --------------------------
(***************************************************************************)
(* A line the client speaks unprompted: ProactiveSpeechSession and its     *)
(* ProactiveDeliveryCoordinator on the Windows client, the gateway's       *)
(* speech RPCs (zola_workspace/speech.py), and the item store of           *)
(* ProactiveItem behind them.                                              *)
(*                                                                         *)
(* A call is answered, or given up by the client after two seconds while   *)
(* the gateway may still carry it out.  The reservation lock is held       *)
(* inside each action below and never across a call, so the owner, the     *)
(* player and the poll timer come between any two of them.                 *)
(***************************************************************************)
EXTENDS ProactiveItem

CONSTANT MaxFaults \* bound: calls given up or failed, deaths of client or gateway

ASSUME SpeechParameters == MaxFaults \in Nat

VARIABLES
    client,  \* the coordinator's fields
    calls,   \* RPCs that are under way
    busy,    \* a local gate is closed or the owner was active just now
    audio,   \* the attempt whose audio is queued or playing in the gateway
    sent,    \* history: what the client did, by attempt
    faults

speechVars == <<client, calls, busy, audio, sent, faults>>
allVars == <<vars, speechVars>>

Verdicts == {"release", "delivered", "uncertain"}
Kinds == Verdicts \union {"recover", "snapshot", "claim", "start", "tts"}

\* next: the step ExecuteAsync takes once it has the lock again.  startRec,
\* startRpc, dispatch, cancel, accepted and started are the fields of those
\* names; pending is _pendingOutcome.
Clients == [recovered : BOOLEAN, held : BOOLEAN, item : Items \union {0},
            att : Attempts \union {0}, next : {"none", "start", "speak"},
            startRec : BOOLEAN, startRpc : BOOLEAN, dispatch : BOOLEAN, cancel : BOOLEAN,
            accepted : BOOLEAN, started : BOOLEAN, pending : Verdicts \union {"none"}]
NoHold == [recovered |-> FALSE, held |-> FALSE, item |-> 0, att |-> 0, next |-> "none",
           startRec |-> FALSE, startRpc |-> FALSE, dispatch |-> FALSE, cancel |-> FALSE,
           accepted |-> FALSE, started |-> FALSE, pending |-> "none"]

\* (mutant) the attempt is not cleared
ClearHold_Keeps == [NoHold EXCEPT !.recovered = TRUE, !.att = client.att]
ClearHold == [NoHold EXCEPT !.recovered = TRUE]

\* fresh: issued since the last poll; polls are ten times the call timeout apart.
Calls == [kind : Kinds, item : Items \union {0}, att : Attempts \union {0},
          reply : {"none", "ok", "refused", "failed"}, waits : BOOLEAN, fresh : BOOLEAN]
Call(k, i, a) == [kind |-> k, item |-> i, att |-> a, reply |-> "none", waits |-> TRUE,
                  fresh |-> TRUE]
Silent == [att |-> 0, state |-> "none"]

-----------------------------------------------------------------------------
(* The coordinator.  Each handler runs under the lock on the fields c and with
   the calls rest that remain, and ends in one of three ways. *)

Rest(c, rest) == client' = c /\ calls' = rest /\ UNCHANGED sent

Send(k, c, rest) == client' = c /\ calls' = rest \union {Call(k, c.item, c.att)} /\ UNCHANGED sent

\* BeginRelease, BeginUncertain, BeginDelivered: one verdict, and it is sent.
\* A step the chain was about to take finds it pending and stops.
Began(verdict, c, rest) ==
    /\ client' = [c EXCEPT !.pending = verdict, !.next = "none"]
    /\ calls' = rest \union {Call(verdict, c.item, c.att)}
Begin(verdict, c, rest) ==
    /\ Began(verdict, c, rest)
    /\ sent' = [sent EXCEPT ![c.att] = @ \union {verdict}]

\* StopIfNeeded kills the player; audio that is only queued still comes.
StopIfNeeded(on) == audio' = IF on /\ audio.state # "queued" THEN Silent ELSE audio

\* LocalGate and Idle; Playback is one of the gates.
Gated == busy \/ audio.state \in {"playing", "cut"}
\* (mutant) the owner's stamp is not among the reasons
BlockReason_Gates(c) == Gated
BlockReason(c) == c.cancel \/ Gated

\* Advance.  late: the limit for starting or for completing has passed, or the
\* gateway is down.
Advances(late) ==
    /\ late /\ client.held /\ client.pending = "none"
    /\ ~client.dispatch /\ ~client.startRpc /\ client.accepted

\* The timer comes every 20 s and a call is given up after 2, so a poll finds
\* at most the verdict a stamp or the player has just caused.  Assumed: a line
\* that was sent is played or lost before a later poll claims another.
Aged == {[k EXCEPT !.fresh = FALSE] : k \in calls}
Poll(late) ==
    /\ \A k \in calls : k.waits => k.kind \in Verdicts /\ k.fresh
    /\ client.next = "none"
    /\ \/ ~client.recovered /\ Send("recover", client, Aged) /\ UNCHANGED audio
       \/ /\ client.recovered /\ Advances(late)
          /\ Begin("uncertain", client, Aged)
          /\ StopIfNeeded(client.started)
       \/ /\ client.recovered /\ ~Advances(late) /\ client.pending # "none"
          /\ Send(client.pending, client, Aged)
          /\ UNCHANGED audio
       \/ /\ client.recovered /\ client.pending = "none" /\ ~client.held /\ ~Gated
          /\ audio = Silent /\ \A k \in calls : k.kind # "tts"
          /\ Send("snapshot", client, Aged)
          /\ UNCHANGED audio
    /\ UNCHANGED <<vars, busy, faults>>

\* The step SpeechStarted: nothing is sent once the hold was cancelled.
BeginStartRpc ==
    /\ client.next = "start"
    /\ IF client.held /\ ~client.startRec /\ client.pending = "none" /\ ~client.cancel
         THEN Send("start", [client EXCEPT !.next = "none", !.startRpc = TRUE], calls)
         ELSE Rest([client EXCEPT !.next = "none"], calls)
    /\ UNCHANGED <<vars, busy, audio, faults>>

Dispatched ==
    /\ client' = [client EXCEPT !.next = "none", !.dispatch = TRUE]
    /\ calls' = calls \union {Call("tts", client.item, client.att)}
    /\ sent' = [sent EXCEPT ![client.att] = @ \union {"tts"}]

\* The step Speak: a last look, then the line goes to the gateway.
ConfirmDispatch ==
    /\ client.next = "speak"
    /\ \/ /\ ~client.held \/ client.pending # "none"
          /\ Rest([client EXCEPT !.next = "none"], calls)
       \/ /\ client.held /\ client.pending = "none"
          /\ BlockReason(client)
          /\ Begin("uncertain", client, calls)
       \/ /\ client.held /\ client.pending = "none"
          /\ ~BlockReason(client)
          /\ Dispatched
    /\ UNCHANGED <<vars, busy, audio, faults>>

-----------------------------------------------------------------------------
(* What the client does with an answer; r: the reply, or "failed" when it has
   given the call up. *)

AfterRecover(r, rest) ==
    /\ Rest([client EXCEPT !.recovered = (r = "ok")], rest)
    /\ UNCHANGED audio

AfterSnapshot(r, rest) ==
    /\ IF r = "ok" /\ ~Gated THEN Send("claim", client, rest) ELSE Rest(client, rest)
    /\ UNCHANGED audio

AfterClaim(k, r, rest) ==
    LET c == [client EXCEPT !.held = TRUE, !.item = k.item, !.att = k.att] IN
    /\ IF r # "ok" THEN Rest(client, rest)
       ELSE IF BlockReason(client) THEN Begin("release", c, rest)
       ELSE Rest([c EXCEPT !.next = "start"], rest)
    /\ UNCHANGED audio

AfterSpeechStarted(r, rest) ==
    LET c == [client EXCEPT !.startRpc = FALSE] IN
    /\ IF ~c.held \/ c.pending # "none" THEN Rest(c, rest)
       ELSE IF r # "ok" THEN Begin("release", c, rest)
       ELSE IF BlockReason(c) THEN Begin("uncertain", [c EXCEPT !.startRec = TRUE], rest)
       ELSE Rest([c EXCEPT !.startRec = TRUE, !.next = "speak"], rest)
    /\ UNCHANGED audio

\* monitor: the playback monitor is available.
AfterSpeak(r, rest, monitor) ==
    LET c == [client EXCEPT !.dispatch = FALSE] IN
    IF ~c.held \/ c.pending # "none" \/ ~c.startRec THEN Rest(c, rest) /\ UNCHANGED audio
    ELSE IF c.cancel \/ r # "ok" \/ ~monitor
      THEN Begin("uncertain", c, rest) /\ StopIfNeeded(c.cancel \/ r = "ok")
    ELSE Rest([c EXCEPT !.accepted = TRUE], rest) /\ UNCHANGED audio

\* (mutant) a refused verdict is sent again like an unanswered one
AfterStore_Insists(r, rest) ==
    /\ Rest(IF r # "ok" THEN client ELSE ClearHold, rest)
    /\ UNCHANGED audio

\* Taken or refused, the verdict is settled; not answered, it stays pending
\* and a later poll sends it again.
AfterStore(r, rest) ==
    /\ Rest(IF r = "failed" THEN client ELSE ClearHold, rest)
    /\ UNCHANGED audio

Continue(k, r, rest, monitor) ==
    \/ k.kind = "recover" /\ AfterRecover(r, rest)
    \/ k.kind = "snapshot" /\ AfterSnapshot(r, rest)
    \/ k.kind = "claim" /\ AfterClaim(k, r, rest)
    \/ k.kind = "start" /\ AfterSpeechStarted(r, rest)
    \/ k.kind = "tts" /\ AfterSpeak(r, rest, monitor)
    \/ k.kind \in Verdicts /\ AfterStore(r, rest)

Answer(k, monitor) ==
    /\ k \in calls /\ k.waits /\ k.reply # "none"
    /\ Continue(k, k.reply, calls \ {k}, monitor)
    /\ UNCHANGED <<vars, busy, faults>>

\* Two seconds have passed; the gateway may still be at it.
GiveUp(k) ==
    /\ faults < MaxFaults
    /\ k \in calls /\ k.waits
    /\ Continue(k, "failed",
                (calls \ {k}) \union (IF k.reply = "none" THEN {[k EXCEPT !.waits = FALSE]}
                                     ELSE {}),
                TRUE)
    /\ faults' = faults + 1
    /\ UNCHANGED <<vars, busy>>

-----------------------------------------------------------------------------
(* The gateway. *)

Reply(k, r) == calls' = (calls \ {k}) \union (IF k.waits THEN {r} ELSE {})
Says(k, r) == Reply(k, [k EXCEPT !.reply = r])

ServeRecover(k) ==
    /\ k.kind = "recover" /\ Says(k, "ok")
    /\ recover_speech \/ (recoverAttempts = attempt /\ UNCHANGED vars)
    /\ UNCHANGED audio

ServeSnapshot(k) == k.kind = "snapshot" /\ Says(k, "ok") /\ UNCHANGED <<vars, audio>>

\* The last case: the name of the sender cannot be read, and the claim is
\* released before the gateway answers.
ServeClaim(k) ==
    /\ k.kind = "claim"
    /\ \/ /\ claim_next_speech
          /\ Reply(k, [k EXCEPT !.reply = "ok", !.item = First(speechReady), !.att = issued + 1])
       \/ /\ speechReady = {}
          /\ item' = recoverItems /\ attempt' = recoverAttempts
          /\ Says(k, "refused")
          /\ UNCHANGED <<deliveries, issued, turn, watching>>
       \/ /\ speechReady # {} /\ Issue
          /\ item' = recoverItems
          /\ attempt' = [Opened(recoverAttempts, First(speechReady), "speech")
                           EXCEPT ![issued + 1].status = "released"]
          /\ Says(k, "failed")
          /\ UNCHANGED <<deliveries, turn, watching>>
    /\ UNCHANGED audio

\* An outcome that was recorded already is answered like a refusal: either way
\* the client is done with it.
ServeStore(k) ==
    /\ \/ k.kind = "start" /\ mark_speech_started(k.item, k.att) /\ Says(k, "ok")
       \/ k.kind = "release" /\ release_speech_claim(k.item, k.att) /\ Says(k, "ok")
       \/ k.kind = "delivered" /\ mark_delivered(k.item, k.att) /\ Says(k, "ok")
       \/ k.kind = "uncertain" /\ mark_delivery_uncertain(k.item, k.att) /\ Says(k, "ok")
       \/ /\ \/ k.kind \in {"start", "release"} /\ ~Claimed(k.item, k.att)
             \/ k.kind \in {"delivered", "uncertain"} /\ ~Spoken(k.item, k.att)
          /\ Says(k, "refused")
          /\ UNCHANGED vars
    /\ UNCHANGED audio

ServeTts(k) ==
    /\ k.kind = "tts"
    /\ \/ audio' = [att |-> k.att, state |-> "queued"] /\ Says(k, "ok")
       \/ UNCHANGED audio /\ Says(k, "refused")
    /\ UNCHANGED vars

Serve(k) ==
    /\ k \in calls /\ k.reply = "none"
    /\ ServeRecover(k) \/ ServeSnapshot(k) \/ ServeClaim(k) \/ ServeStore(k) \/ ServeTts(k)
    /\ UNCHANGED <<client, busy, sent, faults>>

\* The store file is locked or cannot be opened, or the call fails otherwise.
ServeFails(k) ==
    /\ faults < MaxFaults
    /\ k \in calls /\ k.reply = "none"
    /\ Says(k, "failed")
    /\ faults' = faults + 1
    /\ UNCHANGED <<vars, client, busy, audio, sent>>

\* serve dies: what it was asked is answered with an error or not at all, and
\* its player goes silent.  The items are in a file.
GatewayDies ==
    /\ faults < MaxFaults
    /\ calls' = {[k EXCEPT !.reply = "failed"] : k \in {d \in calls : d.waits}}
    /\ audio' = IF audio.state = "playing" THEN [audio EXCEPT !.state = "cut"] ELSE Silent
    /\ faults' = faults + 1
    /\ UNCHANGED <<vars, client, busy, sent>>

\* The client dies and starts again; what it asked may still be carried out.
ClientDies ==
    /\ faults < MaxFaults
    /\ client' = NoHold
    /\ calls' = {[k EXCEPT !.waits = FALSE] : k \in {d \in calls : d.reply = "none"}}
    /\ faults' = faults + 1
    /\ UNCHANGED <<vars, busy, audio, sent>>

-----------------------------------------------------------------------------
(* The owner and the player. *)

\* The owner types, talks, submits, starts a turn or says stop.
NoteStamp ==
    /\ client.held /\ client.pending = "none"
    /\ LET c == [client EXCEPT !.cancel = TRUE]
           Verdict == IF c.startRec THEN "uncertain" ELSE "release"
           s == IF "tts" \in sent[c.att] THEN sent[c.att] ELSE sent[c.att] \union {"stamp"}
       IN
       \/ /\ client.dispatch \/ client.startRpc
          /\ client' = c /\ sent' = [sent EXCEPT ![c.att] = s]
          /\ UNCHANGED <<calls, audio>>
       \/ /\ ~client.dispatch /\ ~client.startRpc
          /\ Began(Verdict, c, calls)
          /\ sent' = [sent EXCEPT ![c.att] = s \union {Verdict}]
          /\ StopIfNeeded(c.accepted \/ c.started)
    /\ UNCHANGED <<vars, busy, faults>>

\* A gate closes or opens: a lock, quiet hours, text mode, recent activity.
Gate ==
    /\ busy' = ~busy
    /\ UNCHANGED <<vars, client, calls, audio, sent, faults>>

NotePlayback(active, forced) ==
    LET c == client IN
    IF ~c.held \/ ~c.accepted \/ c.pending # "none" THEN Rest(c, calls)
    ELSE IF c.cancel \/ (active /\ c.started) \/ (~active /\ forced)
      THEN Begin("uncertain", c, calls)
    ELSE IF active THEN Rest([c EXCEPT !.started = TRUE], calls)
    ELSE IF c.started THEN Begin("delivered", c, calls)
    ELSE Rest(c, calls)

AudioStarts ==
    /\ audio.state = "queued"
    /\ audio' = [audio EXCEPT !.state = "playing"]
    /\ NotePlayback(TRUE, FALSE)
    /\ UNCHANGED <<vars, busy, faults>>

\* To its end, or cut off by the death of serve, which the playback monitor
\* takes for a forced end or for an ordinary one, as it samples.
AudioEnds ==
    /\ \/ audio.state = "playing" /\ NotePlayback(FALSE, FALSE)
       \/ audio.state = "cut" /\ \E forced \in BOOLEAN : NotePlayback(FALSE, forced)
    /\ audio' = Silent
    /\ UNCHANGED <<vars, busy, faults>>

\* Synthesis fails after the call was accepted.
AudioLost ==
    /\ audio.state = "queued"
    /\ audio' = Silent
    /\ UNCHANGED <<vars, client, calls, busy, sent, faults>>

-----------------------------------------------------------------------------
SpeechInit ==
    /\ Init
    /\ client = NoHold
    /\ calls = {} /\ busy = FALSE /\ audio = Silent /\ faults = 0
    /\ sent = [a \in Attempts |-> {}]

\* The rest of the store's callers, as far as they touch a line: the watcher,
\* the start of a turn, the owner, the purge's recovery, and the clock.
Store ==
    /\ \/ \E i \in Items : insert_item(i) \/ bind_open_loop_match(i) \/ dismiss_item(i)
       \/ recover_speech
       \/ \E S \in SUBSET Items : forget_subject(S)
       \/ \E a \in Attempts : LeaseExpires(a)
    /\ UNCHANGED speechVars

Client ==
    \/ \E late \in BOOLEAN : Poll(late)
    \/ BeginStartRpc \/ ConfirmDispatch
    \/ \E k \in calls : GiveUp(k) \/ \E monitor \in BOOLEAN : Answer(k, monitor)
    \/ ClientDies
Gateway == GatewayDies \/ \E k \in calls : Serve(k) \/ ServeFails(k)
World == NoteStamp \/ Gate \/ AudioStarts \/ AudioEnds \/ AudioLost

SpeechNext == Store \/ Client \/ Gateway \/ World
SpeechSpec == SpeechInit /\ [][SpeechNext]_allVars

\* The timer comes, steps and answers are carried on, serve answers or is
\* given up on, and the time limits pass.  The owner, the gates, the player
\* and the store's other callers owe nothing.
FairSpeech ==
    /\ SpeechSpec
    /\ WF_allVars(Poll(TRUE))
    /\ WF_allVars(BeginStartRpc) /\ WF_allVars(ConfirmDispatch)
    /\ WF_allVars(\E k \in calls : k.waits /\ Serve(k))
    /\ WF_allVars(\E k \in calls : Answer(k, TRUE))

-----------------------------------------------------------------------------
\* Every variable keeps its type, and the client has an attempt while it holds.
SpeechTypeOK ==
    /\ TypeOK
    /\ client \in Clients /\ (client.held <=> client.att # 0)
    /\ calls \subseteq Calls /\ busy \in BOOLEAN
    /\ audio \in [att : Attempts \union {0}, state : {"none", "queued", "playing", "cut"}]
    /\ faults \in 0..MaxFaults
    /\ sent \in [Attempts -> SUBSET (Verdicts \union {"tts", "stamp"})]

\* An item is sent to the voice at most once, over all attempts, lost answers,
\* and restarts of client and gateway (the order of P9-D11: claim, then
\* speech_started, then voice.tts), and it gets one verdict: "a later bout end
\* cannot send delivered once an outcome is pending, and a release is never
\* followed by an outcome for that attempt".
SpokenOnce ==
    /\ \A a, b \in Attempts :
         /\ "tts" \in sent[a] /\ "tts" \in sent[b]
         /\ attempt[a].item = attempt[b].item /\ attempt[a].item \in Items
         => a = b
    /\ \A a \in Attempts :
         /\ \A v, w \in sent[a] \intersect Verdicts : v = w
         /\ ~({"tts", "release"} \subseteq sent[a])

\* Once the owner interrupts, the line is not sent any more, wherever the
\* chain of calls stands (NoteStamp, AfterSpeechStarted, ConfirmDispatch).
QuietAfterStamp == \A a \in Attempts : ~({"stamp", "tts"} \subseteq sent[a])

\* A hold ends, so a lost answer or a silent player does not stop all later
\* speech (ClaimBlocked).
HoldEnds == client.held ~> ~client.held
=============================================================================
