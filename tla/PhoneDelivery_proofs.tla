------------------------ MODULE PhoneDelivery_proofs ------------------------
(***************************************************************************)
(* Proofs about PhoneDelivery, for every number of texts, contents, faults *)
(* and every window: the types, that no text is lost on the way to the PC, *)
(* that the link implements TextIntake, that the cursor skips no text and  *)
(* that the PC's content is fresh.  All rest on IInv.                      *)
(***************************************************************************)
EXTENDS PhoneDelivery, SequenceTheorems, FiniteSetTheorems, WellFoundedInduction, TLAPS

-----------------------------------------------------------------------------
(* Lemmas about the operators of the model. *)

\* A non-empty set of naturals has a least element.
LEMMA LeastExists ==
    ASSUME NEW S \in SUBSET Nat, S # {}
    PROVE  \E m \in S : \A k \in S : m <= k
<1> DEFINE R == {ss \in Nat \X Nat : ss[1] < ss[2]}
<1>1. IsWellFoundedOn(R, Nat)
  BY NatLessThanWellFounded DEF OpToRel
<1>2. PICK m \in S : \A k \in S : ~ (<<k, m>> \in R)
  BY <1>1, WFMin
<1>3. \A k \in S : ~ (k < m)
  BY <1>2
<1>4. QED
  BY <1>3

\* Lowest picks an element of its set.
LEMMA LowestIn ==
    ASSUME NEW S \in SUBSET Texts, S # {}
    PROVE  Lowest(S) \in S
<1>1. S \in SUBSET Nat
  BY Parameters DEF Texts
<1>2. \E t \in S : \A u \in S : t <= u
  BY <1>1, LeastExists
<1>3. QED
  BY <1>2 DEF Lowest

\* maxId is 0 or the id of a row.
LEMMA MaxIdType == maxId \in 0..LastId
<1>1. CASE Present = {}
  BY <1>1, Parameters DEF maxId
<1>2. CASE Present # {}
  <2> DEFINE D == {LastId - t : t \in Present}
  <2>1. Present \subseteq 1..LastId /\ LastId \in Nat
    BY Parameters DEF Present, Texts
  <2>1a. \A t \in Present : LastId - t \in Nat
    BY <2>1
  <2>2. D \in SUBSET Nat /\ D # {}
    BY <1>2, <2>1a
  <2>3. PICK d \in D : \A e \in D : d <= e
    BY <2>2, LeastExists
  <2>4. PICK t \in Present : d = LastId - t
    BY <2>3
  <2>5. \A u \in Present : LastId - u \in D
    OBVIOUS
  <2>6. \A u \in Present : u <= t
    BY <2>1, <2>3, <2>4, <2>5
  <2>7. maxId \in Present
    BY <1>2, <2>4, <2>6 DEF maxId
  <2>8. QED
    BY <2>1, <2>7
<1>3. QED
  BY <1>1, <1>2

\* What a sequence of good messages is stays one as the good messages grow.
LEMMA SeqGrows ==
    ASSUME NEW S, NEW T, S \subseteq T, NEW s \in Seq(S)
    PROVE  s \in Seq(T)
  BY SeqMonotonic

-----------------------------------------------------------------------------
(* The invariant holds initially. *)

LEMMA InitIInv == Init => IInv
<1> SUFFICES ASSUME Init PROVE IInv
  OBVIOUS
<1> USE Parameters
<1>1. TypeOK
  <2>1. Blank \in Slots
    BY DEF Blank, Slots
  <2>2. NoRow \in Rows
    BY DEF NoRow, Rows
  <2>3. Idle \in Works
    BY DEF Idle, Works
  <2>4. NoItem \in [rev : 0..MaxVer, ver : 0..MaxVer]
    BY DEF NoItem
  <2>5. <<>> \in Seq(Frames) /\ <<>> \in Seq(Acks)
    BY EmptySeq
  <2>6. 0 \in 0..LastId /\ 0 \in 0..MaxVer /\ 0 \in 0..MaxFaults
    OBVIOUS
  <2>7. QED
    BY <2>1, <2>2, <2>3, <2>4, <2>5, <2>6 DEF Init, TypeOK
<1>2. Numbers /\ SlotsKnown /\ WorkKnown
  BY DEF Init, Numbers, SlotsKnown, WorkKnown, NoRow, Blank, Idle
<1>3. WireKnown
  BY DEF Init, WireKnown
<1>4. PcNeverAhead /\ NothingLost
  BY DEF Init, PcNeverAhead, NothingLost, Settled, NoItem
<1>5. QED
  BY <1>1, <1>2, <1>3, <1>4 DEF IInv
-----------------------------------------------------------------------------
(* Every step keeps it.  Steps that leave the books, the wire and the store  *)
(* alone are all alike; the others are taken one by one.                     *)

core == <<row, top, rev, hash, slot, deleted, toPc, toPhone, item, tomb, refused>>

LEMMA Quiet ==
    ASSUME IInv, TypeOK', WorkKnown', UNCHANGED core
    PROVE  IInv'
<1> USE DEF IInv, core
<1>1. Numbers' /\ SlotsKnown'
  BY DEF Numbers, SlotsKnown
<1>2. GoodFrames' = GoodFrames /\ GoodAcks' = GoodAcks
  BY DEF GoodFrames, GoodAcks, Answered
<1>3. WireKnown'
  BY <1>2 DEF WireKnown
<1>4. PcNeverAhead' /\ NothingLost'
  BY DEF PcNeverAhead, NothingLost, Settled, Answered
<1>5. QED
  BY <1>1, <1>3, <1>4

LEMMA HandlersQuiet ==
    ASSUME IInv, Handler, ~onAck
    PROVE  IInv'
<1> USE Parameters
<1>1. TypeOK /\ SlotsKnown /\ WorkKnown
  BY DEF IInv
<1>2. UNCHANGED core
  BY DEF Handler, core, onProviderChanged, acceptBind, acceptOk, onOpen, tick, onPing,
         provider, books, process, link, store
<1>3. TypeOK'
  <2>1. CASE onProviderChanged
    BY <1>1, <2>1 DEF onProviderChanged, TypeOK, Works, Idle, books, provider, link, store
  <2>2. CASE acceptBind
    BY <1>1, <2>2, MaxIdType DEF acceptBind, TypeOK, provider, process, link, store, Present
  <2>3. CASE acceptOk
    BY <1>1, <2>3 DEF acceptOk, TypeOK, Works, Idle, provider, link, store, Present, inFlight
  <2>4. CASE onOpen
    BY <1>1, <2>4 DEF onOpen, TypeOK, Works, Idle, provider, books, link, store, inFlight
  <2>5. CASE tick
    BY <1>1, <2>5 DEF tick, TypeOK, Works, Idle, provider, books, link, store
  <2>6. CASE onPing
    BY <1>1, <2>6 DEF onPing, TypeOK, Works, Idle, provider, books, link, store
  <2>7. QED
    BY <2>1, <2>2, <2>3, <2>4, <2>5, <2>6 DEF Handler
<1>4. WorkKnown'
  <2>1. CASE onProviderChanged \/ onPing
    BY <2>1 DEF onProviderChanged, onPing, WorkKnown, Idle
  <2>2. CASE acceptBind
    BY <1>1, <2>2 DEF acceptBind, WorkKnown, process
  <2>3. CASE acceptOk
    <3>1. work'.resend = inFlight /\ work'.tick = {} /\ work'.drain = {}
      BY <2>3 DEF acceptOk, Idle
    <3>2. QED
      BY <1>1, <1>2, <3>1 DEF WorkKnown, SlotsKnown, inFlight, core
  <2>4. CASE onOpen
    <3>1. work'.resend \subseteq inFlight /\ work'.tick = {} /\ work'.drain = {}
      BY <2>4 DEF onOpen, Idle
    <3>2. QED
      BY <1>1, <1>2, <3>1 DEF WorkKnown, SlotsKnown, inFlight, core
  <2>5. CASE tick
    <3>1. work'.resend = {} /\ work'.drain = {} /\ \A u \in work'.tick : slot[u].here
      BY <2>5 DEF tick, Idle
    <3>2. QED
      BY <1>2, <3>1 DEF WorkKnown, core
  <2>6. QED
    BY <2>1, <2>2, <2>3, <2>4, <2>5 DEF Handler
<1>5. QED
  BY <1>2, <1>3, <1>4, Quiet
-----------------------------------------------------------------------------
(* The steps that change one slot and may put one frame on the wire. *)

LEMMA GoodFramesGrow ==
    ASSUME IInv, rev' \in [Texts -> 0..MaxVer], deleted \subseteq deleted',
           \A u \in Texts : rev[u] <= rev'[u]
    PROVE  GoodFrames \subseteq GoodFrames' /\ toPc \in Seq(GoodFrames')
<1> USE Parameters
<1>1. GoodFrames \subseteq GoodFrames'
  <2>1. rev \in [Texts -> 0..MaxVer]
    BY DEF IInv, TypeOK
  <2>2. SUFFICES ASSUME NEW m \in GoodFrames PROVE m \in GoodFrames'
    OBVIOUS
  <2>3. m \in Frames /\ m.text \in Texts /\ m.rev \in 0..MaxVer
    BY DEF GoodFrames, Frames
  <2>4. QED
    BY <2>1, <2>3 DEF GoodFrames
<1>2. QED
  BY <1>1, SeqGrows DEF IInv, WireKnown

LEMMA SlotStep ==
    ASSUME IInv, NEW t \in Texts, TypeOK', Numbers', WorkKnown',
           UNCHANGED <<toPhone, item, tomb, refused>>, deleted \subseteq deleted',
           \A u \in Texts \ {t} : slot'[u] = slot[u] /\ rev'[u] = rev[u],
           rev[t] <= rev'[t], rev'[t] > 0, slot'[t].here,
           slot'[t].acked => slot[t].acked,
           slot'[t].dead => t \in deleted',
           toPc' \in Seq(GoodFrames')
    PROVE  IInv'
<1> USE Parameters
<1>1. TypeOK /\ SlotsKnown /\ WireKnown /\ PcNeverAhead /\ NothingLost
  BY DEF IInv
<1>2. SlotsKnown'
  BY <1>1 DEF SlotsKnown
<1>3. WireKnown'
  <2>1. GoodAcks \subseteq GoodAcks'
    BY DEF GoodAcks, Answered
  <2>2. QED
    BY <1>1, <2>1, SeqGrows DEF WireKnown
<1>4. PcNeverAhead'
  <2>1. \A u \in Texts : item[u].rev \in Nat /\ rev[u] \in Nat /\ rev'[u] \in Nat
    BY <1>1 DEF TypeOK
  <2>2. QED
    BY <1>1, <2>1 DEF PcNeverAhead
<1>5. NothingLost'
  <2>1. SUFFICES ASSUME NEW u \in Texts, Settled(u)'
                 PROVE  Answered(u)' \/ u \in deleted'
    BY DEF NothingLost
  <2>2. Settled(u)
    BY <1>1, <2>1 DEF Settled, SlotsKnown
  <2>3. QED
    BY <1>1, <2>2 DEF NothingLost, Answered
<1>6. QED
  BY <1>2, <1>3, <1>4, <1>5 DEF IInv

\* What dispatch does to the slot and the wire.
LEMMA DispatchEffect ==
    ASSUME TypeOK, NEW t \in Texts, NEW s \in Slots, s.here, NEW m \in GoodFrames',
           toPc \in Seq(GoodFrames'), dispatch(t, s, m)
    PROVE  /\ slot' \in [Texts -> Slots]
           /\ \A u \in Texts \ {t} : slot'[u] = slot[u]
           /\ slot'[t].here /\ slot'[t].acked = s.acked /\ slot'[t].dead = s.dead
           /\ toPc' \in Seq(GoodFrames') /\ faults' \in 0..MaxFaults
<1> USE Parameters
<1>1. PICK signed \in BOOLEAN :
        /\ slot' = [slot EXCEPT ![t] = [s EXCEPT !.fly = signed]]
        /\ signed \/ faults < MaxFaults
        /\ faults' = IF signed THEN faults ELSE faults + 1
  BY DEF dispatch
<1>1a. faults' \in 0..MaxFaults
  <2>1. faults \in 0..MaxFaults
    BY DEF TypeOK
  <2>2. QED
    BY <1>1, <2>1
<1>2. [s EXCEPT !.fly = signed] \in Slots
  BY DEF Slots
<1>3. slot \in [Texts -> Slots]
  BY DEF TypeOK
<1>4. toPc' = toPc \/ toPc' = Append(toPc, m)
  BY DEF dispatch
<1>5. toPc' \in Seq(GoodFrames')
  BY <1>4
<1>6. /\ [s EXCEPT !.fly = signed].here
      /\ [s EXCEPT !.fly = signed].acked = s.acked
      /\ [s EXCEPT !.fly = signed].dead = s.dead
  BY DEF Slots
<1>7. QED
  BY <1>1, <1>1a, <1>2, <1>3, <1>5, <1>6

\* A step that sends a tracked text and takes it off the running handler.
LEMMA Sent ==
    ASSUME IInv, NEW t \in Texts, slot[t].here,
           UNCHANGED <<provider, paired, bound, base, cursor, high, stopped, pending, rev, hash,
                       alive, dirty, opened, up, toPhone, store>>, faults' \in 0..MaxFaults,
           slot' \in [Texts -> Slots], \A u \in Texts \ {t} : slot'[u] = slot[u],
           slot'[t].here, slot'[t].acked = slot[t].acked,
           slot'[t].dead => t \in deleted',
           deleted \subseteq deleted', deleted' \subseteq Texts,
           toPc' \in Seq(GoodFrames'), work' \in Works,
           work'.resend \subseteq work.resend, work'.tick \subseteq work.tick,
           work'.drain \subseteq work.drain
    PROVE  IInv'
<1> USE Parameters
<1>1. TypeOK /\ SlotsKnown /\ WorkKnown /\ Numbers
  BY DEF IInv
<1>2. TypeOK'
  <2>1. toPc' \in Seq(Frames)
    <3>1. GoodFrames' \subseteq Frames
      BY DEF GoodFrames, Frames
    <3>2. QED
      BY <3>1, SeqGrows
  <2>2. QED
    BY <1>1, <2>1 DEF TypeOK, provider, store
<1>3. Numbers'
  BY <1>1 DEF Numbers, provider
<1>4. WorkKnown'
  <2>1. SUFFICES ASSUME NEW u \in work'.resend \union work'.tick \union work'.drain
                 PROVE  slot'[u].here
    BY DEF WorkKnown
  <2>2. u \in work.resend \union work.tick \union work.drain
    OBVIOUS
  <2>3. u \in Texts
    BY <1>1, <2>2 DEF TypeOK, Works
  <2>4. slot[u].here
    BY <1>1, <2>2 DEF WorkKnown
  <2>5. QED
    BY <2>3, <2>4
<1>5. rev'[t] > 0 /\ rev[t] <= rev'[t] /\ rev[t] \in Nat
  BY <1>1 DEF SlotsKnown, TypeOK
<1>6. QED
  BY <1>2, <1>3, <1>4, <1>5, SlotStep DEF store

\* freshSend sends the row as it is now, or reports it gone.
LEMMA FreshSendEffect ==
    ASSUME IInv, NEW t \in Texts, slot[t].here, freshSend(t), UNCHANGED <<row, rev>>
    PROVE  /\ slot' \in [Texts -> Slots] /\ \A u \in Texts \ {t} : slot'[u] = slot[u]
           /\ slot'[t].here /\ slot'[t].acked = slot[t].acked
           /\ slot'[t].dead => t \in deleted'
           /\ deleted \subseteq deleted' /\ deleted' \subseteq Texts
           /\ toPc' \in Seq(GoodFrames') /\ faults' \in 0..MaxFaults
<1> USE Parameters
<1>1. TypeOK /\ SlotsKnown
  BY DEF IInv
<1>2. slot[t] \in Slots /\ row[t] \in Rows /\ rev[t] \in 1..MaxVer
  BY <1>1 DEF TypeOK, SlotsKnown
<1>3. CASE t \in Present
  <2> DEFINE s == [slot[t] EXCEPT !.body = row[t].ver]
             m == Event(t, rev[t], row[t].ver)
  <2>1. dispatch(t, s, m) /\ deleted' = deleted
    BY <1>3 DEF freshSend
  <2>2. s \in Slots /\ s.here /\ s.acked = slot[t].acked /\ s.dead = slot[t].dead
    BY <1>2 DEF Slots, Rows
  <2>3. m \in Frames
    BY <1>2 DEF Event, Frames, Rows
  <2>4. m \in GoodFrames'
    BY <2>1, <2>3, <1>2 DEF GoodFrames, Event
  <2>5. toPc \in Seq(GoodFrames')
    BY <2>1, <1>1, GoodFramesGrow DEF TypeOK
  <2> HIDE DEF s, m
  <2>6. QED
    BY <1>1, <2>1, <2>2, <2>4, <2>5, DispatchEffect DEF SlotsKnown, TypeOK
<1>4. CASE t \notin Present
  <2> DEFINE s == [slot[t] EXCEPT !.dead = TRUE]
             m == Deletion(t, rev[t])
  <2>1. dispatch(t, s, m) /\ deleted' = deleted \union {t}
    BY <1>4 DEF freshSend
  <2>2. s \in Slots /\ s.here /\ s.acked = slot[t].acked
    BY <1>2 DEF Slots
  <2>3. m \in Frames
    BY <1>2 DEF Deletion, Frames
  <2>4. m \in GoodFrames'
    BY <2>1, <2>3, <1>2 DEF GoodFrames, Deletion
  <2>5. toPc \in Seq(GoodFrames')
    BY <2>1, <1>1, GoodFramesGrow DEF TypeOK
  <2> HIDE DEF s, m
  <2>6. QED
    BY <1>1, <2>1, <2>2, <2>4, <2>5, DispatchEffect DEF TypeOK
<1>5. QED
  BY <1>3, <1>4

LEMMA ResendKeeps == ASSUME IInv, resendStep PROVE IInv'
<1> DEFINE t == Lowest(work.resend)
<1>1. TypeOK /\ WorkKnown
  BY DEF IInv
<1>2. work.resend \subseteq Texts /\ work \in Works
  BY <1>1 DEF TypeOK, Works
<1>3. t \in work.resend /\ t \in Texts
  BY <1>2, LowestIn DEF resendStep
<1>4. slot[t].here
  BY <1>1, <1>3 DEF WorkKnown
<1>5. freshSend(t) /\ work' = [work EXCEPT !.resend = @ \ {t}]
  BY DEF resendStep
<1>6. /\ work' \in Works /\ work'.resend \subseteq work.resend
      /\ work'.tick = work.tick /\ work'.drain = work.drain
  BY <1>2, <1>5 DEF Works
<1>7. UNCHANGED <<provider, paired, bound, base, cursor, high, stopped, pending, rev, hash,
                  alive, dirty, opened, up, toPhone, store>>
  BY DEF resendStep
<1> HIDE DEF t
<1>8. QED
  BY <1>3, <1>4, <1>5, <1>6, <1>7, FreshSendEffect, Sent DEF provider

\* The tick sends what it exhausted; a drain sends what waits, room allowing.
LEMMA TickKeeps == ASSUME IInv, tickStep PROVE IInv'
<1> DEFINE t == Lowest(work.tick)
           s == [slot[t] EXCEPT !.comp = "exhausted"]
           m == Event(t, rev[t], slot[t].body)
<1> USE Parameters
<1>1. TypeOK /\ WorkKnown /\ SlotsKnown
  BY DEF IInv
<1>2. work.tick \subseteq Texts /\ work \in Works
  BY <1>1 DEF TypeOK, Works
<1>3. t \in work.tick /\ t \in Texts
  BY <1>2, LowestIn DEF tickStep
<1>4. slot[t].here /\ slot[t] \in Slots /\ rev[t] \in 1..MaxVer
  BY <1>1, <1>3 DEF WorkKnown, SlotsKnown, TypeOK
<1>5. dispatch(t, s, m) /\ work' = [work EXCEPT !.tick = @ \ {t}]
  BY DEF tickStep
<1>6. /\ work' \in Works /\ work'.tick \subseteq work.tick
      /\ work'.resend = work.resend /\ work'.drain = work.drain
  BY <1>2, <1>5 DEF Works
<1>7. UNCHANGED <<provider, paired, bound, base, cursor, high, stopped, pending, rev, hash,
                  alive, dirty, opened, up, toPhone, store>>
  BY DEF tickStep
<1>8. deleted' = deleted /\ rev' = rev
  BY DEF tickStep
<1>9. s \in Slots /\ s.here /\ s.acked = slot[t].acked /\ s.dead = slot[t].dead
  BY <1>4 DEF Slots
<1>10. m \in GoodFrames'
  <2>1. m \in Frames
    BY <1>3, <1>4 DEF Event, Frames, Slots
  <2>2. QED
    BY <2>1, <1>4, <1>8 DEF GoodFrames, Event
<1>11. toPc \in Seq(GoodFrames')
  BY <1>1, <1>8, GoodFramesGrow DEF TypeOK
<1>12. slot[t].dead => t \in deleted
  BY <1>1, <1>3 DEF SlotsKnown
<1>13. deleted' \subseteq Texts
  BY <1>1, <1>8 DEF TypeOK
<1> HIDE DEF t, s, m
<1>14. /\ slot' \in [Texts -> Slots] /\ \A u \in Texts \ {t} : slot'[u] = slot[u]
       /\ slot'[t].here /\ slot'[t].acked = slot[t].acked /\ slot'[t].dead = slot[t].dead
       /\ toPc' \in Seq(GoodFrames') /\ faults' \in 0..MaxFaults
  BY <1>1, <1>3, <1>5, <1>9, <1>10, <1>11, DispatchEffect
<1>15. QED
  BY <1>3, <1>4, <1>6, <1>7, <1>8, <1>12, <1>13, <1>14, Sent

LEMMA DrainKeeps == ASSUME IInv, drainStep PROVE IInv'
<1> DEFINE t == Lowest(work.drain)
           m == Event(t, rev[t], slot[t].body)
<1> USE Parameters
<1>1. TypeOK /\ WorkKnown /\ SlotsKnown
  BY DEF IInv
<1>2. work.drain \subseteq Texts /\ work \in Works
  BY <1>1 DEF TypeOK, Works
<1>3. t \in work.drain /\ t \in Texts
  BY <1>2, LowestIn DEF drainStep
<1>4. slot[t].here /\ slot[t] \in Slots /\ rev[t] \in 1..MaxVer
  BY <1>1, <1>3 DEF WorkKnown, SlotsKnown, TypeOK
<1>5. UNCHANGED <<provider, paired, bound, base, cursor, high, stopped, pending, rev, hash,
                  alive, dirty, opened, up, toPhone, store>>
  BY DEF drainStep
<1>6. CASE Cardinality(Unacked) >= Window
  <2>1. work' = Idle /\ UNCHANGED <<slot, deleted, toPc, faults>>
    BY <1>6 DEF drainStep
  <2>2. UNCHANGED core
    BY <1>5, <2>1 DEF core, provider, store
  <2>3. TypeOK'
    BY <1>1, <1>5, <2>1 DEF TypeOK, Idle, Works, provider, store
  <2>4. WorkKnown'
    BY <2>1 DEF WorkKnown, Idle
  <2>5. QED
    BY <2>2, <2>3, <2>4, Quiet
<1>7. CASE ~(Cardinality(Unacked) >= Window)
  <2>1. work' = [work EXCEPT !.drain = @ \ {t}]
    BY <1>7 DEF drainStep
  <2>2. /\ work' \in Works /\ work'.drain \subseteq work.drain
        /\ work'.resend = work.resend /\ work'.tick = work.tick
    BY <1>2, <2>1 DEF Works
  <2>3. CASE slot[t].body = 0
    <3>1. freshSend(t)
      BY <1>7, <2>3 DEF drainStep
    <3> HIDE DEF t
    <3>2. QED
      BY <1>3, <1>4, <1>5, <2>2, <3>1, FreshSendEffect, Sent DEF provider
  <2>4. CASE slot[t].body # 0
    <3>1. dispatch(t, slot[t], m) /\ deleted' = deleted /\ rev' = rev
      BY <1>7, <2>4 DEF drainStep
    <3>2. m \in Frames
      BY <1>3, <1>4 DEF Event, Frames, Slots
    <3>3. m \in GoodFrames'
      BY <3>1, <3>2, <1>4 DEF GoodFrames, Event
    <3>4. toPc \in Seq(GoodFrames')
      BY <1>1, <3>1, GoodFramesGrow DEF TypeOK
    <3>5. (slot[t].dead => t \in deleted) /\ deleted' \subseteq Texts
      BY <1>1, <1>3, <3>1 DEF SlotsKnown, TypeOK
    <3> HIDE DEF t, m
    <3>6. /\ slot' \in [Texts -> Slots] /\ \A u \in Texts \ {t} : slot'[u] = slot[u]
          /\ slot'[t].here /\ slot'[t].acked = slot[t].acked /\ slot'[t].dead = slot[t].dead
          /\ toPc' \in Seq(GoodFrames') /\ faults' \in 0..MaxFaults
      BY <1>1, <1>3, <1>4, <3>1, <3>3, <3>4, DispatchEffect
    <3>7. QED
      BY <1>3, <1>4, <1>5, <2>2, <3>1, <3>5, <3>6, Sent
  <2>5. QED
    BY <2>3, <2>4
<1>8. QED
  BY <1>6, <1>7

\* The revision admit assigns is new or unchanged, and no higher than the
\* number of contents the row went through.
LEMMA NextRevBound ==
    ASSUME IInv, NEW t \in Texts, t \in Present
    PROVE  NextRev(t) \in 1..MaxVer /\ rev[t] <= NextRev(t) /\ NextRev(t) <= row[t].ver
<1> USE Parameters
<1>1. TypeOK /\ Numbers
  BY DEF IInv
<1>2. row[t].ver \in 1..MaxVer /\ rev[t] \in 0..MaxVer /\ hash[t] \in 0..MaxVer
  BY <1>1 DEF TypeOK, Rows, Present
<1>3. rev[t] <= hash[t] /\ hash[t] <= row[t].ver
  BY <1>1, <1>2 DEF Numbers
<1>4. QED
  BY <1>2, <1>3 DEF NextRev

LEMMA AdmitKeeps ==
    ASSUME IInv, NEW t \in Texts, NEW seeded, admit(t, seeded),
           UNCHANGED <<row, top, paired, bound, base, cursor, high, stopped, deleted,
                       alive, dirty, opened, up, toPhone, store>>,
           pending' \subseteq Texts, work' \in Works,
           work'.resend \subseteq work.resend, work'.tick \subseteq work.tick,
           work'.drain \subseteq work.drain
    PROVE  IInv'
<1> USE Parameters
<1>1. TypeOK /\ SlotsKnown /\ WorkKnown /\ Numbers
  BY DEF IInv
<1>2. CASE Passed(t, seeded)
  <2>1. UNCHANGED <<rev, hash, slot, toPc, faults>>
    BY <1>2 DEF admit
  <2>2. UNCHANGED core
    BY <2>1 DEF core, store
  <2>3. TypeOK'
    BY <1>1, <2>1 DEF TypeOK, store
  <2>4. WorkKnown'
    BY <1>1, <2>1 DEF WorkKnown
  <2>5. QED
    BY <2>2, <2>3, <2>4, Quiet
<1>3. CASE ~Passed(t, seeded)
  <2> DEFINE s == Admitted(t)
             r == NextRev(t)
             m == Event(t, r, row[t].ver)
  <2>1. /\ rev' = [rev EXCEPT ![t] = r] /\ hash' = [hash EXCEPT ![t] = row[t].ver]
        /\ \/ slot' = [slot EXCEPT ![t] = s] /\ UNCHANGED <<toPc, faults>>
           \/ dispatch(t, s, m)
    BY <1>3 DEF admit
  <2>2. t \in Present
    BY <1>3 DEF Passed
  <2>3. r \in 1..MaxVer /\ rev[t] <= r /\ r <= row[t].ver
    BY <2>2, NextRevBound
  <2>4. row[t].ver \in 1..MaxVer /\ slot[t] \in Slots /\ hash[t] <= row[t].ver
    BY <1>1, <2>2 DEF TypeOK, Rows, Present, Numbers
  <2>5. s \in Slots /\ s.here /\ s.acked = slot[t].acked /\ ~s.dead
    <3>1. PICK c \in {"incomplete", "complete", "exhausted"} :
            s = [slot[t] EXCEPT !.here = TRUE, !.dead = FALSE, !.body = row[t].ver, !.comp = c]
      BY DEF Admitted
    <3>2. row[t].ver \in 0..MaxVer
      BY <2>4
    <3> HIDE DEF s
    <3>3. QED
      BY <2>4, <3>1, <3>2 DEF Slots
  <2>6. rev' \in [Texts -> 0..MaxVer] /\ hash' \in [Texts -> 0..MaxVer]
    BY <1>1, <2>1, <2>3, <2>4 DEF TypeOK
  <2>7. rev \in [Texts -> 0..MaxVer] /\ hash \in [Texts -> 0..MaxVer]
    BY <1>1 DEF TypeOK
  <2>8. \A u \in Texts \ {t} : rev'[u] = rev[u] /\ hash'[u] = hash[u]
    BY <2>1, <2>7
  <2>9. rev'[t] = r /\ hash'[t] = row[t].ver
    BY <2>1, <2>7
  <2>10. \A u \in Texts : rev[u] <= rev'[u]
    BY <2>3, <2>7, <2>8, <2>9
  <2>11. Numbers'
    BY <1>1, <2>3, <2>4, <2>8, <2>9 DEF Numbers, TypeOK, Present
  <2>12. m \in Frames
    BY <2>3, <2>4 DEF Event, Frames
  <2>13. m \in GoodFrames'
    BY <2>3, <2>9, <2>12 DEF GoodFrames, Event
  <2>14. toPc \in Seq(GoodFrames')
    BY <2>6, <2>10, GoodFramesGrow
  <2> HIDE DEF s, r, m
  <2>15. /\ slot' \in [Texts -> Slots] /\ \A u \in Texts \ {t} : slot'[u] = slot[u]
         /\ slot'[t].here /\ slot'[t].acked = s.acked /\ slot'[t].dead = s.dead
         /\ toPc' \in Seq(GoodFrames') /\ faults' \in 0..MaxFaults
    <3>1. CASE slot' = [slot EXCEPT ![t] = s] /\ UNCHANGED <<toPc, faults>>
      BY <1>1, <2>5, <2>14, <3>1 DEF TypeOK
    <3>2. CASE dispatch(t, s, m)
      BY <1>1, <2>5, <2>13, <2>14, <3>2, DispatchEffect
    <3>3. QED
      BY <2>1, <3>1, <3>2
  <2>16. TypeOK'
    <3>1. GoodFrames' \subseteq Frames
      BY DEF GoodFrames, Frames
    <3>2. toPc' \in Seq(Frames)
      BY <3>1, <2>15, SeqGrows
    <3>3. QED
      BY <1>1, <2>6, <2>15, <3>2 DEF TypeOK, store
  <2>17. WorkKnown'
    <3>1. SUFFICES ASSUME NEW u \in work'.resend \union work'.tick \union work'.drain
                   PROVE  slot'[u].here
      BY DEF WorkKnown
    <3>2. u \in Texts /\ slot[u].here
      BY <1>1 DEF WorkKnown, TypeOK, Works
    <3>3. QED
      BY <2>15, <3>2
  <2>18. rev[t] <= rev'[t] /\ rev'[t] > 0
    BY <2>3, <2>9
  <2>19. QED
    BY <2>5, <2>8, <2>11, <2>14, <2>15, <2>16, <2>17, <2>18, SlotStep DEF store
<1>4. QED
  BY <1>2, <1>3

LEMMA SeedKeeps == ASSUME IInv, seedStep PROVE IInv'
<1> DEFINE t == Lowest(work.seed)
<1>1. work \in Works /\ work.seed \subseteq Texts
  BY DEF IInv, TypeOK, Works
<1>2. t \in Texts
  BY <1>1, LowestIn DEF seedStep
<1>3. /\ work' = [work EXCEPT !.seed = @ \ {t}] /\ admit(t, TRUE) /\ pending' = {}
      /\ UNCHANGED <<provider, paired, bound, base, cursor, high, stopped, deleted,
                     alive, dirty, opened, up, toPhone, store>>
  BY DEF seedStep
<1>4. /\ work' \in Works /\ work'.resend = work.resend
      /\ work'.tick = work.tick /\ work'.drain = work.drain
  BY <1>1, <1>3 DEF Works
<1> HIDE DEF t
<1>5. QED
  BY <1>2, <1>3, <1>4, AdmitKeeps DEF provider

LEMMA AdmitStepKeeps == ASSUME IInv, admitStep PROVE IInv'
<1> DEFINE t == Lowest(work.admit)
<1>1. work \in Works /\ work.admit \subseteq Texts /\ pending \subseteq Texts
  BY DEF IInv, TypeOK, Works
<1>2. t \in Texts
  BY <1>1, LowestIn DEF admitStep
<1>3. /\ work' = [work EXCEPT !.admit = @ \ {t}] /\ admit(t, FALSE)
      /\ UNCHANGED <<provider, paired, bound, base, cursor, high, stopped, pending, deleted,
                     alive, dirty, opened, up, toPhone, store>>
  BY DEF admitStep
<1>4. /\ work' \in Works /\ work'.resend = work.resend
      /\ work'.tick = work.tick /\ work'.drain = work.drain
  BY <1>1, <1>3 DEF Works
<1> HIDE DEF t
<1>5. QED
  BY <1>1, <1>2, <1>3, <1>4, AdmitKeeps DEF provider

\* A scan and the start of a drain only choose what is done next.
LEMMA ScanKeeps == ASSUME IInv, scanStep PROVE IInv'
<1> USE Parameters
<1>1. TypeOK /\ WorkKnown
  BY DEF IInv
<1>2. UNCHANGED core
  BY DEF scanStep, core, provider, link, store
<1>3. PICK A \in SUBSET Present : work' = [work EXCEPT !.scan = FALSE, !.admit = A]
  BY DEF scanStep, batch, TakeLowest
<1>4. work \in Works /\ A \subseteq Texts
  BY <1>1 DEF TypeOK, Present
<1>5. /\ work' \in Works /\ work'.resend = work.resend
      /\ work'.tick = work.tick /\ work'.drain = work.drain
  BY <1>3, <1>4 DEF Works
<1>6. high' \in 0..LastId /\ stopped' \in BOOLEAN
  BY <1>1, MaxIdType DEF scanStep, TypeOK
<1>7. TypeOK'
  BY <1>1, <1>5, <1>6 DEF scanStep, TypeOK, provider, link, store
<1>8. WorkKnown'
  BY <1>1, <1>2, <1>5 DEF WorkKnown, core
<1>9. QED
  BY <1>2, <1>7, <1>8, Quiet

LEMMA DrainStartKeeps == ASSUME IInv, drainStart PROVE IInv'
<1>1. TypeOK /\ WorkKnown
  BY DEF IInv
<1>2. UNCHANGED core
  BY DEF drainStart, core, provider, books, link, store
<1>3. /\ work' \in Works /\ work'.resend = {}
      /\ work'.tick = {} /\ work'.drain = Waiting
  BY DEF drainStart, Works, Idle, Waiting
<1>4. TypeOK'
  BY <1>1, <1>3 DEF drainStart, TypeOK, provider, books, link, store
<1>5. WorkKnown'
  BY <1>2, <1>3 DEF WorkKnown, Waiting, core
<1>6. QED
  BY <1>2, <1>4, <1>5, Quiet

-----------------------------------------------------------------------------
(* The ack, the PC, the provider and the faults.                           *)

Landed(f, t) == [f EXCEPT ![t].fly = FALSE, ![t].acked = TRUE]

\* What an ack does to the slot it names.
LEMMA Acknowledged ==
    ASSUME NEW f \in [Texts -> Slots], NEW t \in Texts
    PROVE  /\ Landed(f, t) \in [Texts -> Slots]
           /\ \A u \in Texts \ {t} : Landed(f, t)[u] = f[u]
           /\ Landed(f, t)[t].here = f[t].here /\ Landed(f, t)[t].acked
           /\ Landed(f, t)[t].dead = f[t].dead
<1> DEFINE g == Landed(f, t)
           landed == [f EXCEPT ![t] = [@ EXCEPT !.fly = FALSE]]
<1>1. [f[t] EXCEPT !.fly = FALSE] \in Slots
  BY DEF Slots
<1>2. landed \in [Texts -> Slots] /\ landed[t] = [f[t] EXCEPT !.fly = FALSE]
  BY <1>1
<1>3. \A u \in Texts \ {t} : landed[u] = f[u]
  OBVIOUS
<1>4. g = [landed EXCEPT ![t] = [@ EXCEPT !.acked = TRUE]]
  BY <1>2 DEF Landed
<1> HIDE DEF landed, g
<1>5. [landed[t] EXCEPT !.acked = TRUE] \in Slots
  BY <1>2 DEF Slots
<1>6. g \in [Texts -> Slots] /\ g[t] = [landed[t] EXCEPT !.acked = TRUE]
  BY <1>2, <1>4, <1>5
<1>7. \A u \in Texts \ {t} : g[u] = f[u]
  BY <1>2, <1>3, <1>4
<1>8. g[t].here = f[t].here /\ g[t].acked /\ g[t].dead = f[t].dead
  BY <1>2, <1>6 DEF Slots
<1>9. QED
  BY <1>6, <1>7, <1>8 DEF g

\* An ack settles its slot, and the wire shows that the PC has the text.
LEMMA AckKeeps == ASSUME IInv, onAck PROVE IInv'
<1> USE Parameters
<1>1. TypeOK /\ SlotsKnown /\ Numbers /\ WireKnown /\ PcNeverAhead /\ NothingLost
  BY DEF IInv
<1> DEFINE a == Head(toPhone)
           t == a.text
           done == [slot EXCEPT ![t].fly = FALSE, ![t].acked = TRUE]
<1>2. toPhone # <<>> /\ toPhone \in Seq(GoodAcks) /\ toPhone' = Tail(toPhone)
  BY <1>1 DEF onAck, WireKnown
<1>3. a \in GoodAcks /\ toPhone' \in Seq(GoodAcks)
  BY <1>2, HeadTailProperties
<1>4. t \in Texts /\ (Answered(t) \/ t \in deleted)
  BY <1>3 DEF GoodAcks, Acks
<1>5. PICK at \in 0..LastId :
        /\ slot' = slot \/ (slot[t].here /\ slot' = prune(done, at))
        /\ cursor' = cursor \/ cursor' = at
  <2>1. cursor \in 0..LastId /\ t \in 0..LastId
    BY <1>1, <1>4 DEF TypeOK, Texts
  <2>2. QED
    BY <2>1 DEF onAck
<1>6. deleted \subseteq deleted' /\ deleted' \subseteq Texts
  <2>1. deleted' = deleted \/ deleted' = deleted \union {t}
    BY DEF onAck
  <2>2. QED
    BY <1>1, <1>4, <2>1 DEF TypeOK
<1>7. work' = [Idle EXCEPT !.todrain = TRUE]
      /\ UNCHANGED <<provider, paired, bound, base, high, stopped, pending, rev, hash,
                     alive, dirty, opened, up, toPc, store, faults>>
  BY DEF onAck
<1>8. slot \in [Texts -> Slots]
  BY <1>1 DEF TypeOK
<1>9. /\ slot' \in [Texts -> Slots]
      /\ \A u \in Texts :
           \/ slot'[u] = slot[u] \/ slot'[u] = Blank
           \/ /\ u = t /\ slot[u].here /\ slot'[u].here /\ slot'[u].dead = slot[u].dead
              /\ slot'[u].acked
      /\ \A u \in Texts \ {t} : slot'[u] = Blank => slot[u] = Blank \/ slot[u].acked
  <2>1. CASE slot' = slot
    BY <1>8, <2>1
  <2>2. CASE slot[t].here /\ slot' = prune(done, at)
    <3>1. /\ done \in [Texts -> Slots] /\ \A u \in Texts \ {t} : done[u] = slot[u]
          /\ done[t].here /\ done[t].acked /\ done[t].dead = slot[t].dead
      <4>1. done = Landed(slot, t)
        BY DEF Landed
      <4> HIDE DEF done, t
      <4>2. QED
        BY <1>4, <1>8, <2>2, <4>1, Acknowledged
    <3>3. Blank \in Slots
      BY DEF Blank, Slots
    <3> HIDE DEF done, t
    <3>4. QED
      BY <1>4, <2>2, <3>1, <3>3 DEF prune
  <2>3. QED
    BY <1>5, <2>1, <2>2
<1> HIDE DEF a, t, done
<1>10. TypeOK'
  <2>1. work' \in Works
    BY <1>7 DEF Works, Idle
  <2>2. toPhone' \in Seq(Acks)
    <3>1. GoodAcks \subseteq Acks
      BY DEF GoodAcks
    <3>2. QED
      BY <1>3, <3>1, SeqGrows
  <2>3. cursor' \in 0..LastId
    BY <1>1, <1>5 DEF TypeOK
  <2>4. QED
    BY <1>1, <1>6, <1>7, <1>9, <2>1, <2>2, <2>3 DEF TypeOK, provider, store
<1>11. Numbers'
  BY <1>1, <1>7 DEF Numbers, provider
<1>12. SlotsKnown'
  <2>1. \A u \in Texts : rev'[u] = rev[u]
    BY <1>7
  <2>2. QED
    BY <1>1, <1>6, <1>9, <2>1 DEF SlotsKnown, Blank
<1>13. WorkKnown'
  BY <1>7 DEF WorkKnown, Idle
<1>14. WireKnown'
  <2>1. toPc' \in Seq(GoodFrames')
    <3>1. GoodFrames \subseteq GoodFrames'
      BY <1>6, <1>7 DEF GoodFrames
    <3>2. QED
      BY <1>1, <1>7, <3>1, SeqGrows DEF WireKnown
  <2>2. GoodAcks \subseteq GoodAcks'
    BY <1>6, <1>7 DEF GoodAcks, Answered, store
  <2>3. QED
    BY <1>3, <2>1, <2>2, SeqGrows DEF WireKnown
<1>15. PcNeverAhead'
  BY <1>1, <1>7 DEF PcNeverAhead, store
<1>16. NothingLost'
  <2>1. SUFFICES ASSUME NEW u \in Texts, Settled(u)' PROVE Answered(u)' \/ u \in deleted'
    BY DEF NothingLost
  <2>2. Answered(u)' = Answered(u) /\ rev'[u] = rev[u]
    BY <1>7 DEF Answered, store
  <2>3. CASE u = t
    BY <1>4, <1>6, <2>2, <2>3
  <2>4. CASE u # t
    <3>1. slot'[u] = slot[u] \/ slot[u].acked
      BY <1>9, <2>4
    <3>2. Settled(u)
      BY <2>1, <2>2, <3>1 DEF Settled
    <3>3. QED
      BY <1>1, <1>6, <2>2, <3>2 DEF NothingLost
  <2>5. QED
    BY <2>3, <2>4
<1>17. QED
  BY <1>10, <1>11, <1>12, <1>13, <1>14, <1>15, <1>16 DEF IInv

\* After ingest the PC holds the text, or the frame only said that it is gone.
LEMMA IngestEffect ==
    ASSUME IInv, NEW m \in GoodFrames, ingest(m), tomb' = tomb, refused' = refused
    PROVE  /\ item' \in [Texts -> [rev : 0..MaxVer, ver : 0..MaxVer]]
           /\ \A u \in Texts : /\ item[u].rev <= item'[u].rev /\ item'[u].rev <= rev[u]
                               /\ item'[u] = item[u] \/
                                    (u \notin tomb /\ item[u].rev < item'[u].rev)
           /\ \A u \in Texts \ {m.text} : item'[u] = item[u]
           /\ Answered(m.text)' \/ m.text \in deleted
<1> USE Parameters
<1>1. /\ item \in [Texts -> [rev : 0..MaxVer, ver : 0..MaxVer]]
      /\ rev \in [Texts -> 0..MaxVer]
      /\ \A u \in Texts : item[u].rev <= rev[u]
  BY DEF IInv, TypeOK, PcNeverAhead
<1>2. /\ m.text \in Texts /\ m.rev \in 0..MaxVer /\ m.ver \in 0..MaxVer
      /\ m.rev <= rev[m.text] /\ m.kind \in {"event", "deleted"}
      /\ m.kind = "event" => m.rev > 0
      /\ m.kind = "deleted" => m.text \in deleted
  BY DEF GoodFrames, Frames
<1> DEFINE t == m.text
<1>3. CASE m.kind = "deleted" \/ t \in tomb \/ (item[t].rev > 0 /\ m.rev <= item[t].rev)
  <2>1. item' = item
    BY <1>3 DEF ingest
  <2>2. \A u \in Texts : item[u].rev <= item[u].rev
    BY <1>1
  <2>3. Answered(t)' \/ t \in deleted
    BY <1>2, <1>3, <2>1 DEF Answered
  <2>4. QED
    BY <1>1, <2>1, <2>2, <2>3
<1>4. CASE ~(m.kind = "deleted" \/ t \in tomb \/ (item[t].rev > 0 /\ m.rev <= item[t].rev))
  <2>1. PICK v \in 0..MaxVer : item' = [item EXCEPT ![t] = [rev |-> m.rev, ver |-> v]]
    <3>1. item[t].ver \in 0..MaxVer
      BY <1>1, <1>2
    <3>2. QED
      BY <1>2, <1>4, <3>1 DEF ingest
  <2>2. [rev |-> m.rev, ver |-> v] \in [rev : 0..MaxVer, ver : 0..MaxVer]
    BY <1>2
  <2>3. item[t].rev \in Nat /\ m.rev \in Nat /\ m.rev > 0 /\ item[t].rev < m.rev
    <3>1. item[t].rev \in 0..MaxVer
      BY <1>1, <1>2
    <3>2. QED
      BY <1>2, <1>4, <3>1
  <2>4. /\ item' \in [Texts -> [rev : 0..MaxVer, ver : 0..MaxVer]]
        /\ \A u \in Texts \ {t} : item'[u] = item[u]
        /\ item'[t].rev = m.rev
    BY <1>1, <1>2, <2>1, <2>2
  <2>5. \A u \in Texts \ {t} : item[u].rev <= item'[u].rev /\ item'[u].rev <= rev[u]
    BY <1>1, <2>4
  <2>6. item[t].rev <= item'[t].rev /\ item'[t].rev <= rev[t] /\ item[t].rev < item'[t].rev
    BY <1>2, <2>3, <2>4
  <2>7. Answered(t)'
    BY <2>3, <2>4 DEF Answered
  <2>8. QED
    BY <1>4, <2>4, <2>5, <2>6, <2>7
<1>5. QED
  BY <1>3, <1>4

\* The PC commits and acks, or commits and dies.
LEMMA ReceiveKeeps == ASSUME IInv, pcReceive \/ pcDies PROVE IInv'
<1> USE Parameters
<1>1. TypeOK /\ SlotsKnown /\ Numbers /\ WorkKnown /\ WireKnown /\ NothingLost
  BY DEF IInv
<1>2. toPc # <<>> /\ toPc \in Seq(GoodFrames) /\ ingest(Head(toPc))
  BY <1>1 DEF WireKnown, pcReceive, pcDies
<1>3. Head(toPc) \in GoodFrames /\ Tail(toPc) \in Seq(GoodFrames)
  BY <1>2, HeadTailProperties
<1>3a. PICK m \in GoodFrames : m = Head(toPc)
  BY <1>3
<1>4. /\ UNCHANGED <<row, top, paired, bound, base, cursor, high, stopped, pending, rev, hash,
                     slot, deleted, alive, dirty, opened, work, tomb, purged, refused>>
      /\ up' \in BOOLEAN /\ faults' \in 0..MaxFaults
  <2>1. CASE pcReceive
    BY <1>1, <2>1 DEF pcReceive, TypeOK, provider, books, process
  <2>2. CASE pcDies
    <3>1. faults \in 0..MaxFaults /\ faults < MaxFaults /\ faults' = faults + 1 /\ up' = FALSE
      BY <1>1, <2>2 DEF pcDies, TypeOK
    <3>2. faults' \in 0..MaxFaults
      BY <3>1
    <3>3. up' \in BOOLEAN
      BY <3>1
    <3>4. QED
      BY <2>2, <3>2, <3>3 DEF pcDies, provider, books, process
  <2>3. QED
    BY <2>1, <2>2
<1>4a. \/ toPc' = Tail(toPc) /\ toPhone' = Append(toPhone, Ack(m))
       \/ toPc' = <<>> /\ toPhone' = <<>>
  BY <1>3a DEF pcReceive, pcDies
<1>5. m.text \in Texts /\ Ack(m) \in Acks
  BY DEF GoodFrames, Frames, Acks, Ack
<1>5a. tomb' = tomb
  BY <1>4
<1>6. /\ item' \in [Texts -> [rev : 0..MaxVer, ver : 0..MaxVer]]
      /\ \A u \in Texts : item[u].rev <= item'[u].rev /\ item'[u].rev <= rev[u]
      /\ Answered(m.text)' \/ m.text \in deleted
  BY <1>2, <1>3a, <1>4, <1>5a, IngestEffect
<1>7. \A u \in Texts : Answered(u) => Answered(u)'
  <2>1. \A u \in Texts : item[u].rev \in Nat /\ item'[u].rev \in Nat
    BY <1>1, <1>6 DEF TypeOK
  <2>2. QED
    BY <1>4, <1>6, <2>1 DEF Answered
<1>8. GoodFrames' = GoodFrames /\ GoodFrames \subseteq Frames
  BY <1>4 DEF GoodFrames
<1>9. toPc' \in Seq(GoodFrames)
  BY <1>3, <1>4a, EmptySeq
<1>10. GoodAcks \subseteq GoodAcks' /\ GoodAcks' \subseteq Acks
  BY <1>4, <1>7 DEF GoodAcks, Acks
<1>11. toPhone' \in Seq(GoodAcks')
  <2>1. Ack(m) \in GoodAcks'
    <3>1. Ack(m).text = m.text
      BY DEF Ack
    <3>2. QED
      BY <1>4, <1>5, <1>6, <3>1 DEF GoodAcks, Answered
  <2>2. toPhone \in Seq(GoodAcks')
    BY <1>1, <1>10, SeqGrows DEF WireKnown
  <2>3. QED
    <3>1. Append(toPhone, Ack(m)) \in Seq(GoodAcks')
      BY <2>1, <2>2, AppendProperties
    <3>2. <<>> \in Seq(GoodAcks')
      BY EmptySeq
    <3>3. QED
      BY <1>4a, <3>1, <3>2
<1>12. toPc' \in Seq(Frames) /\ toPhone' \in Seq(Acks)
  BY <1>8, <1>9, <1>10, <1>11, SeqGrows
<1>13. TypeOK'
  BY <1>1, <1>4, <1>6, <1>12 DEF TypeOK
<1>14. Numbers' /\ SlotsKnown' /\ WorkKnown'
  BY <1>1, <1>4 DEF Numbers, SlotsKnown, WorkKnown
<1>15. WireKnown'
  BY <1>8, <1>9, <1>11 DEF WireKnown
<1>16. PcNeverAhead'
  BY <1>4, <1>6 DEF PcNeverAhead
<1>17. NothingLost'
  BY <1>1, <1>4, <1>7 DEF NothingLost, Settled
<1>18. QED
  BY <1>13, <1>14, <1>15, <1>16, <1>17 DEF IInv

\* The PC rejects a payload: nothing of the store changes, and the ack says so.
LEMMA RefuseKeeps == ASSUME IInv, pcRefuse PROVE IInv'
<1> USE Parameters
<1>1. TypeOK /\ SlotsKnown /\ Numbers /\ WorkKnown /\ WireKnown /\ PcNeverAhead /\ NothingLost
  BY DEF IInv
<1>2. /\ UNCHANGED <<row, top, paired, bound, base, cursor, high, stopped, pending, rev, hash,
                     slot, deleted, alive, dirty, opened, work, up, item, tomb, purged, faults>>
      /\ toPc # <<>> /\ toPc' = Tail(toPc)
  BY DEF pcRefuse, provider, books, process
<1>3. toPc \in Seq(GoodFrames) /\ toPhone \in Seq(GoodAcks)
  BY <1>1 DEF WireKnown
<1>4. PICK m \in GoodFrames : m = Head(toPc)
  BY <1>2, <1>3, HeadTailProperties
<1>5. toPc' \in Seq(GoodFrames)
  BY <1>2, <1>3, HeadTailProperties
<1>6. refused' = refused \union {m.text} /\ toPhone' = Append(toPhone, Ack(m))
  BY <1>4 DEF pcRefuse
<1>7. m.text \in Texts /\ Ack(m) \in Acks /\ Ack(m).text = m.text
  BY DEF GoodFrames, Frames, Acks, Ack
<1>8. \A u \in Texts : Answered(u) => Answered(u)'
  BY <1>2, <1>6 DEF Answered
<1>9. GoodFrames' = GoodFrames /\ GoodFrames \subseteq Frames
  BY <1>2 DEF GoodFrames
<1>10. GoodAcks \subseteq GoodAcks' /\ GoodAcks' \subseteq Acks
  BY <1>2, <1>8 DEF GoodAcks, Acks
<1>11. toPhone' \in Seq(GoodAcks')
  <2>1. Ack(m) \in GoodAcks'
    BY <1>6, <1>7 DEF GoodAcks, Answered
  <2>2. toPhone \in Seq(GoodAcks')
    BY <1>3, <1>10, SeqGrows
  <2>3. QED
    BY <1>6, <2>1, <2>2, AppendProperties
<1>12. toPc' \in Seq(Frames) /\ toPhone' \in Seq(Acks)
  BY <1>5, <1>9, <1>10, <1>11, SeqGrows
<1>13. refused' \subseteq Texts
  BY <1>1, <1>6, <1>7 DEF TypeOK
<1>14. TypeOK'
  BY <1>1, <1>2, <1>12, <1>13 DEF TypeOK
<1>15. Numbers' /\ SlotsKnown' /\ WorkKnown' /\ PcNeverAhead'
  BY <1>1, <1>2 DEF Numbers, SlotsKnown, WorkKnown, PcNeverAhead
<1>16. WireKnown'
  BY <1>5, <1>9, <1>11 DEF WireKnown
<1>17. NothingLost'
  BY <1>1, <1>2, <1>8 DEF NothingLost, Settled
<1>18. QED
  BY <1>14, <1>15, <1>16, <1>17 DEF IInv

\* Forgetting leaves a tombstone and a purge leaves the row.
LEMMA PurgeKeeps == ASSUME IInv, NEW t \in Texts, pcForget(t) \/ pcPurge(t) PROVE IInv'
<1> USE Parameters
<1>1. TypeOK /\ SlotsKnown /\ Numbers /\ WorkKnown /\ WireKnown /\ PcNeverAhead /\ NothingLost
  BY DEF IInv
<1>2. item \in [Texts -> [rev : 0..MaxVer, ver : 0..MaxVer]] /\ rev \in [Texts -> 0..MaxVer]
  BY <1>1 DEF TypeOK
<1>3. UNCHANGED <<provider, books, process, link, refused, faults>>
  BY DEF pcForget, pcPurge
<1>4. /\ item' \in [Texts -> [rev : 0..MaxVer, ver : 0..MaxVer]]
      /\ tomb' \subseteq Texts /\ purged' \subseteq Texts
      /\ \A u \in Texts : item'[u].rev <= item[u].rev
      /\ \A u \in Texts : Answered(u) => Answered(u)'
  <2>1. CASE pcForget(t)
    <3>1. /\ item' = [item EXCEPT ![t] = NoItem] /\ tomb' = tomb \union {t}
          /\ purged' = purged \ {t}
      BY <2>1 DEF pcForget
    <3>2. NoItem \in [rev : 0..MaxVer, ver : 0..MaxVer] /\ NoItem.rev = 0
      BY DEF NoItem
    <3>3. \A u \in Texts : item[u].rev \in Nat
      BY <1>2
    <3>4. QED
      BY <1>1, <1>2, <1>3, <3>1, <3>2, <3>3 DEF TypeOK, Answered
  <2>2. CASE pcPurge(t)
    <3>1. /\ item' = [item EXCEPT ![t].ver = 0] /\ tomb' = tomb /\ purged' = purged \union {t}
      BY <2>2 DEF pcPurge
    <3>2. \A u \in Texts : item'[u].rev = item[u].rev /\ item[u].rev \in Nat
      BY <1>2, <3>1
    <3>3. item' \in [Texts -> [rev : 0..MaxVer, ver : 0..MaxVer]]
      BY <1>2, <3>1
    <3>4. QED
      BY <1>1, <1>3, <3>1, <3>2, <3>3 DEF TypeOK, Answered
  <2>3. QED
    BY <2>1, <2>2
<1>5. TypeOK'
  BY <1>1, <1>3, <1>4 DEF TypeOK, provider, books, process, link
<1>6. Numbers' /\ SlotsKnown' /\ WorkKnown'
  BY <1>1, <1>3 DEF Numbers, SlotsKnown, WorkKnown, provider, books, process
<1>7. WireKnown'
  <2>1. GoodFrames' = GoodFrames
    BY <1>3 DEF GoodFrames, books
  <2>2. GoodAcks \subseteq GoodAcks'
    BY <1>3, <1>4 DEF GoodAcks, Acks, books
  <2>3. QED
    BY <1>1, <1>3, <2>1, <2>2, SeqGrows DEF WireKnown, link
<1>8. PcNeverAhead'
  <2>1. \A u \in Texts : item[u].rev \in Nat /\ item'[u].rev \in Nat /\ rev[u] \in Nat
    BY <1>2, <1>4
  <2>2. QED
    BY <1>1, <1>3, <1>4, <2>1 DEF PcNeverAhead, books
<1>9. NothingLost'
  BY <1>1, <1>3, <1>4 DEF NothingLost, Settled, books
<1>10. QED
  BY <1>5, <1>6, <1>7, <1>8, <1>9 DEF IInv

\* The provider: rows come, change, age and go; a slot ripens.
LEMMA ProviderKeeps ==
    ASSUME IInv, Arrive \/ Touch \/ \E t \in Texts : Change(t) \/ Delete(t) \/ Backdate(t)
    PROVE  IInv'
<1> USE Parameters
<1>1. TypeOK /\ SlotsKnown /\ Numbers /\ WorkKnown /\ WireKnown /\ PcNeverAhead /\ NothingLost
  BY DEF IInv
<1>2. /\ UNCHANGED <<paired, bound, base, cursor, high, stopped, pending, rev, hash, slot,
                     deleted, opened, work, alive, up, toPc, toPhone, item, tomb, purged, refused,
                     faults>>
      /\ dirty' \in BOOLEAN
  BY <1>1 DEF Arrive, Touch, Change, Delete, Backdate, books, process, link, store, TypeOK
<1>3. row \in [Texts -> Rows] /\ top \in 0..LastId /\ hash \in [Texts -> 0..MaxVer]
  BY <1>1 DEF TypeOK
<1>4. /\ row' \in [Texts -> Rows] /\ top' \in 0..LastId /\ Numbers'
  <2>1. ASSUME Arrive PROVE row' \in [Texts -> Rows] /\ top' \in 0..LastId /\ Numbers'
    <3>1. PICK w \in BOOLEAN, c \in {"in", "aside"} :
            row' = [row EXCEPT ![top + 1] = [ver |-> 1, whole |-> w, class |-> c]]
      BY <2>1 DEF Arrive
    <3>2. top < LastId /\ top' = top + 1 /\ top + 1 \in Texts
      BY <1>3, <2>1 DEF Arrive, Texts
    <3>3. [ver |-> 1, whole |-> w, class |-> c] \in Rows
      BY DEF Rows
    <3>4. row' \in [Texts -> Rows] /\ top' \in 0..LastId
      BY <1>3, <3>1, <3>2, <3>3
    <3>5. hash[top + 1] = 0 /\ row'[top + 1].ver = 1
      BY <1>1, <1>3, <3>1, <3>2 DEF Numbers
    <3>6. \A u \in Texts : u # top + 1 => row'[u] = row[u]
      BY <1>3, <3>1
    <3>7. ASSUME NEW u \in Texts
          PROVE  /\ rev'[u] <= hash'[u]
                 /\ row'[u].ver > 0 => hash'[u] <= row'[u].ver
                 /\ u > top' => hash'[u] = 0 /\ row'[u].ver = 0
      <4>1. u \in Nat /\ top \in Nat
        BY <1>3 DEF Texts
      <4>2. /\ rev[u] <= hash[u] /\ (row[u].ver > 0 => hash[u] <= row[u].ver)
            /\ u > top => hash[u] = 0 /\ row[u].ver = 0
        BY <1>1 DEF Numbers
      <4>3. QED
        BY <1>2, <3>2, <3>5, <3>6, <4>1, <4>2
    <3>8. QED
      BY <3>4, <3>7 DEF Numbers
  <2>2. ASSUME NEW t \in Texts, Change(t)
        PROVE  row' \in [Texts -> Rows] /\ top' \in 0..LastId /\ Numbers'
    <3>1. PICK w \in BOOLEAN : row' = [row EXCEPT ![t] = [ver |-> row[t].ver + 1, whole |-> w, class |-> row[t].class]]
      BY <2>2 DEF Change
    <3>2. row[t].ver \in 1..MaxVer /\ row[t].ver < MaxVer /\ top' = top
      BY <1>3, <2>2 DEF Change, Present, Rows
    <3>3. /\ row' \in [Texts -> Rows] /\ row'[t].ver = row[t].ver + 1
          /\ \A u \in Texts \ {t} : row'[u] = row[u]
      <4>1. row[t].class \in {"in", "aside"} /\ row[t].ver + 1 \in 0..MaxVer
        BY <1>3, <3>2 DEF Rows
      <4>2. [ver |-> row[t].ver + 1, whole |-> w, class |-> row[t].class] \in Rows
        BY <4>1 DEF Rows
      <4>3. QED
        BY <1>3, <3>1, <4>2
    <3>4. hash[t] \in Nat /\ hash[t] <= row[t].ver /\ ~(t > top)
      BY <1>1, <1>3, <3>2 DEF Numbers
    <3>5. hash[t] <= row'[t].ver
      BY <3>2, <3>3, <3>4
    <3>6. QED
      BY <1>1, <1>2, <1>3, <3>2, <3>3, <3>4, <3>5 DEF Numbers
  <2>3. ASSUME NEW t \in Texts, Delete(t) \/ Backdate(t)
        PROVE  row' \in [Texts -> Rows] /\ top' \in 0..LastId /\ Numbers'
    <3>1. top' = top /\ row' \in [Texts -> Rows] /\ (row'[t].ver = 0 \/ row'[t].ver = row[t].ver)
          /\ \A u \in Texts \ {t} : row'[u] = row[u]
      <4>1. CASE Delete(t)
        BY <1>3, <4>1 DEF Delete, NoRow, Rows
      <4>2. CASE Backdate(t)
        BY <1>3, <4>2 DEF Backdate, Rows, provider
      <4>3. QED
        BY <2>3, <4>1, <4>2
    <3>2. QED
      BY <1>1, <1>2, <1>3, <3>1 DEF Numbers
  <2>4. CASE Touch
    BY <1>1, <1>2, <1>3, <2>4 DEF Touch, provider, Numbers
  <2>5. QED
    BY <2>1, <2>2, <2>3, <2>4
<1>5. TypeOK'
  BY <1>1, <1>2, <1>4 DEF TypeOK
<1>6. SlotsKnown' /\ WorkKnown' /\ PcNeverAhead' /\ NothingLost'
  BY <1>1, <1>2 DEF SlotsKnown, WorkKnown, PcNeverAhead, NothingLost, Settled, Answered
<1>7. WireKnown'
  BY <1>1, <1>2 DEF WireKnown, GoodFrames, GoodAcks, Answered
<1>8. QED
  BY <1>4, <1>5, <1>6, <1>7 DEF IInv

\* Faults empty the wire; a death also loses the payloads built so far.
LEMMA FaultKeeps ==
    ASSUME IInv, connect \/ linkDrop \/ phoneDies \/ boot \/ pcLocked \/ (\E t \in Texts : Ripen(t))
    PROVE  IInv'
<1> USE Parameters
<1>1. TypeOK /\ SlotsKnown /\ Numbers /\ WorkKnown /\ WireKnown /\ PcNeverAhead /\ NothingLost
  BY DEF IInv
<1>2. UNCHANGED <<row, top, paired, bound, base, cursor, high, stopped, pending, rev, hash,
                  deleted, item, tomb, purged, refused>>
  BY DEF connect, linkDrop, phoneDies, boot, pcLocked, Ripen, provider, books, store
<1>3. /\ slot' \in [Texts -> Slots]
      /\ \A u \in Texts : /\ slot'[u].here = slot[u].here /\ slot'[u].fly = slot[u].fly
                          /\ slot'[u].acked = slot[u].acked /\ slot'[u].dead = slot[u].dead
  <2>1. slot \in [Texts -> Slots]
    BY <1>1 DEF TypeOK
  <2>2. CASE slot' = slot
    BY <2>1, <2>2
  <2>3. CASE phoneDies
    <3>1. slot' = [u \in Texts |-> [slot[u] EXCEPT !.body = 0]]
      BY <2>3 DEF phoneDies
    <3>2. \A s \in Slots : /\ [s EXCEPT !.body = 0] \in Slots
                          /\ [s EXCEPT !.body = 0].here = s.here
                          /\ [s EXCEPT !.body = 0].fly = s.fly
                          /\ [s EXCEPT !.body = 0].acked = s.acked
                          /\ [s EXCEPT !.body = 0].dead = s.dead
      BY DEF Slots
    <3>3. QED
      BY <2>1, <3>1, <3>2
  <2>4. ASSUME NEW t \in Texts, Ripen(t)
        PROVE  /\ slot' \in [Texts -> Slots]
               /\ \A u \in Texts : /\ slot'[u].here = slot[u].here /\ slot'[u].fly = slot[u].fly
                                   /\ slot'[u].acked = slot[u].acked /\ slot'[u].dead = slot[u].dead
    <3>1. slot' = [slot EXCEPT ![t] = [slot[t] EXCEPT !.ripe = TRUE]]
      BY <2>4 DEF Ripen
    <3>2. /\ [slot[t] EXCEPT !.ripe = TRUE] \in Slots
          /\ [slot[t] EXCEPT !.ripe = TRUE].here = slot[t].here
          /\ [slot[t] EXCEPT !.ripe = TRUE].fly = slot[t].fly
          /\ [slot[t] EXCEPT !.ripe = TRUE].acked = slot[t].acked
          /\ [slot[t] EXCEPT !.ripe = TRUE].dead = slot[t].dead
      BY <2>1 DEF Slots
    <3>3. QED
      BY <2>1, <3>1, <3>2
  <2>5. CASE connect \/ linkDrop \/ boot \/ pcLocked
    <3>1. slot' = slot
      BY <2>5 DEF connect, linkDrop, boot, pcLocked, books
    <3>2. QED
      BY <2>2, <3>1
  <2>6. QED
    BY <2>3, <2>4, <2>5
<1>4. /\ toPc' \in Seq(GoodFrames) /\ toPhone' \in Seq(GoodAcks)
      /\ work' \in Works /\ WorkKnown'
  <2>1. /\ toPc' = toPc \/ toPc' = <<>> \/ (toPc # <<>> /\ toPc' = Tail(toPc))
        /\ toPhone' = toPhone \/ toPhone' = <<>>
    BY DEF connect, linkDrop, phoneDies, boot, pcLocked, Ripen, link
  <2>2. toPc \in Seq(GoodFrames) /\ toPhone \in Seq(GoodAcks)
    BY <1>1 DEF WireKnown
  <2>3. toPc # <<>> => Tail(toPc) \in Seq(GoodFrames)
    BY <2>2, HeadTailProperties
  <2>4. work' = work \/ work' = Idle \/ work' = [Idle EXCEPT !.scan = paired]
    BY DEF connect, linkDrop, phoneDies, boot, pcLocked, Ripen, process
  <2>5. work \in Works /\ Idle \in Works /\ [Idle EXCEPT !.scan = paired] \in Works
    BY <1>1 DEF TypeOK, Idle, Works
  <2>6. WorkKnown'
    <3>1. CASE work' = work
      BY <1>1, <1>3, <3>1 DEF WorkKnown, TypeOK, Works
    <3>2. CASE work' = Idle \/ work' = [Idle EXCEPT !.scan = paired]
      BY <3>2 DEF WorkKnown, Idle
    <3>3. QED
      BY <2>4, <3>1, <3>2
  <2>7. QED
    BY <2>1, <2>2, <2>3, <2>4, <2>5, <2>6, EmptySeq
<1>5. GoodFrames' = GoodFrames /\ GoodAcks' = GoodAcks
  BY <1>2 DEF GoodFrames, GoodAcks, Answered
<1>6. TypeOK'
  <2>1. toPc' \in Seq(Frames) /\ toPhone' \in Seq(Acks)
    <3>1. GoodFrames \subseteq Frames /\ GoodAcks \subseteq Acks
      BY DEF GoodFrames, GoodAcks
    <3>2. QED
      BY <1>4, <3>1, SeqGrows
  <2>2. faults' \in 0..MaxFaults
    <3>1. faults \in 0..MaxFaults /\ (faults' = faults \/ (faults < MaxFaults /\ faults' = faults + 1))
      BY <1>1, Parameters DEF TypeOK, connect, linkDrop, phoneDies, boot, pcLocked, Ripen
    <3>2. QED
      BY <3>1
  <2>3. alive' \in BOOLEAN /\ dirty' \in BOOLEAN /\ opened' \in BOOLEAN /\ up' \in BOOLEAN
    BY <1>1 DEF TypeOK, connect, linkDrop, phoneDies, boot, pcLocked, Ripen, process, link
  <2>4. QED
    BY <1>1, <1>2, <1>3, <1>4, <2>1, <2>2, <2>3 DEF TypeOK
<1>7. Numbers' /\ PcNeverAhead'
  BY <1>1, <1>2 DEF Numbers, PcNeverAhead
<1>8. SlotsKnown' /\ NothingLost'
  BY <1>1, <1>2, <1>3 DEF SlotsKnown, NothingLost, Settled, Answered
<1>9. WireKnown'
  BY <1>4, <1>5 DEF WireKnown
<1>10. QED
  BY <1>4, <1>6, <1>7, <1>8, <1>9 DEF IInv

-----------------------------------------------------------------------------
(* The theorems. *)

LEMMA StepIInv == IInv /\ [Next]_vars => IInv'
<1> SUFFICES ASSUME IInv, [Next]_vars PROVE IInv'
  OBVIOUS
<1>1. CASE Arrive \/ Touch
  BY <1>1, ProviderKeeps
<1>2. ASSUME NEW t \in Texts, Change(t) \/ Delete(t) \/ Backdate(t) PROVE IInv'
  BY <1>2, ProviderKeeps
<1>3. ASSUME NEW t \in Texts, Ripen(t) PROVE IInv'
  BY <1>3, FaultKeeps
<1>4. CASE onAck
  BY <1>4, AckKeeps
<1>5. CASE Handler /\ ~onAck
  BY <1>5, HandlersQuiet
<1>6. CASE engineStep
  BY <1>6, ResendKeeps, SeedKeeps, ScanKeeps, AdmitStepKeeps, TickKeeps, DrainStartKeeps,
     DrainKeeps DEF engineStep
<1>7. CASE pcReceive \/ pcDies
  BY <1>7, ReceiveKeeps
<1>8. CASE pcLocked \/ connect \/ linkDrop \/ phoneDies \/ boot
  BY <1>8, FaultKeeps
<1>9. ASSUME NEW t \in Texts, pcForget(t) \/ pcPurge(t) PROVE IInv'
  BY <1>9, PurgeKeeps
<1>9a. CASE pcRefuse
  BY <1>9a, RefuseKeeps
<1>10. CASE UNCHANGED vars
  <2>1. UNCHANGED core /\ UNCHANGED vars
    BY <1>10 DEF core, vars, provider, books, process, link, store
  <2>2. TypeOK' /\ WorkKnown'
    BY <1>10 DEF IInv, TypeOK, WorkKnown, vars, provider, books, process, link, store
  <2>3. QED
    BY <2>1, <2>2, Quiet
<1>11. QED
  BY <1>1, <1>2, <1>3, <1>4, <1>5, <1>6, <1>7, <1>8, <1>9, <1>9a, <1>10 DEF Next

\* IInv holds in every state the link can reach.
THEOREM Invariance == Spec => []IInv
  BY InitIInv, StepIInv, PTL DEF Spec

\* The state stays well typed: no counter leaves its bound, and the wire holds
\* only frames and acks of known texts.
THEOREM TypeCorrect == Spec => []TypeOK
<1>1. IInv => TypeOK
  BY DEF IInv
<1>2. QED
  BY <1>1, Invariance, PTL

\* Whatever dies on the way, the phone stops tracking a text only when the PC
\* took it in, forgot it or said that it rejects it, or its row vanished (onAck,
\* prune, _ingest, _ingest_rejected).
THEOREM NoTextLost == Spec => []NothingLost
<1>1. IInv => NothingLost
  BY DEF IInv
<1>2. QED
  BY <1>1, Invariance, PTL

\* The PC never holds a revision the phone has not saved (dispatch, admit).
THEOREM RevisionsSaved == Spec => []PcNeverAhead
<1>1. IInv => PcNeverAhead
  BY DEF IInv
<1>2. QED
  BY <1>1, Invariance, PTL

-----------------------------------------------------------------------------
(* The link implements TextIntake.                                         *)

LEMMA InitTracked == Init => Tracked
  BY DEF Init, Tracked, Idle

\* Most steps change neither what is tracked nor the cursor.
LEMMA TrackedQuiet ==
    ASSUME Tracked, UNCHANGED <<paired, bound, rev, cursor>>,
           \A u \in Texts : slot'[u].here = slot[u].here,
           work.admit \subseteq Texts, work'.admit \subseteq work.admit, work'.seed \subseteq work.seed
    PROVE  Tracked'
<1>1. (work'.admit # {} \/ work'.seed # {}) => paired
  BY DEF Tracked
<1>2. \A t \in work'.admit : t > cursor \/ slot'[t].here
  BY DEF Tracked
<1>3. QED
  BY <1>1, <1>2 DEF Tracked

\* The slots a step that only sends leaves tracked.
LEMMA FreshSendHere ==
    ASSUME IInv, NEW t \in Texts, slot[t].here, freshSend(t), UNCHANGED <<row, rev>>
    PROVE  \A u \in Texts : slot'[u].here = slot[u].here
<1>1. slot'[t].here /\ \A u \in Texts \ {t} : slot'[u] = slot[u]
  BY FreshSendEffect
<1>2. slot[t].here = TRUE /\ slot'[t].here = TRUE
  <2>1. slot \in [Texts -> Slots] /\ slot' \in [Texts -> Slots]
    BY FreshSendEffect DEF IInv, TypeOK
  <2>2. slot[t].here \in BOOLEAN /\ slot'[t].here \in BOOLEAN
    BY <2>1 DEF Slots
  <2>3. QED
    BY <1>1, <2>2
<1>3. QED
  BY <1>1, <1>2

Maps == [Intake!Next]_(Intake!vars)

\* A step that moves neither books nor store is a stutter of TextIntake.
LEMMA MapQuiet ==
    ASSUME UNCHANGED <<rev, tomb, refused, deleted>>,
           \A u \in Texts : item'[u].rev = item[u].rev,
           \A u \in Texts : slot'[u].here = slot[u].here /\ slot'[u].acked = slot[u].acked
    PROVE  Maps
<1>1. [t \in Texts |-> item'[t].rev] = [t \in Texts |-> item[t].rev]
  OBVIOUS
<1>2. {t \in Texts : Settled(t)}' = {t \in Texts : Settled(t)}
  BY DEF Settled
<1>3. QED
  BY <1>1, <1>2 DEF Maps, Intake!vars

\* A step that only finds that a row vanished withdraws the text.
LEMMA MapWithdraw ==
    ASSUME UNCHANGED <<rev, tomb, refused, item>>, NEW t \in Texts,
           deleted' = deleted \union {t},
           \A u \in Texts : slot'[u].here = slot[u].here /\ slot'[u].acked = slot[u].acked
    PROVE  Maps
<1>1. [u \in Texts |-> item'[u].rev] = [u \in Texts |-> item[u].rev]
  OBVIOUS
<1>2. {u \in Texts : Settled(u)}' = {u \in Texts : Settled(u)}
  BY DEF Settled
<1>3. Intake!Withdraw(t)
  BY <1>1, <1>2 DEF Intake!Withdraw
<1>4. QED
  BY <1>3 DEF Maps, Intake!Next

still == <<paired, bound, rev, cursor, slot, item, tomb, refused, deleted>>

\* Steps that leave the engine's books and the store alone.
LEMMA StillMaps ==
    ASSUME IInv, Tracked, UNCHANGED still,
           work'.admit \subseteq work.admit, work'.seed \subseteq work.seed
    PROVE  Tracked' /\ Maps
<1>1. work.admit \subseteq Texts
  BY DEF IInv, TypeOK, Works
<1>2. Tracked'
  BY <1>1, TrackedQuiet DEF still
<1>3. Maps
  BY MapQuiet DEF still
<1>4. QED
  BY <1>2, <1>3

LEMMA QuietMaps ==
    ASSUME IInv, Tracked,
           \/ Arrive \/ Touch \/ \E t \in Texts : Change(t) \/ Delete(t) \/ Backdate(t)
           \/ onProviderChanged \/ onOpen \/ tick \/ onPing \/ drainStart
           \/ connect \/ linkDrop \/ boot \/ pcLocked \/ UNCHANGED vars
    PROVE  Tracked' /\ Maps
<1>1. UNCHANGED still
  BY DEF still, Arrive, Touch, Change, Delete, Backdate, onProviderChanged, onOpen, tick, onPing,
         drainStart, connect, linkDrop, boot, pcLocked, vars, provider, books, process, link, store
<1>2. work' = work \/ (work'.admit = {} /\ work'.seed = {})
  <2>1. CASE Arrive \/ Touch \/ (\E t \in Texts : Change(t) \/ Delete(t) \/ Backdate(t))
    BY <2>1 DEF Arrive, Touch, Change, Delete, Backdate, process
  <2>2. CASE onProviderChanged
    BY <2>2 DEF onProviderChanged, Idle
  <2>3. CASE onOpen
    BY <2>3 DEF onOpen, Idle
  <2>4. CASE tick
    BY <2>4 DEF tick, Idle
  <2>5. CASE onPing
    BY <2>5 DEF onPing, Idle
  <2>6. CASE drainStart
    BY <2>6 DEF drainStart, Idle
  <2>7. CASE connect \/ linkDrop \/ pcLocked \/ UNCHANGED vars
    BY <2>7 DEF connect, linkDrop, pcLocked, vars, process
  <2>8. CASE boot
    BY <2>8 DEF boot, Idle
  <2>9. QED
    BY <2>1, <2>2, <2>3, <2>4, <2>5, <2>6, <2>7, <2>8
<1>3. QED
  BY <1>1, <1>2, StillMaps

\* Pairing: nothing has a revision before the first acceptOk.
LEMMA PairingMaps == ASSUME IInv, Tracked, acceptBind \/ acceptOk PROVE Tracked' /\ Maps
<1>1. Maps
  <2>1. UNCHANGED <<rev, tomb, refused, deleted, item, slot>>
    BY DEF acceptBind, acceptOk, store
  <2>2. QED
    BY <2>1, MapQuiet
<1>2. CASE acceptBind
  <2>1. ~paired /\ paired' = paired /\ rev' = rev /\ slot' = slot /\ work' = work /\ bound'
    BY <1>2 DEF acceptBind, Tracked, process
  <2>2. \A t \in Texts : ~(rev[t] > 0)
    BY <2>1 DEF Tracked
  <2>3. work.admit = {} /\ work.seed = {}
    BY <2>1 DEF Tracked
  <2>4. QED
    BY <1>1, <2>1, <2>2, <2>3 DEF Tracked
<1>3. CASE acceptOk
  <2>1. /\ ~paired /\ paired' = TRUE /\ bound' = TRUE /\ rev' = rev
        /\ work'.admit = {} /\ work'.seed \subseteq Texts
    BY <1>3 DEF acceptOk, Idle, Present
  <2>2. \A t \in Texts : rev[t] = 0
    BY <2>1 DEF Tracked
  <2>3. QED
    BY <1>1, <2>1, <2>2 DEF Tracked
<1>4. QED
  BY <1>2, <1>3

LEMMA ScanMaps == ASSUME IInv, Tracked, scanStep PROVE Tracked' /\ Maps
<1>1. UNCHANGED <<paired, bound, rev, cursor, slot, item, tomb, refused, deleted>>
  BY DEF scanStep, link, store
<1>2. Maps
  BY <1>1, MapQuiet
<1> DEFINE also == {t \in Texts : slot[t].here /\
                   (slot[t].fly \/ ~slot[t].acked \/ slot[t].comp # "complete")}
           rows == {t \in Present : t > cursor \/ t \in TakeLowest(also, Batch)}
           A == IF paired /\ ~(stopped \/ maxId < high) THEN batch(rows) ELSE {}
<1>3. /\ work' = [work EXCEPT !.scan = FALSE, !.admit = A]
      /\ A # {} => paired
      /\ \A t \in A : t \in Texts /\ (t > cursor \/ slot[t].here)
  <2>1. work' = [work EXCEPT !.scan = FALSE, !.admit = A]
    BY DEF scanStep
  <2>2. A \subseteq rows /\ (A # {} => paired)
    BY DEF batch, TakeLowest
  <2>3. \A t \in rows : t \in Texts /\ (t > cursor \/ slot[t].here)
    BY DEF TakeLowest, Present
  <2>4. QED
    BY <2>1, <2>2, <2>3
<1> HIDE DEF A
<1>4. work'.admit = A /\ work'.seed = work.seed
  BY <1>3 DEF IInv, TypeOK, Works
<1>5. work.seed = {}
  BY DEF scanStep
<1>6. QED
  BY <1>1, <1>2, <1>3, <1>4, <1>5 DEF Tracked

\* Sending neither tracks nor settles a text.
LEMMA SendMaps ==
    ASSUME IInv, Tracked, resendStep \/ tickStep \/ drainStep
    PROVE  Tracked' /\ Maps
<1> USE Parameters
<1>1. TypeOK /\ WorkKnown
  BY DEF IInv
<1>2. /\ work \in Works /\ slot \in [Texts -> Slots] /\ work.admit \subseteq Texts
      /\ work.resend \subseteq Texts /\ work.tick \subseteq Texts /\ work.drain \subseteq Texts
  BY <1>1 DEF TypeOK, Works
<1>3. UNCHANGED <<paired, bound, rev, cursor, item, tomb, refused, row>>
  BY DEF resendStep, tickStep, drainStep, provider, store
<1>4. work'.admit \subseteq work.admit /\ work'.seed \subseteq work.seed
  BY <1>2 DEF resendStep, tickStep, drainStep, Works, Idle
<1>5. ASSUME NEW t \in Texts, slot[t].here, freshSend(t) PROVE Tracked' /\ Maps
  <2>1. /\ \A u \in Texts : slot'[u].here = slot[u].here
        /\ \A u \in Texts : slot'[u].acked = slot[u].acked
    <3>1. \A u \in Texts : slot'[u].here = slot[u].here
      BY <1>3, <1>5, FreshSendHere
    <3>2. slot'[t].acked = slot[t].acked /\ \A u \in Texts \ {t} : slot'[u] = slot[u]
      BY <1>3, <1>5, FreshSendEffect
    <3>3. QED
      BY <3>1, <3>2
  <2>2. Tracked'
    BY <1>2, <1>3, <1>4, <2>1, TrackedQuiet
  <2>3. deleted' = deleted \/ deleted' = deleted \union {t}
    BY <1>5 DEF freshSend
  <2>4. Maps
    <3>1. CASE deleted' = deleted
      BY <1>3, <2>1, <3>1, MapQuiet
    <3>2. CASE deleted' = deleted \union {t}
      BY <1>3, <2>1, <3>2, MapWithdraw
    <3>3. QED
      BY <2>3, <3>1, <3>2
  <2>5. QED
    BY <2>2, <2>4
<1>6. ASSUME NEW t \in Texts, slot[t].here, deleted' = deleted,
             NEW s \in Slots, s.here = slot[t].here, s.acked = slot[t].acked,
             NEW m, dispatch(t, s, m)
      PROVE  Tracked' /\ Maps
  <2>1. PICK signed \in BOOLEAN : slot' = [slot EXCEPT ![t] = [s EXCEPT !.fly = signed]]
    BY <1>6 DEF dispatch
  <2>2. [s EXCEPT !.fly = signed].here = s.here /\ [s EXCEPT !.fly = signed].acked = s.acked
    BY DEF Slots
  <2>3. \A u \in Texts : slot'[u].here = slot[u].here /\ slot'[u].acked = slot[u].acked
    BY <1>2, <1>6, <2>1, <2>2
  <2>4. Tracked'
    BY <1>2, <1>3, <1>4, <2>3, TrackedQuiet
  <2>5. Maps
    BY <1>3, <1>6, <2>3, MapQuiet
  <2>6. QED
    BY <2>4, <2>5
<1>7. CASE resendStep
  <2>1. PICK t \in work.resend : freshSend(t)
    BY <1>2, <1>7, LowestIn DEF resendStep
  <2>2. slot[t].here
    BY <1>1 DEF WorkKnown
  <2>3. QED
    BY <1>2, <1>5, <2>1, <2>2
<1>8. CASE tickStep
  <2>1. Lowest(work.tick) \in work.tick
    BY <1>2, <1>8, LowestIn DEF tickStep
  <2>2. PICK t \in work.tick : t = Lowest(work.tick)
    BY <2>1
  <2>3. /\ dispatch(t, [slot[t] EXCEPT !.comp = "exhausted"], Event(t, rev[t], slot[t].body))
        /\ deleted' = deleted
    BY <1>8, <2>2 DEF tickStep
  <2>4. PICK s : s = [slot[t] EXCEPT !.comp = "exhausted"]
    OBVIOUS
  <2>5. s \in Slots /\ s.here = slot[t].here /\ s.acked = slot[t].acked
    BY <1>2, <2>4 DEF Slots
  <2>6. slot[t].here
    BY <1>1 DEF WorkKnown
  <2>7. PICK m : m = Event(t, rev[t], slot[t].body)
    OBVIOUS
  <2>8. dispatch(t, s, m)
    BY <2>3, <2>4, <2>7
  <2>9. QED
    BY <1>2, <1>6, <2>3, <2>5, <2>6, <2>8
<1>9. CASE drainStep
  <2>1. CASE UNCHANGED <<slot, deleted>>
    BY <1>2, <1>3, <1>4, <2>1, TrackedQuiet, MapQuiet
  <2>2. CASE ~UNCHANGED <<slot, deleted>>
    <3>1. Lowest(work.drain) \in work.drain
      BY <1>2, <1>9, LowestIn DEF drainStep
    <3>2. PICK t \in work.drain : t = Lowest(work.drain)
      BY <3>1
    <3>3. \/ freshSend(t)
          \/ dispatch(t, slot[t], Event(t, rev[t], slot[t].body)) /\ deleted' = deleted
      BY <1>9, <2>2, <3>2 DEF drainStep
    <3>4. slot[t].here /\ slot[t] \in Slots /\ t \in Texts
      BY <1>1, <1>2 DEF WorkKnown
    <3>5. PICK m : m = Event(t, rev[t], slot[t].body)
      OBVIOUS
    <3>6. QED
      BY <1>5, <1>6, <3>3, <3>4, <3>5
  <2>3. QED
    BY <2>1, <2>2
<1>10. QED
  BY <1>7, <1>8, <1>9

\* Admitting a text assigns it a revision or leaves its revision as it is.
LEMMA AdmitMaps ==
    ASSUME IInv, Tracked, NEW t \in Texts, NEW seeded, admit(t, seeded), paired,
           UNCHANGED <<paired, bound, cursor, item, tomb, refused, deleted>>,
           t > cursor \/ slot[t].here \/ rev[t] = 0,
           work'.admit \subseteq work.admit, work'.seed \subseteq work.seed,
           t \notin work'.seed, work \in Works
    PROVE  Tracked' /\ Maps
<1> USE Parameters
<1>1. TypeOK /\ SlotsKnown
  BY DEF IInv
<1>2. /\ slot \in [Texts -> Slots] /\ rev \in [Texts -> 0..MaxVer]
      /\ work.admit \subseteq Texts /\ work.seed \subseteq Texts /\ cursor \in Nat
  BY <1>1 DEF TypeOK, Works
<1>3. CASE Passed(t, seeded)
  <2>1. UNCHANGED <<rev, slot>>
    BY <1>3 DEF admit
  <2>2. QED
    BY <1>2, <2>1, TrackedQuiet, MapQuiet
<1>4. CASE ~Passed(t, seeded)
  <2>1. /\ rev' = [rev EXCEPT ![t] = NextRev(t)]
        /\ \/ slot' = [slot EXCEPT ![t] = Admitted(t)]
           \/ dispatch(t, Admitted(t), Event(t, NextRev(t), row[t].ver))
    BY <1>4 DEF admit
  <2>2. NextRev(t) \in 1..MaxVer /\ (NextRev(t) = rev[t] \/ NextRev(t) = rev[t] + 1)
    <3>1. t \in Present
      BY <1>4 DEF Passed
    <3>2. NextRev(t) \in 1..MaxVer
      BY <3>1, NextRevBound
    <3>3. QED
      BY <1>2, <3>2 DEF NextRev
  <2>3. PICK s : s = Admitted(t)
    OBVIOUS
  <2>4. s.here = TRUE /\ s.acked = slot[t].acked
    BY <1>2, <2>3 DEF Admitted, Slots
  <2>5. /\ slot'[t].here = TRUE /\ slot'[t].acked = slot[t].acked
        /\ \A u \in Texts \ {t} : slot'[u] = slot[u]
    <3>1. CASE slot' = [slot EXCEPT ![t] = s]
      BY <1>2, <2>4, <3>1
    <3>2. CASE dispatch(t, s, Event(t, NextRev(t), row[t].ver))
      <4>1. PICK signed \in BOOLEAN : slot' = [slot EXCEPT ![t] = [s EXCEPT !.fly = signed]]
        BY <3>2 DEF dispatch
      <4>2. PICK c, b : s = [slot[t] EXCEPT !.here = TRUE, !.dead = FALSE, !.body = b, !.comp = c]
        BY <2>3 DEF Admitted
      <4>3. /\ [s EXCEPT !.fly = signed].here = s.here
            /\ [s EXCEPT !.fly = signed].acked = s.acked
        BY <1>2, <4>2 DEF Slots
      <4>4. QED
        BY <1>2, <2>4, <4>1, <4>3
    <3>3. QED
      BY <2>1, <2>3, <3>1, <3>2
  <2>6. rev'[t] > 0 /\ \A u \in Texts \ {t} : rev'[u] = rev[u]
    BY <1>2, <2>1, <2>2
  <2>7. Tracked'
    <3>1. \A u \in Texts : rev'[u] > 0 /\ ~slot'[u].here => u <= cursor
      BY <2>5, <2>6 DEF Tracked
    <3>2. \A u \in work'.admit : u > cursor \/ slot'[u].here
      BY <1>2, <2>5 DEF Tracked
    <3>3. \A u \in work'.seed : rev'[u] = 0
      BY <1>2, <2>6 DEF Tracked
    <3>4. work'.admit = {} \/ work'.seed = {}
      BY DEF Tracked
    <3>5. QED
      BY <3>1, <3>2, <3>3, <3>4 DEF Tracked
  <2>8. {u \in Texts : Settled(u)}' = {u \in Texts : Settled(u)}
    <3>1. Settled(t)' <=> Settled(t)
      <4>1. CASE slot[t].here
        <5>1. rev[t] > 0
          BY <1>1, <4>1 DEF SlotsKnown
        <5>2. QED
          BY <2>5, <2>6, <4>1, <5>1 DEF Settled
      <4>2. CASE ~slot[t].here
        <5>1. ~slot[t].acked
          BY <1>1, <4>2 DEF SlotsKnown
        <5>2. ~(rev[t] > 0)
          <6>1. ~(t <= cursor) \/ rev[t] = 0
            BY <1>2, <4>2 DEF Texts
          <6>2. QED
            BY <1>2, <4>2, <6>1 DEF Tracked
        <5>3. QED
          BY <2>5, <5>1, <5>2 DEF Settled
      <4>3. QED
        BY <4>1, <4>2
    <3>2. \A u \in Texts \ {t} : Settled(u)' <=> Settled(u)
      BY <2>5, <2>6 DEF Settled
    <3>3. QED
      BY <3>1, <3>2
  <2>9. [u \in Texts |-> item'[u].rev] = [u \in Texts |-> item[u].rev]
    OBVIOUS
  <2>10. Maps
    <3>1. CASE NextRev(t) = rev[t]
      <4>1. rev' = rev
        BY <1>2, <2>1, <3>1
      <4>2. QED
        BY <2>8, <2>9, <4>1 DEF Maps, Intake!vars
    <3>2. CASE NextRev(t) = rev[t] + 1
      <4>1. Intake!Assign(t)
        BY <2>1, <2>8, <2>9, <3>2 DEF Intake!Assign
      <4>2. QED
        BY <4>1 DEF Maps, Intake!Next
    <3>3. QED
      BY <2>2, <3>1, <3>2
  <2>11. QED
    BY <2>7, <2>10
<1>5. QED
  BY <1>3, <1>4

LEMMA AdmitStepsMap == ASSUME IInv, Tracked, seedStep \/ admitStep PROVE Tracked' /\ Maps
<1>1. work \in Works /\ work.admit \subseteq Texts /\ work.seed \subseteq Texts
  BY DEF IInv, TypeOK, Works
<1>2. UNCHANGED <<paired, bound, cursor, item, tomb, refused, deleted>>
  BY DEF seedStep, admitStep, store
<1>3. CASE seedStep
  <2>1. Lowest(work.seed) \in work.seed
    BY <1>1, <1>3, LowestIn DEF seedStep
  <2>2. PICK t \in work.seed : t = Lowest(work.seed)
    BY <2>1
  <2>3. admit(t, TRUE) /\ work' = [work EXCEPT !.seed = @ \ {t}]
    BY <1>3, <2>2 DEF seedStep
  <2>4. work'.admit = work.admit /\ work'.seed = work.seed \ {t}
    BY <1>1, <2>3 DEF Works
  <2>5. paired /\ rev[t] = 0
    BY DEF Tracked
  <2>6. QED
    BY <1>1, <1>2, <2>3, <2>4, <2>5, AdmitMaps
<1>4. CASE admitStep
  <2>1. Lowest(work.admit) \in work.admit
    BY <1>1, <1>4, LowestIn DEF admitStep
  <2>2. PICK t \in work.admit : t = Lowest(work.admit)
    BY <2>1
  <2>3. admit(t, FALSE) /\ work' = [work EXCEPT !.admit = @ \ {t}]
    BY <1>4, <2>2 DEF admitStep
  <2>4. work'.admit = work.admit \ {t} /\ work'.seed = work.seed
    BY <1>1, <2>3 DEF Works
  <2>5. paired /\ (t > cursor \/ slot[t].here) /\ work.seed = {}
    BY DEF Tracked
  <2>6. QED
    BY <1>1, <1>2, <2>3, <2>4, <2>5, AdmitMaps
<1>5. QED
  BY <1>3, <1>4

\* What an ack does to the books: it settles its text, and what it prunes is
\* settled and at or below the cursor.
LEMMA AckEffect ==
    ASSUME IInv, onAck
    PROVE  \E t \in Texts :
             /\ Answered(t) \/ t \in deleted
             /\ deleted' = deleted /\ cursor' \in Nat /\ cursor <= cursor'
             /\ \/ slot' = slot
                \/ /\ slot[t].here
                   /\ (slot'[t] = Blank /\ t <= cursor') \/ (slot'[t].here /\ slot'[t].acked)
                   /\ \A u \in Texts \ {t} :
                        slot'[u] = slot[u] \/ (slot[u].acked /\ slot'[u] = Blank /\ u <= cursor')
<1> USE Parameters
<1>1. TypeOK /\ SlotsKnown /\ WireKnown
  BY DEF IInv
<1>2. toPhone # <<>> /\ toPhone \in Seq(GoodAcks)
  BY <1>1 DEF onAck, WireKnown
<1>3. Head(toPhone) \in GoodAcks
  BY <1>2, HeadTailProperties
<1>4. PICK t \in Texts : t = Head(toPhone).text /\ (Answered(t) \/ t \in deleted)
  BY <1>3 DEF GoodAcks, Acks
<1>5. PICK hit \in BOOLEAN, at \in Nat :
        /\ at = cursor \/ at = t
        /\ cursor <= at
        /\ hit => slot[t].here
        /\ slot' = IF hit THEN prune(Landed(slot, t), at) ELSE slot
        /\ cursor' = IF hit THEN at ELSE cursor
        /\ deleted' = IF hit /\ slot[t].dead THEN deleted \union {t} ELSE deleted
  <2>1. cursor \in Nat /\ t \in Nat /\ Landed(slot, t) = [slot EXCEPT ![t].fly = FALSE, ![t].acked = TRUE]
    BY <1>1 DEF TypeOK, Texts, Landed
  <2> DEFINE hole == \E u \in Texts : u < t /\ Landed(slot, t)[u].fly
             hit == slot[t].here /\ (slot[t].dead \/ Head(toPhone).rev = rev[t])
             at == IF slot[t].dead \/ hole \/ cursor > t THEN cursor ELSE t
  <2>2. /\ slot' = IF hit THEN prune(Landed(slot, t), at) ELSE slot
        /\ cursor' = IF hit THEN at ELSE cursor
        /\ deleted' = IF hit /\ slot[t].dead THEN deleted \union {t} ELSE deleted
    BY <1>4 DEF onAck, Landed
  <2>3. at \in Nat /\ (at = cursor \/ at = t) /\ cursor <= at
    BY <2>1
  <2>4. hit \in BOOLEAN /\ (hit => slot[t].here)
    BY <1>1 DEF TypeOK, Slots
  <2> HIDE DEF hit, at
  <2>5. QED
    BY <2>2, <2>3, <2>4
<1>6. deleted' = deleted
  BY <1>1, <1>5 DEF SlotsKnown
<1>7. cursor' \in Nat /\ cursor <= cursor'
  BY <1>1, <1>5 DEF TypeOK
<1>8. slot \in [Texts -> Slots]
  BY <1>1 DEF TypeOK
<1>9. CASE hit
  <2>1. /\ Landed(slot, t) \in [Texts -> Slots] /\ Landed(slot, t)[t].here /\ Landed(slot, t)[t].acked
        /\ \A u \in Texts \ {t} : Landed(slot, t)[u] = slot[u]
    BY <1>5, <1>8, <1>9, Acknowledged
  <2>2. slot' = prune(Landed(slot, t), at) /\ cursor' = at
    BY <1>5, <1>9
  <2>3. \A u \in Texts : \/ slot'[u] = Landed(slot, t)[u]
                         \/ slot'[u] = Blank /\ Landed(slot, t)[u].acked /\ u <= cursor'
    BY <2>2 DEF prune
  <2>4. QED
    BY <1>4, <1>5, <1>6, <1>7, <1>9, <2>1, <2>3
<1>10. CASE ~hit
  BY <1>4, <1>5, <1>6, <1>7, <1>10
<1>11. QED
  BY <1>9, <1>10

LEMMA AckMaps == ASSUME IInv, Tracked, onAck PROVE Tracked' /\ Maps
<1>1. TypeOK /\ SlotsKnown
  BY DEF IInv
<1>2. PICK t \in Texts :
        /\ Answered(t) \/ t \in deleted
        /\ deleted' = deleted /\ cursor' \in Nat /\ cursor <= cursor'
        /\ \/ slot' = slot
           \/ /\ slot[t].here
              /\ (slot'[t] = Blank /\ t <= cursor') \/ (slot'[t].here /\ slot'[t].acked)
              /\ \A u \in Texts \ {t} :
                   slot'[u] = slot[u] \/ (slot[u].acked /\ slot'[u] = Blank /\ u <= cursor')
  BY AckEffect
<1>3. /\ UNCHANGED <<paired, bound, rev, item, tomb, refused>> /\ paired
      /\ work'.admit = {} /\ work'.seed = {}
  BY DEF onAck, store, Idle
<1>4. Tracked'
  <2>1. ASSUME NEW u \in Texts, rev'[u] > 0, ~slot'[u].here PROVE u <= cursor'
    <3>1. u \in Nat /\ cursor \in Nat
      BY <1>1 DEF Texts, TypeOK
    <3>2. CASE slot'[u] = slot[u]
      <4>1. u <= cursor
        BY <1>3, <2>1, <3>2 DEF Tracked
      <4>2. QED
        BY <1>2, <3>1, <4>1
    <3>3. CASE slot'[u] # slot[u]
      BY <1>2, <2>1, <3>3
    <3>4. QED
      BY <3>2, <3>3
  <2>2. QED
    BY <1>3, <2>1 DEF Tracked
<1>5. [u \in Texts |-> item'[u].rev] = [u \in Texts |-> item[u].rev]
  BY <1>3
<1>6. CASE slot' = slot
  BY <1>2, <1>3, <1>4, <1>6, MapQuiet
<1>7. CASE slot' # slot
  <2>1. rev[t] > 0
    BY <1>1, <1>2, <1>7 DEF SlotsKnown
  <2>2. {u \in Texts : Settled(u)}' = {u \in Texts : Settled(u)} \union {t}
    <3>1. Settled(t)'
      BY <1>2, <1>3, <1>7, <2>1 DEF Settled, Blank
    <3>2. \A u \in Texts \ {t} : Settled(u)' <=> Settled(u)
      BY <1>2, <1>3, <1>7 DEF Settled, Blank
    <3>3. QED
      BY <3>1, <3>2
  <2>3. Intake!Settle(t)
    <3>1. [u \in Texts |-> item[u].rev][t] > 0 \/ t \in tomb \union refused \union deleted
      BY <1>2 DEF Answered
    <3>2. QED
      BY <1>2, <1>3, <1>5, <2>1, <2>2, <3>1 DEF Intake!Settle
  <2>4. QED
    BY <1>4, <2>3 DEF Maps, Intake!Next
<1>8. QED
  BY <1>6, <1>7

\* The PC's transactions are TextIntake's.
LEMMA StoreMaps ==
    ASSUME IInv, Tracked,
           pcReceive \/ pcRefuse \/ pcDies \/ \E t \in Texts : pcForget(t) \/ pcPurge(t)
    PROVE  Tracked' /\ Maps
<1> USE Parameters
<1>1. TypeOK /\ WireKnown
  BY DEF IInv
<1>2. UNCHANGED <<paired, bound, rev, cursor, slot, deleted, work>>
  BY DEF pcReceive, pcRefuse, pcDies, pcForget, pcPurge, books, process
<1>3. Tracked'
  BY <1>2 DEF Tracked
<1>4. {u \in Texts : Settled(u)}' = {u \in Texts : Settled(u)}
  BY <1>2 DEF Settled
<1>5. item \in [Texts -> [rev : 0..MaxVer, ver : 0..MaxVer]] /\ rev \in [Texts -> 0..MaxVer]
  BY <1>1 DEF TypeOK
<1>6. CASE pcReceive \/ pcDies
  <2>1. toPc # <<>> /\ toPc \in Seq(GoodFrames) /\ ingest(Head(toPc)) /\ UNCHANGED <<tomb, refused>>
    BY <1>1, <1>6 DEF WireKnown, pcReceive, pcDies
  <2>2. PICK m \in GoodFrames : m = Head(toPc)
    BY <2>1, HeadTailProperties
  <2>3. /\ item' \in [Texts -> [rev : 0..MaxVer, ver : 0..MaxVer]]
        /\ \A u \in Texts : /\ item'[u].rev <= rev[u]
                            /\ item'[u] = item[u] \/
                                 (u \notin tomb /\ item[u].rev < item'[u].rev)
        /\ \A u \in Texts \ {m.text} : item'[u] = item[u]
    BY <2>1, <2>2, IngestEffect
  <2>4. PICK t \in Texts : t = m.text
    BY DEF GoodFrames, Frames
  <2>5. CASE item'[t] = item[t]
    <3>1. \A u \in Texts : item'[u].rev = item[u].rev
      BY <2>3, <2>4, <2>5
    <3>2. QED
      BY <1>2, <1>3, <2>1, <3>1, MapQuiet
  <2>6. CASE item'[t] # item[t]
    <3>1. PICK r : r = item'[t].rev
      OBVIOUS
    <3>2. /\ t \notin tomb /\ item[t].rev < r /\ r <= rev[t]
          /\ item[t].rev \in Nat /\ r \in Nat /\ rev[t] \in Nat
      BY <1>5, <2>3, <2>6, <3>1
    <3>3. r \in 1..rev[t]
      BY <3>2
    <3>4. [u \in Texts |-> item'[u].rev] = [[u \in Texts |-> item[u].rev] EXCEPT ![t] = r]
      BY <2>3, <2>4, <3>1
    <3>5. Intake!Store(t, r)
      BY <1>2, <1>4, <2>1, <3>2, <3>4 DEF Intake!Store
    <3>6. QED
      BY <1>3, <3>3, <3>5 DEF Maps, Intake!Next
  <2>7. QED
    BY <2>5, <2>6
<1>7. ASSUME NEW t \in Texts, pcForget(t) PROVE Maps
  <2>1. /\ item[t].rev > 0 /\ item' = [item EXCEPT ![t] = NoItem] /\ tomb' = tomb \union {t}
        /\ refused' = refused
    BY <1>7 DEF pcForget
  <2>2. [u \in Texts |-> item'[u].rev] = [[u \in Texts |-> item[u].rev] EXCEPT ![t] = 0]
    BY <1>5, <2>1 DEF NoItem
  <2>3. Intake!Forget(t)
    BY <1>2, <1>4, <2>1, <2>2 DEF Intake!Forget
  <2>4. QED
    BY <2>3 DEF Maps, Intake!Next
<1>8. ASSUME NEW t \in Texts, pcPurge(t) PROVE Maps
  <2>1. item' = [item EXCEPT ![t].ver = 0] /\ UNCHANGED <<tomb, refused>>
    BY <1>8 DEF pcPurge, link
  <2>2. \A u \in Texts : item'[u].rev = item[u].rev
    BY <1>5, <2>1
  <2>3. QED
    BY <1>2, <2>1, <2>2, MapQuiet
<1>9. CASE pcRefuse
  <2>1. toPc # <<>> /\ toPc \in Seq(GoodFrames) /\ Head(toPc).kind = "event" /\ UNCHANGED <<item, tomb>>
    BY <1>1, <1>9 DEF WireKnown, pcRefuse
  <2>2. PICK m \in GoodFrames : m = Head(toPc)
    BY <2>1, HeadTailProperties
  <2>3. PICK t \in Texts : t = m.text
    BY DEF GoodFrames, Frames
  <2>4. refused' = refused \union {t}
    BY <1>9, <2>2, <2>3 DEF pcRefuse
  <2>5. rev[t] > 0
    <3>1. m.rev \in Nat /\ m.rev > 0 /\ m.rev <= rev[m.text] /\ rev[t] \in Nat
      BY <1>5, <2>1, <2>2 DEF GoodFrames, Frames
    <3>2. QED
      BY <2>3, <3>1
  <2>6. Intake!Refuse(t)
    BY <1>2, <1>4, <2>1, <2>4, <2>5 DEF Intake!Refuse
  <2>7. QED
    BY <1>3, <2>6 DEF Maps, Intake!Next
<1>10. QED
  BY <1>3, <1>6, <1>7, <1>8, <1>9

\* A death or a ripening slot changes nothing TextIntake sees.
LEMMA LossMaps ==
    ASSUME IInv, Tracked, phoneDies \/ \E t \in Texts : Ripen(t)
    PROVE  Tracked' /\ Maps
<1>1. slot \in [Texts -> Slots] /\ work.admit \subseteq Texts
  BY DEF IInv, TypeOK, Works
<1>2. UNCHANGED <<paired, bound, rev, cursor, item, tomb, refused, deleted>>
  BY DEF phoneDies, Ripen, store
<1>3. work' = work \/ (work'.admit = {} /\ work'.seed = {})
  BY DEF phoneDies, Ripen, process, Idle
<1>4. \A u \in Texts : slot'[u].here = slot[u].here /\ slot'[u].acked = slot[u].acked
  <2>1. CASE phoneDies
    <3>1. slot' = [u \in Texts |-> [slot[u] EXCEPT !.body = 0]]
      BY <2>1 DEF phoneDies
    <3>2. \A s \in Slots : [s EXCEPT !.body = 0].here = s.here /\ [s EXCEPT !.body = 0].acked = s.acked
      BY DEF Slots
    <3>3. QED
      BY <1>1, <3>1, <3>2
  <2>2. ASSUME NEW t \in Texts, Ripen(t)
        PROVE  \A u \in Texts : slot'[u].here = slot[u].here /\ slot'[u].acked = slot[u].acked
    <3>1. slot' = [slot EXCEPT ![t] = [slot[t] EXCEPT !.ripe = TRUE]]
      BY <2>2 DEF Ripen
    <3>2. /\ [slot[t] EXCEPT !.ripe = TRUE].here = slot[t].here
          /\ [slot[t] EXCEPT !.ripe = TRUE].acked = slot[t].acked
      BY <1>1 DEF Slots
    <3>3. QED
      BY <1>1, <3>1, <3>2
  <2>3. QED
    BY <2>1, <2>2
<1>5. QED
  BY <1>1, <1>2, <1>3, <1>4, TrackedQuiet, MapQuiet

LEMMA StepMaps == IInv /\ Tracked /\ [Next]_vars => Tracked' /\ Maps
<1> SUFFICES ASSUME IInv, Tracked, [Next]_vars PROVE Tracked' /\ Maps
  OBVIOUS
<1>1. CASE Handler
  BY <1>1, QuietMaps, PairingMaps, AckMaps DEF Handler
<1>2. CASE engineStep
  BY <1>2, SendMaps, AdmitStepsMap, ScanMaps, QuietMaps DEF engineStep
<1>3. CASE pcReceive \/ pcRefuse \/ pcDies \/ \E t \in Texts : pcForget(t) \/ pcPurge(t)
  BY <1>3, StoreMaps
<1>4. CASE phoneDies \/ \E t \in Texts : Ripen(t)
  BY <1>4, LossMaps
<1>5. CASE \/ Arrive \/ Touch \/ \E t \in Texts : Change(t) \/ Delete(t) \/ Backdate(t)
           \/ connect \/ linkDrop \/ boot \/ pcLocked \/ UNCHANGED vars
  BY <1>5, QuietMaps
<1>6. QED
  BY <1>1, <1>2, <1>3, <1>4, <1>5 DEF Next

LEMMA InitMaps == Init => Intake!Init
<1> SUFFICES ASSUME Init PROVE Intake!Init
  OBVIOUS
<1>1. {t \in Texts : Settled(t)} = {}
  BY DEF Init, Settled
<1>2. [t \in Texts |-> item[t].rev] = [t \in Texts |-> 0]
  BY DEF Init, NoItem
<1>3. QED
  BY <1>1, <1>2 DEF Init, Intake!Init

\* The link, with its crashes, resends and full windows, implements what
\* TextIntake promises: revisions are assigned in order, the PC only moves to a
\* higher one, and a text settles only when it is held, forgotten, refused or
\* withdrawn.
THEOREM LinkImplementsIntake == Spec => IntakeSpec
<1>1. IInv /\ Tracked /\ [Next]_vars => [Intake!Next]_(Intake!vars)
  BY StepMaps DEF Maps
<1>2. IInv /\ Tracked /\ [Next]_vars => Tracked'
  BY StepMaps
<1>3. Spec => []Tracked
  BY <1>2, InitTracked, Invariance, PTL DEF Spec
<1>4. QED
  BY <1>1, <1>3, InitMaps, Invariance, PTL DEF Spec, IntakeSpec, Intake!Spec

-----------------------------------------------------------------------------
(* The cursor skips no text, and the PC has content at least as new as the *)
(* phone noted for it: two invariants over IInv.                           *)

\* A text of this PC's time that the engine has yet to meet.
Missing(u) == /\ bound /\ base < u /\ u \in Present /\ row[u].class = "in"
              /\ ~slot[u].here /\ ~Answered(u)

\* What is withdrawn has no row, and no list reaches past the newest text.
GoneRows == \A t \in deleted : t \notin Present /\ t <= top
Lists == /\ GoneRows
         /\ \A t \in work.admit : t <= top
         /\ cursor <= top
         /\ work.admit # {} => ~stopped
         /\ \A t \in pending \union work.seed : t <= base

\* Texts are met in order: none above a missing one has a slot, or is about to
\* get one before it.
InOrder(u) == /\ u > cursor
              /\ \A t \in Texts : t > u => ~slot[t].here /\ (t \in work.admit => u \in work.admit)
MetInOrder == \A u \in Texts : Missing(u) => InOrder(u)

CInv == Lists /\ MetInOrder

-----------------------------------------------------------------------------
(* Lemmas about the operators of the model. *)

LEMMA LowestLeast ==
    ASSUME NEW S \in SUBSET Texts, S # {}
    PROVE  Lowest(S) \in S /\ \A u \in S : Lowest(S) <= u
<1>1. S \in SUBSET Nat
  BY Parameters DEF Texts
<1>2. \E t \in S : \A u \in S : t <= u
  BY <1>1, LeastExists
<1>3. QED
  BY <1>2 DEF Lowest

\* maxId is the highest id of a row.
LEMMA MaxIdHighest == (maxId = 0 \/ maxId \in Present) /\ \A u \in Present : u <= maxId
<1>1. CASE Present = {}
  BY <1>1, Parameters DEF maxId
<1>2. CASE Present # {}
  <2> DEFINE D == {LastId - t : t \in Present}
  <2>1. Present \subseteq 1..LastId /\ LastId \in Nat
    BY Parameters DEF Present, Texts
  <2>1a. \A t \in Present : LastId - t \in Nat
    BY <2>1
  <2>2. D \in SUBSET Nat /\ D # {}
    BY <1>2, <2>1a
  <2>3. PICK d \in D : \A e \in D : d <= e
    BY <2>2, LeastExists
  <2>4. PICK t \in Present : d = LastId - t
    BY <2>3
  <2>5. \A u \in Present : LastId - u \in D
    OBVIOUS
  <2>6. \A u \in Present : u <= t
    BY <2>1, <2>3, <2>4, <2>5
  <2>7. QED
    BY <1>2, <2>4, <2>6 DEF maxId
<1>3. QED
  BY <1>1, <1>2

\* The rows are those that arrived.
LEMMA RowsArrived == ASSUME IInv PROVE \A t \in Present : t <= top
<1>1. \A t \in Texts : t \in Nat /\ top \in Nat
  BY Parameters DEF IInv, TypeOK, Texts
<1>2. \A t \in Texts : t > top => row[t].ver = 0
  BY DEF IInv, Numbers
<1>3. \A t \in Present : t \in Texts /\ row[t].ver # 0
  <2>1. \A t \in Texts : row[t].ver \in Nat
    BY DEF IInv, TypeOK, Rows
  <2>2. QED
    BY <2>1 DEF Present
<1>4. QED
  BY <1>1, <1>2, <1>3

\* So are the texts that have a slot.
LEMMA SlotsArrived == ASSUME IInv, NEW t \in Texts, slot[t].here PROVE t <= top
<1>1. t \in Nat /\ top \in Nat /\ rev[t] \in Nat /\ hash[t] \in Nat
  BY Parameters DEF IInv, TypeOK, Texts
<1>2. rev[t] > 0 /\ rev[t] <= hash[t] /\ (t > top => hash[t] = 0)
  BY DEF IInv, Numbers, SlotsKnown
<1>3. QED
  BY <1>1, <1>2

\* A batch that has a row has every lower one.
LEMMA BatchLow ==
    ASSUME NEW rows \in SUBSET Texts, NEW t \in batch(rows), NEW u \in rows, u < t
    PROVE  u \in batch(rows)
<1> DEFINE A == {y \in rows : y < u}
           B == {y \in rows : y < t}
<1>1. IsFiniteSet(Texts)
  BY FS_Interval, Parameters DEF Texts
<1>2. t \in rows /\ Cardinality(B) < Batch
  BY DEF batch, TakeLowest
<1>3. \A y \in rows : y \in Nat
  BY Parameters DEF Texts
<1>4. A \subseteq B
  BY <1>2, <1>3
<1>5. IsFiniteSet(A) /\ IsFiniteSet(B)
  <2>1. A \subseteq Texts /\ B \subseteq Texts
    OBVIOUS
  <2> HIDE DEF A, B
  <2>2. QED
    BY <1>1, <2>1, FS_Subset
<1>6. Cardinality(A) <= Cardinality(B)
  <2> HIDE DEF A, B
  <2>1. QED
    BY <1>4, <1>5, FS_Subset
<1>7. Cardinality(A) < Batch
  <2> HIDE DEF A, B
  <2>1. Cardinality(A) \in Nat /\ Cardinality(B) \in Nat /\ Batch \in Nat
    BY <1>5, FS_CardinalityType, Parameters
  <2>2. QED
    BY <1>2, <1>6, <2>1
<1>8. QED
  BY <1>7 DEF batch, TakeLowest

-----------------------------------------------------------------------------
(* A text that is missing after a step was so before, unless it just came.   *)

\* The engine never gave a missing text a revision: it would be settled.
LEMMA StillMissing ==
    ASSUME IInv, IInv', GoneRows', NEW u \in Texts, Missing(u)',
           UNCHANGED <<bound, base>>,
           u \in Present /\ row[u].class = "in",
           rev[u] <= rev'[u], Answered(u) => Answered(u)'
    PROVE  Missing(u)
<1>1. rev'[u] = 0
  <2>1. rev'[u] \in Nat
    BY DEF IInv, TypeOK
  <2>2. rev'[u] > 0 => Settled(u)'
    BY DEF Settled, Missing
  <2>3. Settled(u)' => u \in deleted'
    BY DEF IInv, NothingLost, Missing
  <2>4. u \notin deleted'
    BY DEF GoneRows, Missing
  <2>5. QED
    BY <2>1, <2>2, <2>3, <2>4
<1>2. rev[u] = 0
  BY <1>1 DEF IInv, TypeOK
<1>3. ~slot[u].here
  BY <1>2 DEF IInv, SlotsKnown
<1>4. QED
  BY <1>3 DEF Missing

-----------------------------------------------------------------------------
(* The invariant holds initially, and every step keeps it.                   *)

LEMMA CursorInit == Init => CInv
<1> SUFFICES ASSUME Init PROVE CInv
  OBVIOUS
<1>1. Lists
  BY DEF Init, Lists, GoneRows, Idle
<1>2. MetInOrder
  BY DEF Init, MetInOrder, Missing
<1>3. QED
  BY <1>1, <1>2 DEF CInv

\* A step that makes no row, no slot and no list longer, and leaves the cursor.
LEMMA Calm ==
    ASSUME IInv, IInv', CInv, UNCHANGED <<top, bound, base, cursor, stopped>>,
           \A u \in Texts : u \in Present' => u \in Present,
           \A u \in Texts : u \in Present' /\ row'[u].class = "in" => row[u].class = "in",
           \A u \in Texts : rev[u] <= rev'[u],
           \A u \in Texts : Answered(u) => Answered(u)',
           \A u \in Texts : slot'[u].here => slot[u].here,
           \A u \in deleted' : u \in deleted \/ (u \notin Present' /\ u <= top),
           work'.admit = {} \/ work'.admit = work.admit,
           pending' \union work'.seed \subseteq pending \union work.seed
    PROVE  CInv'
<1>1. deleted' \subseteq Texts
  BY DEF IInv, TypeOK
<1>2. GoneRows'
  BY <1>1 DEF CInv, Lists, GoneRows
<1>3. Lists'
  BY <1>2 DEF CInv, Lists
<1>4. ASSUME NEW u \in Texts, Missing(u)' PROVE InOrder(u)'
  <2>1. u \in Present /\ row[u].class = "in"
    BY <1>4 DEF Missing
  <2>2. Missing(u)
    BY <1>2, <1>4, <2>1, StillMissing
  <2>3. InOrder(u)
    BY <2>2 DEF CInv, MetInOrder
  <2>4. QED
    BY <2>3 DEF InOrder
<1>5. MetInOrder'
  BY <1>4 DEF MetInOrder
<1>6. QED
  BY <1>3, <1>5 DEF CInv

\* The owner and the provider: rows go or change.
LEMMA RowsCalm ==
    ASSUME IInv, IInv', CInv, NEW t \in Texts, Change(t) \/ Delete(t) \/ Backdate(t)
    PROVE  CInv'
<1>1. UNCHANGED <<top, books, work, store>>
  BY DEF Change, Delete, Backdate, process
<1>2. row \in [Texts -> Rows]
  BY DEF IInv, TypeOK
<1>3. \A u \in Texts : /\ u \in Present' => u \in Present
                       /\ u \in Present' /\ row'[u].class = "in" => row[u].class = "in"
  <2>1. CASE Change(t)
    <3>1. t \in Present /\ row'[t].class = row[t].class /\ \A u \in Texts \ {t} : row'[u] = row[u]
      BY <1>2, <2>1 DEF Change, Rows
    <3>2. QED
      BY <3>1 DEF Present
  <2>2. CASE Delete(t)
    <3>1. row'[t].ver = 0 /\ \A u \in Texts \ {t} : row'[u] = row[u]
      BY <1>2, <2>2 DEF Delete, NoRow
    <3>2. QED
      BY <3>1 DEF Present
  <2>3. CASE Backdate(t)
    <3>1. /\ row'[t].ver = row[t].ver /\ row'[t].class = "aside"
          /\ \A u \in Texts \ {t} : row'[u] = row[u]
      BY <1>2, <2>3 DEF Backdate, Rows
    <3>2. QED
      BY <3>1 DEF Present
  <2>4. QED
    BY <2>1, <2>2, <2>3
<1>4. \A u \in Texts : rev[u] <= rev'[u]
  BY <1>1 DEF books, IInv, TypeOK
<1>5. \A u \in Texts : Answered(u) => Answered(u)'
  BY <1>1 DEF store, Answered
<1>6. UNCHANGED <<bound, base, cursor, stopped, pending, slot, deleted>>
  BY <1>1 DEF books
<1>7. QED
  BY <1>1, <1>3, <1>4, <1>5, <1>6, Calm

\* The handlers that read the books, and a text that ripens: nothing here moves.
LEMMA StillCalm ==
    ASSUME IInv, IInv', CInv,
           UNCHANGED <<row, top, bound, base, cursor, stopped, deleted, rev, slot, tomb, refused>>,
           \A u \in Texts : item[u].rev > 0 => item'[u].rev > 0 \/ u \in tomb,
           work'.admit = {} \/ work'.admit = work.admit,
           pending' \union work'.seed \subseteq pending \union work.seed
    PROVE  CInv'
<1>1. \A u \in Texts : rev[u] <= rev'[u]
  BY DEF IInv, TypeOK
<1>2. \A u \in Texts : Answered(u) => Answered(u)'
  BY DEF Answered
<1>3. Present' = Present
  BY DEF Present
<1>4. QED
  BY <1>1, <1>2, <1>3, Calm

LEMMA HandlersCalm ==
    ASSUME IInv, IInv', CInv,
           onProviderChanged \/ acceptOk \/ onOpen \/ tick \/ onPing \/ drainStart
           \/ connect \/ linkDrop \/ boot \/ pcLocked \/ Touch \/ UNCHANGED vars
    PROVE  CInv'
<1> DEFINE quiet == <<row, top, bound, base, cursor, stopped, deleted, rev, slot, tomb, item, refused,
                      pending>>
           Spare == \/ work'.admit = {} /\ work'.seed \subseteq pending
                    \/ work'.admit = work.admit /\ work'.seed = work.seed
<1>1. CASE onProviderChanged \/ acceptOk \/ onOpen
  <2>1. UNCHANGED quiet
    BY <1>1 DEF onProviderChanged, acceptOk, onOpen, provider, books, store
  <2>2. CASE onProviderChanged
    BY <2>1, <2>2, StillCalm DEF onProviderChanged, Idle
  <2>3. CASE acceptOk
    <3>1. work'.admit = {} /\ work'.seed = pending \intersect Present
      BY <2>3 DEF acceptOk, Idle
    <3>2. QED
      BY <2>1, <3>1, StillCalm
  <2>4. CASE onOpen
    <3>1. work'.admit = {} /\ work'.seed = {}
      BY <2>4 DEF onOpen, Idle
    <3>2. QED
      BY <2>1, <3>1, StillCalm
  <2>5. QED
    BY <1>1, <2>2, <2>3, <2>4
<1>2. CASE tick \/ onPing \/ drainStart
  <2>1. (UNCHANGED quiet) /\ Spare
    BY <1>2 DEF tick, onPing, drainStart, provider, books, store, Idle
  <2>2. QED
    BY <2>1, StillCalm
<1>3. CASE connect \/ linkDrop \/ pcLocked
  <2>1. (UNCHANGED quiet) /\ Spare
    BY <1>3 DEF connect, linkDrop, pcLocked, provider, books, store, process
  <2>2. QED
    BY <2>1, StillCalm
<1>4. CASE boot
  <2>1. (UNCHANGED quiet) /\ Spare
    BY <1>4 DEF boot, provider, books, store, Idle
  <2>2. QED
    BY <2>1, StillCalm
<1>5. CASE Touch \/ UNCHANGED vars
  <2>1. (UNCHANGED quiet) /\ Spare
    BY <1>5 DEF Touch, vars, provider, books, store, process
  <2>2. QED
    BY <2>1, StillCalm
<1>6. QED
  BY <1>1, <1>2, <1>3, <1>4, <1>5

\* The PC's transactions: what it holds it goes on to hold, or forgets.
LEMMA StoreCalm ==
    ASSUME IInv, IInv', CInv,
           pcReceive \/ pcRefuse \/ pcDies \/ \E t \in Texts : pcForget(t) \/ pcPurge(t)
    PROVE  CInv'
<1>1. UNCHANGED <<row, top, bound, base, cursor, stopped, deleted, rev, slot, pending, work>>
  BY DEF pcReceive, pcRefuse, pcDies, pcForget, pcPurge, provider, books, process
<1>2. item \in [Texts -> [rev : 0..MaxVer, ver : 0..MaxVer]]
  BY DEF IInv, TypeOK
<1>3. CASE pcReceive \/ pcDies
  <2>1. toPc # <<>> /\ toPc \in Seq(Frames) /\ ingest(Head(toPc)) /\ UNCHANGED <<tomb, refused>>
    BY <1>3 DEF pcReceive, pcDies, IInv, TypeOK
  <2>2. PICK m \in Frames : m = Head(toPc)
    BY <2>1, HeadTailProperties
  <2>3. ingest(m)
    BY <2>1, <2>2
  <2>4. m.text \in Texts /\ m.rev \in Nat
    BY Parameters DEF Frames
  <2>5. \A u \in Texts : item[u].rev > 0 => item'[u].rev > 0
    BY <1>2, <2>3, <2>4 DEF ingest
  <2>6. QED
    BY <1>1, <2>1, <2>5, StillCalm
<1>4. ASSUME pcRefuse \/ \E t \in Texts : pcForget(t) \/ pcPurge(t) PROVE CInv'
  <2>1. UNCHANGED <<row, bound, base, cursor, stopped, deleted, rev, slot, pending, work, top>>
    BY <1>1
  <2>2. /\ tomb \subseteq tomb' /\ refused \subseteq refused'
        /\ \A u \in Texts : item[u].rev > 0 => item'[u].rev > 0 \/ u \in tomb'
    <3>1. CASE pcRefuse
      BY <3>1 DEF pcRefuse
    <3>2. ASSUME NEW t \in Texts, pcForget(t) \/ pcPurge(t)
          PROVE  /\ tomb \subseteq tomb' /\ refused \subseteq refused'
                 /\ \A u \in Texts : item[u].rev > 0 => item'[u].rev > 0 \/ u \in tomb'
      BY <1>2, <3>2 DEF pcForget, pcPurge
    <3>3. QED
      BY <1>4, <3>1, <3>2
  <2>3. \A u \in Texts : Answered(u) => Answered(u)'
    BY <2>2 DEF Answered
  <2>4. \A u \in Texts : rev[u] <= rev'[u]
    BY <2>1 DEF IInv, TypeOK
  <2>5. Present' = Present
    BY <2>1 DEF Present
  <2>6. QED
    BY <2>1, <2>3, <2>4, <2>5, Calm
<1>5. QED
  BY <1>3, <1>4

\* The phone's process dies, or a text ripens: slots stay as they are, mostly.
LEMMA LossCalm ==
    ASSUME IInv, IInv', CInv, phoneDies \/ \E t \in Texts : Ripen(t)
    PROVE  CInv'
<1>1. UNCHANGED <<row, top, bound, base, cursor, stopped, deleted, rev, pending, tomb, item, refused>>
  BY DEF phoneDies, Ripen, provider, store
<1>2. slot \in [Texts -> Slots]
  BY DEF IInv, TypeOK
<1>3. \A u \in Texts : slot'[u].here = slot[u].here
  <2>1. CASE phoneDies
    <3>1. \A u \in Texts : slot'[u] = [slot[u] EXCEPT !.body = 0]
      BY <2>1 DEF phoneDies
    <3>2. QED
      BY <1>2, <3>1 DEF Slots
  <2>2. ASSUME NEW t \in Texts, Ripen(t) PROVE \A u \in Texts : slot'[u].here = slot[u].here
    BY <1>2, <2>2 DEF Ripen, Slots
  <2>3. QED
    BY <2>1, <2>2
<1>4. (work'.admit = {} /\ work'.seed = {}) \/ work' = work
  BY DEF phoneDies, Ripen, Idle, process
<1>5. Present' = Present /\ (\A u \in Texts : Answered(u) => Answered(u)') /\ \A u \in Texts : rev[u] <= rev'[u]
  BY <1>1 DEF Present, Answered, IInv, TypeOK
<1>6. QED
  BY <1>1, <1>3, <1>4, <1>5, Calm

\* What the engine sends is of a text that has a slot; it may find its row gone.
LEMMA SendCalm ==
    ASSUME IInv, IInv', CInv, resendStep \/ tickStep \/ drainStep
    PROVE  CInv'
<1>1. TypeOK /\ WorkKnown
  BY DEF IInv
<1>2. /\ work \in Works /\ slot \in [Texts -> Slots]
      /\ work.resend \subseteq Texts /\ work.tick \subseteq Texts /\ work.drain \subseteq Texts
  BY <1>1 DEF TypeOK, Works
<1>3. UNCHANGED <<row, top, bound, base, cursor, stopped, rev, pending, tomb, item, refused>>
  BY DEF resendStep, tickStep, drainStep, provider, store
<1>4. (work'.admit = {} /\ work'.seed = {}) \/ (work'.admit = work.admit /\ work'.seed = work.seed)
  BY <1>2 DEF resendStep, tickStep, drainStep, Works, Idle
<1>5. Present' = Present /\ (\A u \in Texts : Answered(u) => Answered(u)') /\ \A u \in Texts : rev[u] <= rev'[u]
  BY <1>1, <1>3 DEF Present, Answered, TypeOK
<1>6. ASSUME \A u \in Texts : slot'[u].here = slot[u].here,
             NEW t \in Texts, slot[t].here, deleted' = deleted \/ (deleted' = deleted \union {t} /\ t \notin Present)
      PROVE  CInv'
  <2>1. t <= top
    BY <1>6, SlotsArrived
  <2>2. \A u \in deleted' : u \in deleted \/ (u \notin Present' /\ u <= top)
    BY <1>5, <1>6, <2>1
  <2>3. QED
    BY <1>3, <1>4, <1>5, <1>6, <2>2, Calm
<1>7. ASSUME NEW t \in Texts, slot[t].here, freshSend(t) PROVE CInv'
  <2>1. \A u \in Texts : slot'[u].here = slot[u].here
    BY <1>3, <1>7, FreshSendHere
  <2>2. deleted' = deleted \/ (deleted' = deleted \union {t} /\ t \notin Present)
    BY <1>7 DEF freshSend
  <2>3. QED
    BY <1>6, <1>7, <2>1, <2>2
<1>8. ASSUME NEW t \in Texts, slot[t].here, deleted' = deleted,
             NEW s \in Slots, s.here = slot[t].here, NEW m, dispatch(t, s, m)
      PROVE  CInv'
  <2>1. PICK signed \in BOOLEAN : slot' = [slot EXCEPT ![t] = [s EXCEPT !.fly = signed]]
    BY <1>8, Parameters DEF dispatch
  <2>2. [s EXCEPT !.fly = signed].here = s.here
    BY DEF Slots
  <2>3. \A u \in Texts : slot'[u].here = slot[u].here
    BY <1>2, <1>8, <2>1, <2>2
  <2>4. QED
    BY <1>6, <1>8, <2>3
<1>9. CASE resendStep
  <2>1. PICK t \in work.resend : freshSend(t)
    BY <1>2, <1>9, LowestIn DEF resendStep
  <2>2. slot[t].here
    BY <1>1 DEF WorkKnown
  <2>3. QED
    BY <1>2, <1>7, <2>1, <2>2
<1>10. CASE tickStep
  <2>1. Lowest(work.tick) \in work.tick
    BY <1>2, <1>10, LowestIn DEF tickStep
  <2>2. PICK t \in work.tick : t = Lowest(work.tick)
    BY <2>1
  <2>3. /\ dispatch(t, [slot[t] EXCEPT !.comp = "exhausted"], Event(t, rev[t], slot[t].body))
        /\ deleted' = deleted
    BY <1>10, <2>2 DEF tickStep
  <2>4. PICK s : s = [slot[t] EXCEPT !.comp = "exhausted"]
    OBVIOUS
  <2>5. s \in Slots /\ s.here = slot[t].here
    BY <1>2, <2>4 DEF Slots
  <2>6. slot[t].here
    BY <1>1 DEF WorkKnown
  <2>7. PICK m : m = Event(t, rev[t], slot[t].body)
    OBVIOUS
  <2>8. dispatch(t, s, m)
    BY <2>3, <2>4, <2>7
  <2>9. QED
    BY <1>2, <1>8, <2>3, <2>5, <2>6, <2>8
<1>11. CASE drainStep
  <2>1. CASE UNCHANGED <<slot, deleted>>
    <3>1. pending' \union work'.seed \subseteq pending \union work.seed
      BY <1>3, <1>4
    <3>2. QED
      BY <1>3, <1>4, <1>5, <2>1, <3>1, Calm
  <2>2. CASE ~UNCHANGED <<slot, deleted>>
    <3>1. Lowest(work.drain) \in work.drain
      BY <1>2, <1>11, LowestIn DEF drainStep
    <3>2. PICK t \in work.drain : t = Lowest(work.drain)
      BY <3>1
    <3>3. \/ freshSend(t)
          \/ dispatch(t, slot[t], Event(t, rev[t], slot[t].body)) /\ deleted' = deleted
      BY <1>11, <2>2, <3>2 DEF drainStep
    <3>4. slot[t].here /\ slot[t] \in Slots /\ t \in Texts
      BY <1>1, <1>2 DEF WorkKnown
    <3>5. PICK m : m = Event(t, rev[t], slot[t].body)
      OBVIOUS
    <3>6. QED
      BY <1>7, <1>8, <3>3, <3>4, <3>5
  <2>3. QED
    BY <2>1, <2>2
<1>12. QED
  BY <1>9, <1>10, <1>11

-----------------------------------------------------------------------------
(* The steps that move the cursor, the rows or the lists forward.            *)

LEMMA ArriveOrder == ASSUME IInv, IInv', CInv, Arrive PROVE CInv'
<1> USE Parameters
<1>1. UNCHANGED <<books, work, store>> /\ top' = top + 1 /\ top + 1 \in Texts
  BY DEF Arrive, IInv, TypeOK, Texts
<1>2. top \in Nat /\ cursor \in Nat /\ \A u \in Texts : u \in Nat
  BY DEF IInv, TypeOK, Texts
<1>3. \A u \in Texts \ {top + 1} : row'[u] = row[u]
  BY DEF Arrive, IInv, TypeOK
<1>4. UNCHANGED <<bound, base, cursor, stopped, pending, rev, slot, deleted, item, tomb, refused>>
  BY <1>1 DEF books, store
<1>5. \A u \in Texts \ {top + 1} : u \in Present' => u \in Present
  BY <1>3 DEF Present
<1>6. deleted \subseteq Texts /\ work.admit \subseteq Texts
  BY DEF IInv, TypeOK, Works
<1>7. GoneRows'
  <2>1. ASSUME NEW t \in deleted' PROVE t \notin Present' /\ t <= top'
    <3>1. t \in Texts /\ t \notin Present /\ t <= top
      BY <1>4, <1>6, <2>1 DEF CInv, Lists, GoneRows
    <3>2. QED
      BY <1>1, <1>2, <1>5, <3>1
  <2>2. QED
    BY <2>1 DEF GoneRows
<1>8. Lists'
  <2>1. \A t \in work.admit : t <= top + 1
    BY <1>2, <1>6 DEF CInv, Lists
  <2>2. cursor <= top + 1
    BY <1>2 DEF CInv, Lists
  <2>3. QED
    BY <1>1, <1>4, <1>7, <2>1, <2>2 DEF CInv, Lists
<1>9. ASSUME NEW u \in Texts, Missing(u)' PROVE InOrder(u)'
  <2>1. CASE u = top + 1
    <3>1. u > cursor
      BY <1>2, <2>1 DEF CInv, Lists
    <3>2. ASSUME NEW t \in Texts, t > u PROVE ~slot[t].here /\ t \notin work.admit
      <4>1. ~(t <= top)
        BY <1>2, <2>1, <3>2
      <4>2. QED
        BY <4>1, SlotsArrived DEF CInv, Lists
    <3>3. QED
      BY <1>1, <1>4, <3>1, <3>2 DEF InOrder
  <2>2. CASE u # top + 1
    <3>1. u \in Present /\ row[u].class = "in"
      BY <1>3, <1>5, <1>9, <2>2 DEF Missing
    <3>2. rev[u] <= rev'[u] /\ (Answered(u) => Answered(u)')
      BY <1>4 DEF IInv, TypeOK, Answered
    <3>3. Missing(u)
      BY <1>4, <1>7, <1>9, <3>1, <3>2, StillMissing
    <3>4. QED
      BY <1>1, <1>4, <3>3 DEF CInv, MetInOrder, InOrder
  <2>3. QED
    BY <2>1, <2>2
<1>10. QED
  BY <1>8, <1>9 DEF CInv, MetInOrder

\* A PC is opened at the end of the provider: nothing is missing then.
LEMMA BindOrder == ASSUME IInv, IInv', CInv, acceptBind PROVE CInv'
<1> USE Parameters
<1>1. /\ base' = maxId /\ cursor' = maxId /\ work' = work /\ work = Idle
      /\ UNCHANGED <<row, top, stopped, deleted>> /\ pending' \subseteq Present
  BY DEF acceptBind, provider, process, Ready
<1>2. work.admit = {} /\ work.seed = {}
  BY <1>1 DEF Idle
<1>3. \A t \in Present : t <= maxId
  BY MaxIdHighest
<1>4. maxId <= top
  <2>1. top \in Nat
    BY DEF IInv, TypeOK
  <2>2. QED
    BY <2>1, MaxIdHighest, RowsArrived
<1>5. Lists'
  <2>1. GoneRows'
    BY <1>1 DEF CInv, Lists, GoneRows, Present
  <2>2. QED
    BY <1>1, <1>2, <1>3, <1>4, <2>1 DEF Lists
<1>6. \A u \in Texts : ~Missing(u)'
  <2>1. SUFFICES ASSUME NEW u \in Texts, Missing(u)' PROVE FALSE
    OBVIOUS
  <2>2. u \in Present /\ maxId < u
    BY <1>1, <2>1 DEF Missing, Present
  <2>3. u \in Nat /\ maxId \in Nat
    BY MaxIdType DEF Texts
  <2>4. QED
    BY <1>3, <2>2, <2>3
<1>7. QED
  BY <1>5, <1>6 DEF CInv, MetInOrder

\* An ack moves the cursor to a text that has a slot, and a missing text is
\* above every slot.
LEMMA AckOrder == ASSUME IInv, IInv', CInv, onAck PROVE CInv'
<1> USE Parameters
<1>1. TypeOK /\ SlotsKnown
  BY DEF IInv
<1>2. PICK t \in Texts :
        /\ deleted' = deleted
        /\ \/ slot' = slot
           \/ /\ slot[t].here
              /\ (slot'[t] = Blank /\ t <= cursor') \/ (slot'[t].here /\ slot'[t].acked)
              /\ \A u \in Texts \ {t} :
                   slot'[u] = slot[u] \/ (slot[u].acked /\ slot'[u] = Blank /\ u <= cursor')
  BY AckEffect
<1>3. PICK n \in Texts : cursor' = cursor \/ (cursor' = n /\ slot[n].here)
  <2>1. toPhone # <<>> /\ toPhone \in Seq(Acks)
    BY <1>1 DEF onAck, TypeOK
  <2>2. Head(toPhone) \in Acks
    BY <2>1, HeadTailProperties
  <2>3. Head(toPhone).text \in Texts
    BY <2>2 DEF Acks
  <2>4. QED
    BY <2>3 DEF onAck
<1>4. /\ UNCHANGED <<row, top, bound, base, stopped, rev, pending, tomb, item, refused>>
      /\ work'.admit = {} /\ work'.seed = {}
  BY DEF onAck, provider, store, Idle
<1>5. GoneRows' /\ Present' = Present
  BY <1>2, <1>4 DEF CInv, Lists, GoneRows, Present
<1>6. cursor' <= top
  BY <1>3, SlotsArrived DEF CInv, Lists
<1>7. Lists'
  BY <1>4, <1>5, <1>6 DEF CInv, Lists
<1>8. \A u \in Texts : slot'[u].here => slot[u].here
  BY <1>2 DEF Blank
<1>9. ASSUME NEW u \in Texts, Missing(u)' PROVE InOrder(u)'
  <2>1. u \in Present /\ row[u].class = "in" /\ rev[u] <= rev'[u] /\ (Answered(u) => Answered(u)')
    BY <1>1, <1>4, <1>5, <1>9 DEF Missing, TypeOK, Answered
  <2>2. Missing(u)
    BY <1>4, <1>5, <1>9, <2>1, StillMissing
  <2>3. InOrder(u) /\ ~slot[u].here
    BY <2>2 DEF CInv, MetInOrder, Missing
  <2>4. u > cursor'
    <3>1. u \in Nat /\ n \in Nat /\ cursor \in Nat
      BY <1>1 DEF Texts, TypeOK
    <3>2. slot[n].here => ~(n > u) /\ n # u
      BY <2>3 DEF InOrder
    <3>3. QED
      BY <1>3, <2>3, <3>1, <3>2 DEF InOrder
  <2>5. QED
    BY <1>4, <1>8, <2>3, <2>4 DEF InOrder
<1>10. QED
  BY <1>7, <1>9 DEF CInv, MetInOrder

\* A scan takes the lowest rows: one above a missing text comes with it.
LEMMA ScanOrder == ASSUME IInv, IInv', CInv, scanStep PROVE CInv'
<1> USE Parameters
<1>1. UNCHANGED <<row, top, bound, base, cursor, rev, slot, deleted, pending, tomb, item, refused>>
  BY DEF scanStep, provider, store
<1>2. PICK also \in SUBSET Texts :
        /\ stopped' = (stopped \/ maxId < high)
        /\ work' = [work EXCEPT !.scan = FALSE,
                      !.admit = IF paired /\ ~(stopped \/ maxId < high)
                                  THEN batch({t \in Present : t > cursor \/ t \in TakeLowest(also, Batch)})
                                  ELSE {}]
  BY DEF scanStep
<1>3. PICK rows \in SUBSET Texts : rows = {t \in Present : t > cursor \/ t \in TakeLowest(also, Batch)}
  BY DEF Present
<1>4. work'.seed = work.seed /\ (work'.admit = {} \/ (work'.admit = batch(rows) /\ ~stopped'))
  <2>1. work \in Works
    BY DEF IInv, TypeOK
  <2>2. QED
    BY <1>2, <1>3, <2>1 DEF Works
<1>5. GoneRows' /\ Present' = Present
  BY <1>1 DEF CInv, Lists, GoneRows, Present
<1>6. \A t \in work'.admit : t \in rows
  BY <1>4 DEF batch, TakeLowest
<1>7. Lists'
  <2>1. \A t \in rows : t <= top
    BY <1>3, RowsArrived
  <2>2. QED
    BY <1>1, <1>4, <1>5, <1>6, <2>1 DEF CInv, Lists
<1>8. ASSUME NEW u \in Texts, Missing(u)' PROVE InOrder(u)'
  <2>1. u \in Present /\ row[u].class = "in" /\ rev[u] <= rev'[u] /\ (Answered(u) => Answered(u)')
    BY <1>1, <1>5, <1>8 DEF Missing, IInv, TypeOK, Answered
  <2>2. Missing(u)
    BY <1>1, <1>5, <1>8, <2>1, StillMissing
  <2>3. InOrder(u)
    BY <2>2 DEF CInv, MetInOrder
  <2>4. u \in rows
    BY <1>3, <2>1, <2>3 DEF InOrder
  <2>5. ASSUME NEW t \in Texts, t > u, t \in work'.admit PROVE u \in work'.admit
    <3>1. t \in batch(rows) /\ u < t /\ work'.admit = batch(rows)
      BY <1>4, <2>5 DEF Texts
    <3>2. QED
      BY <2>4, <3>1, BatchLow
  <2>6. QED
    BY <1>1, <2>3, <2>5 DEF InOrder
<1>9. QED
  BY <1>7, <1>8 DEF CInv, MetInOrder

\* What admit does to the slots: one more, or none.
LEMMA AdmitEffect ==
    ASSUME IInv, NEW t \in Texts, NEW seeded, admit(t, seeded)
    PROVE  /\ \A u \in Texts \ {t} : slot'[u] = slot[u] /\ rev'[u] = rev[u]
           /\ rev[t] <= rev'[t]
           /\ Passed(t, seeded) \/ slot'[t].here
<1> USE Parameters
<1>1. TypeOK
  BY DEF IInv
<1>2. CASE Passed(t, seeded)
  BY <1>1, <1>2 DEF admit, TypeOK
<1>3. CASE ~Passed(t, seeded)
  <2>1. t \in Present
    BY <1>3 DEF Passed
  <2>2. rev[t] <= NextRev(t)
    BY <2>1, NextRevBound
  <2>3. rev' = [rev EXCEPT ![t] = NextRev(t)] /\ rev \in [Texts -> 0..MaxVer]
    BY <1>1, <1>3 DEF admit, TypeOK
  <2>4. PICK s : s = Admitted(t)
    OBVIOUS
  <2>5. slot[t] \in Slots /\ slot \in [Texts -> Slots] /\ row[t] \in Rows
    BY <1>1 DEF TypeOK
  <2>6. s \in Slots /\ s.here
    BY <2>4, <2>5 DEF Admitted, Slots, Rows
  <2>7. slot' = [slot EXCEPT ![t] = s] \/ \E signed \in BOOLEAN : slot' = [slot EXCEPT ![t] = [s EXCEPT !.fly = signed]]
    <3>1. slot' = [slot EXCEPT ![t] = Admitted(t)] \/ dispatch(t, Admitted(t), Event(t, NextRev(t), row[t].ver))
      BY <1>3 DEF admit
    <3>2. QED
      BY <2>4, <3>1 DEF dispatch
  <2>8. \A signed \in BOOLEAN : [s EXCEPT !.fly = signed].here
    BY <2>6 DEF Slots
  <2>9. QED
    BY <2>2, <2>3, <2>5, <2>6, <2>7, <2>8
<1>4. QED
  BY <1>2, <1>3

\* Seeded texts are older than this PC's time.
LEMMA SeedOrder == ASSUME IInv, IInv', CInv, seedStep PROVE CInv'
<1> USE Parameters
<1>1. UNCHANGED <<row, top, bound, base, cursor, stopped, deleted, tomb, item, refused>> /\ pending' = {}
  BY DEF seedStep, provider, store
<1>2. work \in Works /\ work.seed \subseteq Texts /\ work.seed # {}
  BY DEF seedStep, IInv, TypeOK, Works
<1>3. PICK t \in work.seed : admit(t, TRUE) /\ work' = [work EXCEPT !.seed = @ \ {t}]
  BY <1>2, LowestLeast DEF seedStep
<1>4. work'.admit = work.admit /\ work'.seed = work.seed \ {t}
  BY <1>2, <1>3 DEF Works
<1>5. t \in Texts /\ t <= base
  BY <1>2, <1>3 DEF CInv, Lists
<1>6. /\ \A u \in Texts \ {t} : slot'[u] = slot[u] /\ rev'[u] = rev[u]
      /\ rev[t] <= rev'[t]
  BY <1>3, <1>5, AdmitEffect
<1>7. \A u \in Texts : rev[u] <= rev'[u]
  <2>1. \A u \in Texts : rev[u] \in Nat
    BY DEF IInv, TypeOK
  <2>2. QED
    BY <1>5, <1>6, <2>1
<1>8. GoneRows' /\ Present' = Present
  BY <1>1 DEF CInv, Lists, GoneRows, Present
<1>9. Lists'
  BY <1>1, <1>4, <1>8 DEF CInv, Lists
<1>10. ASSUME NEW u \in Texts, Missing(u)' PROVE InOrder(u)'
  <2>1. u \in Present /\ row[u].class = "in" /\ (Answered(u) => Answered(u)')
    BY <1>1, <1>8, <1>10 DEF Missing, Answered
  <2>2. Missing(u)
    BY <1>1, <1>7, <1>8, <1>10, <2>1, StillMissing
  <2>3. InOrder(u) /\ base < u
    BY <2>2 DEF CInv, MetInOrder, Missing
  <2>4. ~(t > u)
    <3>1. t \in Nat /\ u \in Nat /\ base \in Nat
      BY <1>5 DEF Texts, IInv, TypeOK
    <3>2. QED
      BY <1>5, <2>3, <3>1
  <2>5. QED
    BY <1>1, <1>4, <1>6, <2>3, <2>4 DEF InOrder
<1>11. QED
  BY <1>9, <1>10 DEF CInv, MetInOrder

\* A scan admits its lowest text first, and a missing one gets a slot.
LEMMA AdmitOrder == ASSUME IInv, IInv', CInv, admitStep PROVE CInv'
<1> USE Parameters
<1>1. UNCHANGED <<row, top, bound, base, cursor, stopped, deleted, pending, tomb, item, refused>>
  BY DEF admitStep, provider, store
<1>2. work \in Works /\ work.admit \subseteq Texts /\ work.admit # {} /\ ~stopped
  BY DEF admitStep, IInv, TypeOK, Works, CInv, Lists
<1>3. PICK t \in work.admit : /\ \A u \in work.admit : t <= u
                              /\ admit(t, FALSE) /\ work' = [work EXCEPT !.admit = @ \ {t}]
  BY <1>2, LowestLeast DEF admitStep
<1>4. work'.admit = work.admit \ {t} /\ work'.seed = work.seed /\ t \in Texts
  BY <1>2, <1>3 DEF Works
<1>5. /\ \A u \in Texts \ {t} : slot'[u] = slot[u] /\ rev'[u] = rev[u]
      /\ rev[t] <= rev'[t]
      /\ Passed(t, FALSE) \/ slot'[t].here
  BY <1>3, <1>4, AdmitEffect
<1>6. \A u \in Texts : rev[u] <= rev'[u]
  <2>1. \A u \in Texts : rev[u] \in Nat
    BY DEF IInv, TypeOK
  <2>2. QED
    BY <1>4, <1>5, <2>1
<1>7. GoneRows' /\ Present' = Present
  BY <1>1 DEF CInv, Lists, GoneRows, Present
<1>8. Lists'
  BY <1>1, <1>2, <1>4, <1>7 DEF CInv, Lists
<1>9. ASSUME NEW u \in Texts, Missing(u)' PROVE InOrder(u)'
  <2>1. u \in Present /\ row[u].class = "in" /\ (Answered(u) => Answered(u)')
    BY <1>1, <1>7, <1>9 DEF Missing, Answered
  <2>2. Missing(u)
    BY <1>1, <1>6, <1>7, <1>9, <2>1, StillMissing
  <2>3. InOrder(u)
    BY <2>2 DEF CInv, MetInOrder
  <2>4. u # t
    <3>1. SUFFICES ASSUME u = t PROVE FALSE
      OBVIOUS
    <3>2. rev[t] = 0 /\ ~slot[t].here
      <4>1. rev[t] \in Nat
        BY <1>4 DEF IInv, TypeOK
      <4>2. rev[t] > 0 => Settled(t)
        BY <2>2, <3>1 DEF Missing, Settled
      <4>3. Settled(t) => t \in deleted
        BY <2>2, <3>1 DEF IInv, NothingLost, Missing
      <4>4. t \notin deleted
        BY <2>2, <3>1 DEF CInv, Lists, GoneRows, Missing
      <4>5. QED
        BY <2>2, <3>1, <4>1, <4>2, <4>3, <4>4 DEF Missing
    <3>3. ~(t <= cursor)
      <4>1. t \in Nat /\ cursor \in Nat
        BY <1>4 DEF Texts, IInv, TypeOK
      <4>2. QED
        BY <2>3, <3>1, <4>1 DEF InOrder
    <3>4. ~slot[t].acked /\ ~slot[t].fly
      BY <1>4, <3>2 DEF IInv, SlotsKnown
    <3>5. ~Passed(t, FALSE)
      BY <1>2, <2>1, <3>1, <3>2, <3>3, <3>4 DEF Passed
    <3>6. QED
      BY <1>5, <1>9, <3>1, <3>5 DEF Missing
  <2>5. ~(t > u)
    <3>1. t > u => u \in work.admit
      BY <2>3, <1>3, <1>4 DEF InOrder
    <3>2. t \in Nat /\ u \in Nat
      BY <1>4 DEF Texts
    <3>3. QED
      BY <1>3, <3>1, <3>2
  <2>6. \A v \in Texts : v > u => slot'[v] = slot[v]
    BY <1>5, <2>5
  <2>7. QED
    BY <1>1, <1>4, <2>3, <2>4, <2>6 DEF InOrder
<1>10. QED
  BY <1>8, <1>9 DEF CInv, MetInOrder

LEMMA CursorStep == IInv /\ IInv' /\ CInv /\ [Next]_vars => CInv'
<1> SUFFICES ASSUME IInv, IInv', CInv, [Next]_vars PROVE CInv'
  OBVIOUS
<1>1. CASE Arrive \/ \E t \in Texts : Change(t) \/ Delete(t) \/ Backdate(t)
  BY <1>1, ArriveOrder, RowsCalm
<1>2. CASE Handler
  BY <1>2, HandlersCalm, BindOrder, AckOrder DEF Handler
<1>3. CASE engineStep
  BY <1>3, SendCalm, SeedOrder, ScanOrder, AdmitOrder, HandlersCalm DEF engineStep
<1>4. CASE pcReceive \/ pcRefuse \/ pcDies \/ \E t \in Texts : pcForget(t) \/ pcPurge(t)
  BY <1>4, StoreCalm
<1>5. CASE phoneDies \/ \E t \in Texts : Ripen(t)
  BY <1>5, LossCalm
<1>6. CASE connect \/ linkDrop \/ boot \/ pcLocked \/ Touch \/ UNCHANGED vars
  BY <1>6, HandlersCalm
<1>7. QED
  BY <1>1, <1>2, <1>3, <1>4, <1>5, <1>6 DEF Next

\* Whatever is cut short, dropped or full, the cursor passes only texts that
\* have a slot or were taken in or rejected by the PC (scanAboveCursors, admit,
\* onAck).
THEOREM CursorIsSafe == Spec => []CursorSkipsNone
<1>1. Spec => []CInv
  BY CursorInit, CursorStep, Invariance, PTL DEF Spec
<1>2. IInv /\ CInv => CursorSkipsNone
  <2>1. SUFFICES ASSUME IInv, CInv, NEW t \in Present, bound, base < t, t <= cursor, row[t].class = "in",
                        ~slot[t].here, ~Answered(t)
                 PROVE  FALSE
    BY DEF CursorSkipsNone
  <2>2. t \in Texts /\ Missing(t)
    BY <2>1 DEF Missing, Present
  <2>3. t > cursor /\ t \in Nat /\ cursor \in Nat
    <3>1. t > cursor
      BY <2>1, <2>2 DEF CInv, MetInOrder, InOrder
    <3>2. QED
      BY <2>1, <2>2, <3>1 DEF IInv, TypeOK, Texts
  <2>4. QED
    BY <2>1, <2>3
<1>3. QED
  BY <1>1, <1>2, Invariance, PTL

-----------------------------------------------------------------------------
(* The content behind a revision.                                            *)

\* A frame under the newest number carries content as new as was noted with it.
FreshFrames == {m \in Frames :
    /\ m.rev <= rev[m.text]
    /\ m.kind = "event" /\ m.rev = rev[m.text] => m.ver >= hash[m.text]}

\* So does the PC's item, and so does the payload a slot was built with last.
FreshItems == \A t \in Texts :
    item[t].rev > 0 /\ item[t].rev = rev[t] /\ t \notin purged => item[t].ver >= hash[t]
FreshBodies == \A t \in Texts : slot[t].body = 0 \/ slot[t].body >= hash[t]
Fresh == toPc \in Seq(FreshFrames) /\ FreshItems /\ FreshBodies

LEMMA FreshInit == Init => Fresh
<1> SUFFICES ASSUME Init PROVE Fresh
  OBVIOUS
<1>1. toPc \in Seq(FreshFrames)
  BY EmptySeq DEF Init
<1>2. FreshItems /\ FreshBodies
  BY DEF Init, FreshItems, FreshBodies, NoItem, Blank
<1>3. QED
  BY <1>1, <1>2 DEF Fresh

\* A step that numbers nothing anew.
LEMMA FreshCalm ==
    ASSUME IInv, Fresh, UNCHANGED <<rev, hash, item, purged>>, toPc' \in Seq(FreshFrames),
           \A t \in Texts : slot'[t].body \in {0, slot[t].body}
    PROVE  Fresh'
<1>1. FreshFrames' = FreshFrames
  BY DEF FreshFrames
<1>2. FreshItems' /\ FreshBodies'
  BY DEF Fresh, FreshItems, FreshBodies
<1>3. QED
  BY <1>1, <1>2 DEF Fresh

LEMMA FreshHandlers ==
    ASSUME IInv, Fresh,
           \/ Arrive \/ Touch \/ \E t \in Texts : Change(t) \/ Delete(t) \/ Backdate(t) \/ Ripen(t)
           \/ Handler \/ scanStep \/ drainStart \/ connect \/ linkDrop \/ phoneDies \/ boot
           \/ pcLocked \/ UNCHANGED vars
    PROVE  Fresh'
<1>1. slot \in [Texts -> Slots] /\ toPc \in Seq(FreshFrames) /\ toPc \in Seq(Frames)
  BY DEF IInv, TypeOK, Fresh
<1>2. CASE \/ Arrive \/ Touch \/ \E t \in Texts : Change(t) \/ Delete(t) \/ Backdate(t)
           \/ (Handler /\ ~onAck) \/ drainStart \/ connect \/ boot \/ UNCHANGED vars
  <2>1. UNCHANGED <<rev, hash, item, purged, slot, toPc>>
    <3>1. CASE Arrive \/ Touch \/ \E t \in Texts : Change(t) \/ Delete(t) \/ Backdate(t)
      BY <3>1 DEF Arrive, Touch, Change, Delete, Backdate, books, link, store
    <3>2. CASE Handler /\ ~onAck
      BY <3>2 DEF Handler, onProviderChanged, acceptBind, acceptOk, onOpen, tick, onPing,
                  books, link, store
    <3>3. CASE drainStart \/ connect \/ boot \/ UNCHANGED vars
      BY <3>3 DEF drainStart, connect, boot, vars, books, link, store
    <3>4. QED
      BY <1>2, <3>1, <3>2, <3>3
  <2>2. QED
    BY <1>1, <2>1, FreshCalm
<1>3. CASE scanStep
  <2>1. UNCHANGED <<rev, hash, item, purged, slot, toPc>>
    BY <1>3 DEF scanStep, link, store
  <2>2. QED
    BY <1>1, <2>1, FreshCalm
<1>4. ASSUME NEW t \in Texts, Ripen(t) PROVE Fresh'
  <2>1. UNCHANGED <<rev, hash, item, purged, toPc>> /\ slot' = [slot EXCEPT ![t].ripe = TRUE]
    BY <1>4 DEF Ripen, link, store
  <2>2. \A u \in Texts : slot'[u].body = slot[u].body
    BY <1>1, <2>1 DEF Slots
  <2>3. QED
    BY <1>1, <2>1, <2>2, FreshCalm
<1>5. CASE linkDrop
  <2>1. UNCHANGED <<rev, hash, item, purged, slot>> /\ toPc' = <<>>
    BY <1>5 DEF linkDrop, books, store
  <2>2. QED
    BY <2>1, EmptySeq, FreshCalm
<1>6. CASE phoneDies
  <2>1. UNCHANGED <<rev, hash, item, purged>> /\ toPc' = <<>>
    BY <1>6 DEF phoneDies, store
  <2>2. \A u \in Texts : slot'[u] = [slot[u] EXCEPT !.body = 0]
    BY <1>6 DEF phoneDies
  <2>3. \A u \in Texts : slot'[u].body = 0
    BY <1>1, <2>2 DEF Slots
  <2>4. QED
    BY <2>1, <2>3, EmptySeq, FreshCalm
<1>7. CASE pcLocked
  <2>1. UNCHANGED <<rev, hash, item, purged, slot>> /\ toPc # <<>> /\ toPc' = Tail(toPc)
    BY <1>7 DEF pcLocked, books, store
  <2>2. toPc' \in Seq(FreshFrames)
    BY <1>1, <2>1, HeadTailProperties
  <2>3. QED
    BY <2>1, <2>2, FreshCalm
<1>8. CASE onAck
  <2>1. UNCHANGED <<rev, hash, item, purged, toPc>>
    BY <1>8 DEF onAck, store
  <2>2. PICK t \in Texts : t = Head(toPhone).text
    <3>1. toPhone # <<>> /\ toPhone \in Seq(Acks)
      BY <1>8 DEF onAck, IInv, TypeOK
    <3>2. Head(toPhone) \in Acks
      BY <3>1, HeadTailProperties
    <3>3. QED
      BY <3>2 DEF Acks
  <2>3. slot' = slot \/ \E at : slot' = prune(Landed(slot, t), at)
    BY <1>8, <2>2 DEF onAck, Landed
  <2>4. \A u \in Texts : Landed(slot, t)[u].body = slot[u].body
    BY <1>1 DEF Landed, Slots
  <2>5. \A u \in Texts : slot'[u].body \in {0, slot[u].body}
    BY <2>3, <2>4 DEF prune, Blank
  <2>6. QED
    BY <1>1, <2>1, <2>5, FreshCalm
<1>9. QED
  BY <1>2, <1>3, <1>4, <1>5, <1>6, <1>7, <1>8

\* Sending the payload of a slot, or one built from the row as it is now.
LEMMA FreshDispatch ==
    ASSUME IInv, Fresh, UNCHANGED <<rev, hash, item, purged>>, NEW t \in Texts, slot[t].here,
           NEW s \in Slots, s.body = 0 \/ s.body >= hash[t],
           NEW m \in Frames, m.text = t, m.rev = rev[t],
           m.kind = "deleted" \/ m.ver = 0 \/ m.ver >= hash[t],
           dispatch(t, s, m)
    PROVE  Fresh'
<1>1. PICK signed \in BOOLEAN : slot' = [slot EXCEPT ![t] = [s EXCEPT !.fly = signed]]
  BY Parameters DEF dispatch
<1>2. slot \in [Texts -> Slots] /\ rev[t] \in Nat /\ hash[t] \in Nat
  BY DEF IInv, TypeOK
<1>3. [s EXCEPT !.fly = signed].body = s.body
  BY DEF Slots
<1>4. FreshBodies'
  BY <1>1, <1>2, <1>3 DEF Fresh, FreshBodies
<1>5. toPc' = toPc \/ (toPc' = Append(toPc, m) /\ (m.kind = "deleted" \/ m.ver > 0))
  BY DEF dispatch
<1>6. m.kind = "deleted" \/ m.ver > 0 => m \in FreshFrames
  BY <1>2, Parameters DEF FreshFrames, Frames
<1>7. toPc' \in Seq(FreshFrames)
  BY <1>5, <1>6 DEF Fresh
<1>8. FreshFrames' = FreshFrames /\ FreshItems'
  BY DEF FreshFrames, Fresh, FreshItems
<1>9. QED
  BY <1>4, <1>7, <1>8 DEF Fresh

LEMMA FreshSend ==
    ASSUME IInv, Fresh, UNCHANGED <<rev, hash, item, purged>>, NEW t \in Texts, slot[t].here, freshSend(t)
    PROVE  Fresh'
<1> USE Parameters
<1>1. slot[t] \in Slots /\ row[t] \in Rows /\ rev[t] \in 0..MaxVer /\ hash[t] \in Nat
  BY DEF IInv, TypeOK
<1>2. CASE t \in Present
  <2>1. PICK s : s = [slot[t] EXCEPT !.body = row[t].ver]
    OBVIOUS
  <2>2. PICK m : m = Event(t, rev[t], row[t].ver)
    OBVIOUS
  <2>3. row[t].ver >= hash[t]
    BY <1>1, <1>2 DEF IInv, Numbers, Present, Rows
  <2>4. s \in Slots /\ s.body = row[t].ver
    BY <1>1, <2>1 DEF Slots, Rows
  <2>5. m \in Frames /\ m.text = t /\ m.rev = rev[t] /\ m.ver = row[t].ver
    BY <1>1, <2>2 DEF Event, Frames, Rows
  <2>6. dispatch(t, s, m)
    BY <1>2, <2>1, <2>2 DEF freshSend
  <2>7. QED
    BY <2>3, <2>4, <2>5, <2>6, FreshDispatch
<1>3. CASE t \notin Present
  <2>1. PICK s : s = [slot[t] EXCEPT !.dead = TRUE]
    OBVIOUS
  <2>2. PICK m : m = Deletion(t, rev[t])
    OBVIOUS
  <2>3. s \in Slots /\ s.body = slot[t].body
    BY <1>1, <2>1 DEF Slots
  <2>4. m \in Frames /\ m.text = t /\ m.rev = rev[t] /\ m.kind = "deleted"
    BY <1>1, <2>2 DEF Deletion, Frames
  <2>5. dispatch(t, s, m)
    BY <1>3, <2>1, <2>2 DEF freshSend
  <2>6. s.body = 0 \/ s.body >= hash[t]
    BY <2>3 DEF Fresh, FreshBodies
  <2>7. QED
    BY <2>3, <2>4, <2>5, <2>6, FreshDispatch
<1>4. QED
  BY <1>2, <1>3

LEMMA FreshSends ==
    ASSUME IInv, Fresh, resendStep \/ tickStep \/ drainStep
    PROVE  Fresh'
<1> USE Parameters
<1>1. WorkKnown /\ work \in Works /\ slot \in [Texts -> Slots] /\ rev \in [Texts -> 0..MaxVer]
  BY DEF IInv, TypeOK
<1>2. work.resend \subseteq Texts /\ work.tick \subseteq Texts /\ work.drain \subseteq Texts
  BY <1>1 DEF Works
<1>3. UNCHANGED <<rev, hash, item, purged>>
  BY DEF resendStep, tickStep, drainStep, store
<1>4. ASSUME NEW t \in Texts, slot[t].here, NEW s \in Slots, s.body = slot[t].body,
             dispatch(t, s, Event(t, rev[t], slot[t].body))
      PROVE  Fresh'
  <2>1. PICK m : m = Event(t, rev[t], slot[t].body)
    OBVIOUS
  <2>2. m \in Frames /\ m.text = t /\ m.rev = rev[t] /\ m.ver = slot[t].body
    BY <1>1, <2>1 DEF Event, Frames, Slots
  <2>3. slot[t].body = 0 \/ slot[t].body >= hash[t]
    BY DEF Fresh, FreshBodies
  <2>4. dispatch(t, s, m)
    BY <1>4, <2>1
  <2>5. QED
    BY <1>3, <1>4, <2>2, <2>3, <2>4, FreshDispatch
<1>5. CASE resendStep
  <2>1. PICK t \in work.resend : freshSend(t)
    BY <1>2, <1>5, LowestIn DEF resendStep
  <2>2. t \in Texts /\ slot[t].here
    BY <1>1, <1>2 DEF WorkKnown
  <2>3. QED
    BY <1>3, <2>1, <2>2, FreshSend
<1>6. CASE tickStep
  <2>1. PICK t \in work.tick : dispatch(t, [slot[t] EXCEPT !.comp = "exhausted"], Event(t, rev[t], slot[t].body))
    BY <1>2, <1>6, LowestIn DEF tickStep
  <2>2. t \in Texts /\ slot[t].here
    BY <1>1, <1>2 DEF WorkKnown
  <2>3. PICK s : s = [slot[t] EXCEPT !.comp = "exhausted"]
    OBVIOUS
  <2>4. s \in Slots /\ s.body = slot[t].body
    BY <1>1, <2>2, <2>3 DEF Slots
  <2>5. QED
    BY <1>4, <2>1, <2>2, <2>3, <2>4
<1>7. CASE drainStep
  <2>1. CASE UNCHANGED <<slot, toPc>>
    BY <1>3, <2>1, FreshCalm DEF Fresh
  <2>2. CASE ~UNCHANGED <<slot, toPc>>
    <3>1. PICK t \in work.drain : freshSend(t) \/ dispatch(t, slot[t], Event(t, rev[t], slot[t].body))
      BY <1>2, <1>7, <2>2, LowestIn DEF drainStep
    <3>2. t \in Texts /\ slot[t].here /\ slot[t] \in Slots
      BY <1>1, <1>2 DEF WorkKnown
    <3>3. QED
      BY <1>3, <1>4, <3>1, <3>2, FreshSend
  <2>3. QED
    BY <2>1, <2>2
<1>8. QED
  BY <1>5, <1>6, <1>7

\* An admission gives a new number to new content, or leaves both.
LEMMA FreshAdmit ==
    ASSUME IInv, IInv', Fresh, NEW t \in Texts, NEW seeded, admit(t, seeded), UNCHANGED <<item, purged>>
    PROVE  Fresh'
<1> USE Parameters
<1>1. CASE Passed(t, seeded)
  <2>1. UNCHANGED <<rev, hash, slot, toPc>>
    BY <1>1 DEF admit
  <2>2. QED
    BY <2>1, FreshCalm DEF Fresh
<1>2. CASE ~Passed(t, seeded)
  <2>1. t \in Present
    BY <1>2 DEF Passed
  <2>2. PICK r \in 1..MaxVer : r = NextRev(t) /\ rev[t] <= r
    BY <2>1, NextRevBound
  <2>3. PICK v \in Nat : v = row[t].ver
    BY DEF IInv, TypeOK, Rows
  <2>4. /\ rev \in [Texts -> 0..MaxVer] /\ hash \in [Texts -> 0..MaxVer]
        /\ slot \in [Texts -> Slots] /\ v \in 0..MaxVer /\ row[t] \in Rows
    BY <2>3 DEF IInv, TypeOK, Rows
  <2>5. rev' = [rev EXCEPT ![t] = r] /\ hash' = [hash EXCEPT ![t] = v]
    BY <1>2, <2>2, <2>3 DEF admit
  <2>6. r > rev[t] \/ (r = rev[t] /\ v = hash[t])
    BY <2>2, <2>3, <2>4 DEF NextRev
  <2>7. PICK s : s = Admitted(t)
    OBVIOUS
  <2>8. s \in Slots /\ s.body = v
    <3>1. slot[t] \in Slots /\ row[t] \in Rows
      BY <2>4
    <3>2. row[t].ver \in 0..MaxVer
      BY <3>1 DEF Rows
    <3>3. Admitted(t) \in Slots /\ Admitted(t).body = row[t].ver
      BY <3>1, <3>2 DEF Admitted, Slots
    <3>4. QED
      BY <2>3, <2>7, <3>3
  <2>9. PICK m : m = Event(t, r, v)
    OBVIOUS
  <2>10. m \in Frames /\ m.text = t /\ m.rev = r /\ m.ver = v
    BY <2>2, <2>4, <2>9 DEF Event, Frames
  <2>11. \/ slot' = [slot EXCEPT ![t] = s] /\ toPc' = toPc
         \/ dispatch(t, s, m)
    BY <1>2, <2>2, <2>3, <2>7, <2>9 DEF admit
  <2>12. \E b \in {slot'[t].body} : b = v
    <3>1. slot'[t] = s \/ \E signed \in BOOLEAN : slot'[t] = [s EXCEPT !.fly = signed]
      BY <2>4, <2>11 DEF dispatch
    <3>2. QED
      BY <2>8, <3>1 DEF Slots
  <2>13. \A u \in Texts \ {t} : slot'[u] = slot[u]
    BY <2>4, <2>11 DEF dispatch
  <2>14. FreshBodies'
    BY <2>3, <2>4, <2>5, <2>12, <2>13 DEF Fresh, FreshBodies
  <2>15. FreshFrames \subseteq FreshFrames'
    <3>1. SUFFICES ASSUME NEW f \in FreshFrames PROVE f \in FreshFrames'
      OBVIOUS
    <3>2. f \in Frames /\ f.text \in Texts /\ f.rev \in Nat /\ f.ver \in Nat
      BY DEF FreshFrames, Frames
    <3>3. CASE f.text = t
      <4>1. rev'[t] = r /\ hash'[t] = v /\ rev[t] \in Nat
        BY <2>4, <2>5
      <4>2. QED
        BY <2>2, <2>6, <3>2, <3>3, <4>1 DEF FreshFrames
    <3>4. CASE f.text # t
      BY <2>4, <2>5, <3>2, <3>4 DEF FreshFrames
    <3>5. QED
      BY <3>3, <3>4
  <2>16. m \in FreshFrames'
    BY <2>3, <2>2, <2>4, <2>5, <2>10 DEF FreshFrames
  <2>17. toPc' \in Seq(FreshFrames')
    <3>1. toPc \in Seq(FreshFrames')
      BY <2>15, SeqGrows DEF Fresh
    <3>2. toPc' = toPc \/ toPc' = Append(toPc, m)
      BY <2>11 DEF dispatch
    <3>3. QED
      BY <2>16, <3>1, <3>2
  <2>18. FreshItems'
    <3>1. ASSUME NEW u \in Texts, item'[u].rev > 0, item'[u].rev = rev'[u], u \notin purged'
          PROVE  item'[u].ver >= hash'[u]
      <4>1. CASE u # t
        BY <2>4, <2>5, <3>1, <4>1 DEF Fresh, FreshItems
      <4>2. CASE u = t
        <5>1. item[t].rev <= rev[t] /\ item[t].rev \in Nat /\ rev[t] \in Nat /\ rev'[t] = r
          BY <2>4, <2>5 DEF IInv, PcNeverAhead, TypeOK
        <5>2. r = rev[t] /\ v = hash[t]
          BY <2>2, <2>6, <3>1, <4>2, <5>1
        <5>3. hash'[t] = hash[t]
          BY <2>4, <2>5, <5>2
        <5>4. QED
          BY <3>1, <4>2, <5>1, <5>2, <5>3 DEF Fresh, FreshItems
      <4>3. QED
        BY <4>1, <4>2
    <3>2. QED
      BY <3>1 DEF FreshItems
  <2>19. QED
    BY <2>14, <2>17, <2>18 DEF Fresh
<1>3. QED
  BY <1>1, <1>2

LEMMA FreshAdmits == ASSUME IInv, IInv', Fresh, seedStep \/ admitStep PROVE Fresh'
<1>1. work.seed \subseteq Texts /\ work.admit \subseteq Texts
  BY DEF IInv, TypeOK, Works
<1>2. PICK t \in Texts, seeded \in BOOLEAN : admit(t, seeded)
  BY <1>1, LowestIn DEF seedStep, admitStep
<1>3. UNCHANGED <<item, purged>>
  BY DEF seedStep, admitStep, store
<1>4. QED
  BY <1>2, <1>3, FreshAdmit

\* The PC takes the content with the number; a purge is known as one.
LEMMA FreshStore ==
    ASSUME IInv, Fresh, pcReceive \/ pcRefuse \/ pcDies \/ \E t \in Texts : pcForget(t) \/ pcPurge(t)
    PROVE  Fresh'
<1> USE Parameters
<1>1. item \in [Texts -> [rev : 0..MaxVer, ver : 0..MaxVer]]
  BY DEF IInv, TypeOK
<1>2. UNCHANGED <<rev, hash, slot>>
  BY DEF pcReceive, pcRefuse, pcDies, pcForget, pcPurge, books
<1>3. FreshFrames' = FreshFrames /\ FreshBodies'
  BY <1>2 DEF FreshFrames, Fresh, FreshBodies
<1>4. CASE pcReceive \/ pcDies
  <2>1. toPc # <<>> /\ toPc \in Seq(FreshFrames) /\ ingest(Head(toPc)) /\ purged' = purged
    BY <1>4 DEF pcReceive, pcDies, Fresh, store
  <2>2. PICK m \in FreshFrames : m = Head(toPc)
    BY <2>1, HeadTailProperties
  <2>3. ingest(m)
    BY <2>1, <2>2
  <2>4. toPc' \in Seq(FreshFrames')
    <3>1. toPc' = Tail(toPc) \/ toPc' = <<>>
      BY <1>4 DEF pcReceive, pcDies
    <3>2. QED
      BY <1>3, <2>1, <3>1, HeadTailProperties, EmptySeq
  <2>5. m \in Frames /\ m.text \in Texts /\ m.kind \in {"event", "deleted"}
    BY DEF FreshFrames, Frames
  <2>6. CASE item' = item
    BY <1>2, <1>3, <2>1, <2>4, <2>6 DEF Fresh, FreshItems
  <2>7. CASE item' # item
    <3>1. /\ m.kind = "event"
          /\ item' = [item EXCEPT ![m.text] =
                [rev |-> m.rev, ver |-> IF m.text \in purged THEN item[m.text].ver ELSE m.ver]]
      BY <2>3, <2>5, <2>7 DEF ingest
    <3>2. m.rev = rev[m.text] => m.ver >= hash[m.text]
      BY <3>1 DEF FreshFrames
    <3>3. FreshItems'
      BY <1>1, <1>2, <2>1, <2>5, <3>1, <3>2 DEF Fresh, FreshItems
    <3>4. QED
      BY <1>3, <2>4, <3>3 DEF Fresh
  <2>8. QED
    BY <2>6, <2>7
<1>5. ASSUME NEW t \in Texts, pcForget(t) \/ pcPurge(t) PROVE Fresh'
  <2>1. toPc' = toPc
    BY <1>5 DEF pcForget, pcPurge, link
  <2>2. FreshItems'
    <3>1. CASE pcForget(t)
      BY <1>1, <1>2, <3>1 DEF pcForget, Fresh, FreshItems, NoItem
    <3>2. CASE pcPurge(t)
      BY <1>1, <1>2, <3>2 DEF pcPurge, Fresh, FreshItems
    <3>3. QED
      BY <1>5, <3>1, <3>2
  <2>3. QED
    BY <1>3, <2>1, <2>2 DEF Fresh
<1>6. CASE pcRefuse
  <2>1. toPc # <<>> /\ toPc \in Seq(FreshFrames) /\ toPc' = Tail(toPc) /\ UNCHANGED <<item, purged>>
    BY <1>6 DEF pcRefuse, Fresh
  <2>2. toPc' \in Seq(FreshFrames')
    BY <1>3, <2>1, HeadTailProperties
  <2>3. QED
    BY <1>2, <1>3, <2>1, <2>2 DEF Fresh, FreshItems
<1>7. QED
  BY <1>4, <1>5, <1>6

LEMMA FreshStep == IInv /\ IInv' /\ Fresh /\ [Next]_vars => Fresh'
<1> SUFFICES ASSUME IInv, IInv', Fresh, [Next]_vars PROVE Fresh'
  OBVIOUS
<1>1. CASE engineStep
  BY <1>1, FreshSends, FreshAdmits, FreshHandlers DEF engineStep
<1>2. CASE pcReceive \/ pcRefuse \/ pcDies \/ \E t \in Texts : pcForget(t) \/ pcPurge(t)
  BY <1>2, FreshStore
<1>3. CASE \/ Arrive \/ Touch \/ \E t \in Texts : Change(t) \/ Delete(t) \/ Backdate(t) \/ Ripen(t)
           \/ Handler \/ connect \/ linkDrop \/ phoneDies \/ boot
           \/ pcLocked \/ UNCHANGED vars
  BY <1>3, FreshHandlers
<1>4. QED
  BY <1>1, <1>2, <1>3 DEF Next

\* Under the revision the phone settled, the PC has content at least as new as
\* the phone noted, however often a frame was built again, lost or repeated
\* (freshPayload, dispatch, ingest_phone_item).
THEOREM ContentIsFresh == Spec => []FreshContent
<1>1. Spec => []Fresh
  BY FreshInit, FreshStep, Invariance, PTL DEF Spec
<1>2. IInv /\ Fresh => FreshContent
  BY DEF IInv, TypeOK, Fresh, FreshItems, FreshContent, Settled
<1>3. QED
  BY <1>1, <1>2, Invariance, PTL
=============================================================================
