------------------------ MODULE SpeechDelivery_proofs ------------------------
(***************************************************************************)
(* Proofs about ProactiveItem and, on top of them, about SpeechDelivery,   *)
(* which extends it: for every number of items, attempts, turns and        *)
(* faults, and every cap.                                                  *)
(***************************************************************************)
EXTENDS SpeechDelivery, WellFoundedInduction, TLAPS

-----------------------------------------------------------------------------
(* ProactiveItem: the types, that the delivery column and the attempts     *)
(* agree, that delivered has its evidence, that a line once started is     *)
(* never told again, and that what was deleted stays deleted.              *)
(*                                                                         *)
(* The invariant is stated of the rows it and the attempts att, and not of *)
(* the variables, because recovery runs inside claim and purge: it holds   *)
(* of the recovered tables before those go on.                             *)

Typed(it, att) ==
    it \in [Items -> Rows] /\ att \in [Attempts -> AttemptRows \union {NoAttempt}]

\* a is an open speech attempt of i.
Voice(att, i, a) ==
    att[a].item = i /\ att[a].purpose = "speech" /\ att[a].status = "open"
Told(att, i, a) ==
    att[a].item = i /\ att[a].purpose = "speech" /\ att[a].status = "completed"

\* An attempt belongs to a row that is there.
Rooted(it, att) == \A a \in Attempts : att[a].item \in Items => it[att[a].item].life = "here"

OneVoice(it, att) == \A i \in Items : it[i].life = "here" =>
    /\ \A a, b \in Attempts : Voice(att, i, a) /\ Voice(att, i, b) => a = b
    /\ (\E a \in Attempts : Voice(att, i, a)) <=>
         (it[i].deliv \in Speaking /\ it[i].content # "forgotten")

OneTold(it, att) == \A i \in Items : it[i].life = "here" =>
    /\ \A a, b \in Attempts : Told(att, i, a) /\ Told(att, i, b) => a = b
    /\ (it[i].deliv = "delivered") <=> (\E a \in Attempts : Told(att, i, a))

Evidence(att, del) ==
    \A a \in del : a \in Attempts /\ att[a].item \in Items /\ Told(att, att[a].item, a)

\* Ids that were not handed out have no attempt.
Unissued(att, n) == \A a \in Attempts : a > n => att[a] = NoAttempt

\* A row that is not there was never told of, or no longer says so.
Untold(it) == \A i \in Items : it[i].life # "here" => it[i].deliv = "none"

\* The texts of a forgotten or dismissed row are deleted.
Wiped(it) == \A i \in Items :
    it[i].content = "forgotten" \/ it[i].closed = "dismissed" => ~it[i].text

Good(it, att, del, n) ==
    /\ Rooted(it, att) /\ OneVoice(it, att) /\ OneTold(it, att) /\ Evidence(att, del)
    /\ Unissued(att, n) /\ Untold(it) /\ Wiped(it)

\* A row whose failures reached the cap is not ranked again.
Capped(it) == \A i \in Items : it[i].proc = "unranked" => it[i].fails < RankCap

IInv == TypeOK /\ Capped(item) /\ Good(item, attempt, deliveries, issued)

-----------------------------------------------------------------------------
\* The caps are natural numbers, so the counters may be zero.
LEMMA Zeros == /\ 0 \in 0..RankCap /\ 0 \in 0..InjectCap /\ 0 \in 0..MaxTurns
               /\ 0 \in 0..MaxAttempts /\ 0 \in 0..2 /\ 0 < RankCap
  BY Parameters

\* A non-empty set of items has a first one.
LEMMA FirstIn ==
    ASSUME NEW S \in SUBSET Items, S # {}
    PROVE  First(S) \in S
<1> DEFINE R == {ss \in Nat \X Nat : ss[1] < ss[2]}
<1>1. S \subseteq Nat
  BY Parameters DEF Items
<1>2. IsWellFoundedOn(R, Nat)
  BY NatLessThanWellFounded DEF OpToRel
<1>3. PICK m \in S : \A k \in S : ~ (<<k, m>> \in R)
  BY <1>1, <1>2, WFMin
<1>4. \A k \in S : m <= k
  <2>1. \A k \in S : ~ (k < m)
    BY <1>1, <1>3
  <2>2. QED
    BY <1>1, <2>1
<1>5. QED
  BY <1>4 DEF First

\* Tables whose speech columns did not change are as good as before.
LEMMA SameLines ==
    ASSUME NEW it, NEW att, NEW it2, NEW att2, NEW del, NEW n,
           Typed(it, att), Typed(it2, att2), Good(it, att, del, n),
           \A i \in Items : /\ it2[i].life = it[i].life /\ it2[i].deliv = it[i].deliv
                            /\ (it2[i].content = "forgotten") <=> (it[i].content = "forgotten"),
           \A a \in Attempts : /\ att2[a].item = att[a].item /\ att2[a].purpose = att[a].purpose
                               /\ att[a].purpose = "speech" => att2[a].status = att[a].status
                               /\ att[a] = NoAttempt => att2[a] = NoAttempt,
           Wiped(it2)
    PROVE  Good(it2, att2, del, n)
<1>1. \A i \in Items, a \in Attempts : /\ Voice(att2, i, a) <=> Voice(att, i, a)
                                       /\ Told(att2, i, a) <=> Told(att, i, a)
  BY DEF Voice, Told
<1>2. Rooted(it2, att2)
  BY DEF Good, Rooted
<1>3. OneVoice(it2, att2)
  BY <1>1 DEF Good, OneVoice
<1>4. OneTold(it2, att2)
  BY <1>1 DEF Good, OneTold
<1>5. Evidence(att2, del)
  BY <1>1 DEF Good, Evidence
<1>6. Unissued(att2, n)
  BY DEF Good, Unissued
<1>7. Untold(it2)
  BY DEF Good, Untold
<1>8. QED
  BY <1>2, <1>3, <1>4, <1>5, <1>6, <1>7 DEF Good

\* A typed attempt that names an item is a row of the table.
LEMMA AttemptIsRow ==
    ASSUME NEW att \in [Attempts -> AttemptRows \union {NoAttempt}], NEW a \in Attempts,
           att[a].item \in Items
    PROVE  att[a] \in AttemptRows
<1>1. 0 \notin Items
  BY Parameters DEF Items
<1>2. NoAttempt.item = 0
  BY DEF NoAttempt
<1>3. QED
  BY <1>1, <1>2

-----------------------------------------------------------------------------
(* Recovery. *)

LEMMA RecoveredTyped ==
    ASSUME Typed(item, attempt)
    PROVE  Typed(recoverItems, recoverAttempts)
<1>1. recoverItems \in [Items -> Rows]
  <2> SUFFICES ASSUME NEW i \in Items PROVE recoverItems[i] \in Rows
    BY DEF recoverItems
  <2>1. item[i] \in Rows
    BY DEF Typed
  <2>2. [item[i] EXCEPT !.deliv = "none"] \in Rows
        /\ [item[i] EXCEPT !.deliv = "delivery_uncertain"] \in Rows
    BY <2>1 DEF Rows
  <2>3. QED
    BY <2>1, <2>2 DEF recoverItems
<1>2. recoverAttempts \in [Attempts -> AttemptRows \union {NoAttempt}]
  <2> SUFFICES ASSUME NEW a \in Attempts
               PROVE  recoverAttempts[a] \in AttemptRows \union {NoAttempt}
    BY DEF recoverAttempts
  <2>1. attempt[a] \in AttemptRows \union {NoAttempt}
    BY DEF Typed
  <2>2. CASE attempt[a] = NoAttempt
    BY <2>2 DEF recoverAttempts, NoAttempt
  <2>3. CASE attempt[a] \in AttemptRows
    <3>1. [attempt[a] EXCEPT !.status = "released"] \in AttemptRows
          /\ [attempt[a] EXCEPT !.status = "uncertain"] \in AttemptRows
      BY <2>3 DEF AttemptRows
    <3>2. QED
      BY <2>3, <3>1 DEF recoverAttempts
  <2>4. QED
    BY <2>1, <2>2, <2>3
<1>3. QED
  BY <1>1, <1>2 DEF Typed

\* i is due: it has an open speech attempt whose lease ran out.
Due(i) == \E a \in Open(i, "speech") : ~attempt[a].live

\* What recovery does to a row and to an attempt.
LEMMA RecoveredRow ==
    ASSUME Typed(item, attempt), NEW i \in Items
    PROVE  /\ recoverItems[i].life = item[i].life /\ recoverItems[i].content = item[i].content
           /\ recoverItems[i].closed = item[i].closed /\ recoverItems[i].text = item[i].text
           /\ recoverItems[i].body = item[i].body
           /\ recoverItems[i].deliv =
                IF Due(i) /\ item[i].deliv = "claimed" THEN "none"
                ELSE IF Due(i) /\ item[i].deliv = "speech_started" THEN "delivery_uncertain"
                ELSE item[i].deliv
<1>1. item[i] \in Rows
  BY DEF Typed
<1>2. QED
  BY <1>1 DEF recoverItems, Due, Rows

LEMMA RecoveredAttempt ==
    ASSUME Typed(item, attempt), NEW a \in Attempts
    PROVE  /\ recoverAttempts[a].item = attempt[a].item
           /\ recoverAttempts[a].purpose = attempt[a].purpose
           /\ recoverAttempts[a].live = attempt[a].live
           /\ recoverAttempts[a].status =
                IF \/ attempt[a].purpose # "speech" \/ attempt[a].status # "open"
                   \/ attempt[a].live
                  THEN attempt[a].status
                ELSE IF item[attempt[a].item].deliv = "claimed" THEN "released"
                ELSE IF item[attempt[a].item].deliv = "speech_started" THEN "uncertain"
                ELSE attempt[a].status
           /\ attempt[a] = NoAttempt => recoverAttempts[a] = NoAttempt
<1>1. attempt[a] \in AttemptRows \union {NoAttempt}
  BY DEF Typed
<1>2. CASE attempt[a] = NoAttempt
  <2>1. attempt[a].purpose # "speech"
    BY <1>2 DEF NoAttempt
  <2>2. recoverAttempts[a] = attempt[a]
    BY <2>1 DEF recoverAttempts
  <2>3. QED
    BY <1>2, <2>1, <2>2
<1>3. CASE attempt[a] \in AttemptRows
  <2>1. attempt[a] # NoAttempt
    BY <1>3, Parameters DEF AttemptRows, NoAttempt, Items
  <2>2. QED
    BY <1>3, <2>1 DEF recoverAttempts, AttemptRows
<1>4. QED
  BY <1>1, <1>2, <1>3

LEMMA RecoveredGood ==
    ASSUME Typed(item, attempt), Good(item, attempt, deliveries, issued)
    PROVE  Good(recoverItems, recoverAttempts, deliveries, issued)
<1> DEFINE it == recoverItems
           att == recoverAttempts
<1> USE RecoveredRow, RecoveredAttempt
<1>1. Rooted(it, att)
  BY DEF Good, Rooted
<1>2. \A i \in Items, a \in Attempts : Told(att, i, a) <=> Told(attempt, i, a)
  BY DEF Told
<1>3. \A i \in Items : item[i].life = "here" =>
        \A a \in Attempts : Voice(attempt, i, a) => (Due(i) <=> ~attempt[a].live)
  BY DEF Good, OneVoice, Due, Voice, Open
<1>4. \A i \in Items, a \in Attempts : item[i].life = "here" =>
        (Voice(att, i, a) <=> Voice(attempt, i, a) /\ attempt[a].live)
  <2> SUFFICES ASSUME NEW i \in Items, NEW a \in Attempts, item[i].life = "here"
               PROVE  Voice(att, i, a) <=> Voice(attempt, i, a) /\ attempt[a].live
    OBVIOUS
  <2>1. Voice(attempt, i, a) => item[i].deliv \in Speaking
    BY DEF Good, OneVoice
  <2>2. QED
    BY <2>1 DEF Voice, Speaking
<1>5. OneVoice(it, att)
  <2> SUFFICES ASSUME NEW i \in Items, item[i].life = "here"
               PROVE  /\ \A a, b \in Attempts : Voice(att, i, a) /\ Voice(att, i, b) => a = b
                      /\ (\E a \in Attempts : Voice(att, i, a)) <=>
                            (it[i].deliv \in Speaking /\ it[i].content # "forgotten")
    BY DEF OneVoice
  <2>1. \A a, b \in Attempts : Voice(attempt, i, a) /\ Voice(attempt, i, b) => a = b
    BY DEF Good, OneVoice
  <2>2. (\E a \in Attempts : Voice(attempt, i, a)) <=>
            (item[i].deliv \in Speaking /\ item[i].content # "forgotten")
    BY DEF Good, OneVoice
  <2>3. CASE Due(i)
    <3>1. PICK b \in Attempts : Voice(attempt, i, b) /\ ~attempt[b].live
      BY <2>3 DEF Due, Open, Voice
    <3>2. \A a \in Attempts : ~Voice(att, i, a)
      BY <3>1, <2>1, <1>4
    <3>3. it[i].deliv \notin Speaking
      BY <3>1, <2>2, <2>3 DEF Speaking
    <3>4. QED
      BY <3>2, <3>3
  <2>4. CASE ~Due(i)
    <3>1. \A a \in Attempts : Voice(att, i, a) <=> Voice(attempt, i, a)
      BY <2>4, <1>3, <1>4
    <3>2. QED
      BY <3>1, <2>1, <2>2, <2>4
  <2>5. QED
    BY <2>3, <2>4
<1>6. OneTold(it, att)
  <2> SUFFICES ASSUME NEW i \in Items, item[i].life = "here"
               PROVE  /\ \A a, b \in Attempts : Told(att, i, a) /\ Told(att, i, b) => a = b
                      /\ (it[i].deliv = "delivered") <=> (\E a \in Attempts : Told(att, i, a))
    BY DEF OneTold
  <2>1. it[i].deliv = "delivered" <=> item[i].deliv = "delivered"
    OBVIOUS
  <2>2. QED
    BY <1>2, <2>1 DEF Good, OneTold
<1>7. Evidence(att, deliveries)
  BY <1>2 DEF Good, Evidence
<1>8. Unissued(att, issued)
  BY DEF Good, Unissued
<1>9. Untold(it) /\ Wiped(it)
  BY DEF Good, Untold, Wiped
<1>10. QED
  BY <1>1, <1>5, <1>6, <1>7, <1>8, <1>9 DEF Good

-----------------------------------------------------------------------------
(* The steps of a line. *)

\* The voice of i falls silent: its attempt ends as s and the row says d.
LEMMA Falls ==
    ASSUME NEW it, NEW att, NEW del, NEW n, NEW it2, NEW att2, NEW del2,
           Typed(it, att), Good(it, att, del, n),
           NEW i \in Items, it[i].life = "here", NEW a \in Attempts, Voice(att, i, a),
           NEW d \in {"none", "delivered", "delivery_uncertain"},
           NEW s \in {"released", "completed", "uncertain"},
           (s = "completed") <=> (d = "delivered"),
           it2 = [it EXCEPT ![i] = [it[i] EXCEPT !.deliv = d]],
           att2 = [att EXCEPT ![a].status = s],
           del2 = del \/ (del2 = del \union {a} /\ s = "completed")
    PROVE  Good(it2, att2, del2, n)
<1>1. it[i] \in Rows /\ att[a] \in AttemptRows
  BY AttemptIsRow DEF Typed, Voice
<1>2. /\ it2[i].life = "here" /\ it2[i].deliv = d /\ it2[i].content = it[i].content
      /\ it2[i].closed = it[i].closed /\ it2[i].text = it[i].text
  BY <1>1 DEF Rows, Typed
<1>3. \A j \in Items : j # i => it2[j] = it[j]
  BY DEF Typed
<1>4. att2[a].item = i /\ att2[a].purpose = "speech" /\ att2[a].status = s
  BY <1>1 DEF Voice, AttemptRows, Typed
<1>5. \A b \in Attempts : b # a => att2[b] = att[b]
  BY DEF Typed
<1>6. it[i].deliv \in Speaking /\ \A b \in Attempts : Voice(att, i, b) => b = a
  BY DEF Good, OneVoice
<1>7. \A b \in Attempts : ~Told(att, i, b)
  BY <1>6 DEF Good, OneTold, Speaking
<1>8. \A j \in Items, b \in Attempts :
        /\ Voice(att2, j, b) <=> Voice(att, j, b) /\ b # a
        /\ Told(att2, j, b) <=> Told(att, j, b) \/ (j = i /\ b = a /\ s = "completed")
  <2> SUFFICES ASSUME NEW j \in Items, NEW b \in Attempts
               PROVE  /\ Voice(att2, j, b) <=> Voice(att, j, b) /\ b # a
                      /\ Told(att2, j, b) <=> Told(att, j, b) \/ (j = i /\ b = a /\ s = "completed")
    OBVIOUS
  <2>1. CASE b = a
    BY <2>1, <1>4 DEF Voice, Told
  <2>2. CASE b # a
    BY <2>2, <1>5 DEF Voice, Told
  <2>3. QED
    BY <2>1, <2>2
<1>9. Rooted(it2, att2)
  BY <1>2, <1>3, <1>4, <1>5 DEF Good, Rooted
<1>10. OneVoice(it2, att2)
  <2> SUFFICES ASSUME NEW j \in Items, it2[j].life = "here"
               PROVE  /\ \A b, c \in Attempts : Voice(att2, j, b) /\ Voice(att2, j, c) => b = c
                      /\ (\E b \in Attempts : Voice(att2, j, b)) <=>
                           (it2[j].deliv \in Speaking /\ it2[j].content # "forgotten")
    BY DEF OneVoice
  <2>1. CASE j = i
    BY <2>1, <1>2, <1>6, <1>8 DEF Speaking
  <2>2. CASE j # i
    <3>1. ~Voice(att, j, a)
      BY <2>2 DEF Voice
    <3>2. it2[j] = it[j] /\ \A b \in Attempts : Voice(att2, j, b) <=> Voice(att, j, b)
      BY <2>2, <3>1, <1>3, <1>8
    <3>3. QED
      BY <3>2 DEF Good, OneVoice
  <2>3. QED
    BY <2>1, <2>2
<1>11. OneTold(it2, att2)
  <2> SUFFICES ASSUME NEW j \in Items, it2[j].life = "here"
               PROVE  /\ \A b, c \in Attempts : Told(att2, j, b) /\ Told(att2, j, c) => b = c
                      /\ (it2[j].deliv = "delivered") <=> (\E b \in Attempts : Told(att2, j, b))
    BY DEF OneTold
  <2>1. CASE j = i
    BY <2>1, <1>2, <1>7, <1>8
  <2>2. CASE j # i
    BY <2>2, <1>3, <1>8 DEF Good, OneTold
  <2>3. QED
    BY <2>1, <2>2
<1>12. Evidence(att2, del2)
  <2> SUFFICES ASSUME NEW b \in del2
               PROVE  b \in Attempts /\ att2[b].item \in Items /\ Told(att2, att2[b].item, b)
    BY DEF Evidence
  <2>1. CASE b = a /\ s = "completed"
    BY <2>1, <1>4 DEF Told
  <2>2. CASE b \in del
    <3>1. b \in Attempts /\ att[b].item \in Items /\ Told(att, att[b].item, b)
      BY <2>2 DEF Good, Evidence
    <3>2. b # a
      BY <3>1 DEF Told, Voice
    <3>3. QED
      BY <3>1, <3>2, <1>5 DEF Told
  <2>3. QED
    BY <2>1, <2>2
<1>13. Unissued(att2, n)
  <2>1. att[a] # NoAttempt
    BY Parameters DEF Voice, NoAttempt, Items
  <2>2. QED
    BY <2>1, <1>5 DEF Good, Unissued
<1>14. Untold(it2) /\ Wiped(it2)
  BY <1>2, <1>3 DEF Good, Untold, Wiped
<1>15. QED
  BY <1>9, <1>10, <1>11, <1>12, <1>13, <1>14 DEF Good

\* A new attempt for i: a voice if the row becomes claimed, else a rank lease.
LEMMA Opens ==
    ASSUME NEW it, NEW att, NEW del, NEW n \in Nat, NEW it2, NEW att2,
           Typed(it, att), Good(it, att, del, n), n + 1 \in Attempts,
           NEW i \in Items, it[i].life = "here",
           NEW p \in {"rank", "speech"},
           att2 = [att EXCEPT ![n + 1] =
                     [item |-> i, purpose |-> p, status |-> "open", live |-> TRUE]],
           \/ p = "rank" /\ it2 = it
           \/ /\ p = "speech" /\ it[i].deliv = "none" /\ it[i].content # "forgotten"
              /\ it2 = [it EXCEPT ![i].deliv = "claimed"]
    PROVE  Good(it2, att2, del, n + 1)
<1> DEFINE a == n + 1
<1>1. att[a] = NoAttempt
  BY DEF Good, Unissued
<1>2. \A j \in Items : ~Voice(att, j, a) /\ ~Told(att, j, a)
  BY <1>1, Parameters DEF Voice, Told, NoAttempt, Items
<1>3. att2[a].item = i /\ att2[a].purpose = p /\ att2[a].status = "open"
  BY DEF Typed
<1>4. \A b \in Attempts : b # a => att2[b] = att[b]
  BY DEF Typed
<1>5. \A j \in Items, b \in Attempts :
        /\ Told(att2, j, b) <=> Told(att, j, b)
        /\ Voice(att2, j, b) <=> Voice(att, j, b) \/ (j = i /\ b = a /\ p = "speech")
  <2> SUFFICES ASSUME NEW j \in Items, NEW b \in Attempts
               PROVE  /\ Told(att2, j, b) <=> Told(att, j, b)
                      /\ Voice(att2, j, b) <=> Voice(att, j, b) \/ (j = i /\ b = a /\ p = "speech")
    OBVIOUS
  <2>1. CASE b = a
    BY <2>1, <1>2, <1>3 DEF Voice, Told
  <2>2. CASE b # a
    BY <2>2, <1>4 DEF Voice, Told
  <2>3. QED
    BY <2>1, <2>2
<1>6. it[i] \in Rows
  BY DEF Typed
<1>7. \A j \in Items :
        /\ it2[j].life = it[j].life /\ it2[j].content = it[j].content
        /\ it2[j].closed = it[j].closed /\ it2[j].text = it[j].text
        /\ it2[j].deliv = IF j = i /\ p = "speech" THEN "claimed" ELSE it[j].deliv
  <2> SUFFICES ASSUME NEW j \in Items
               PROVE  /\ it2[j].life = it[j].life /\ it2[j].content = it[j].content
                      /\ it2[j].closed = it[j].closed /\ it2[j].text = it[j].text
                      /\ it2[j].deliv = IF j = i /\ p = "speech" THEN "claimed" ELSE it[j].deliv
    OBVIOUS
  <2>1. CASE j = i
    BY <2>1, <1>6 DEF Rows, Typed
  <2>2. CASE j # i
    BY <2>2 DEF Typed
  <2>3. QED
    BY <2>1, <2>2
<1> HIDE DEF a
<1>8. Rooted(it2, att2)
  BY <1>3, <1>4, <1>7 DEF Good, Rooted
<1>9. OneVoice(it2, att2)
  <2> SUFFICES ASSUME NEW j \in Items, it2[j].life = "here"
               PROVE  /\ \A b, c \in Attempts : Voice(att2, j, b) /\ Voice(att2, j, c) => b = c
                      /\ (\E b \in Attempts : Voice(att2, j, b)) <=>
                           (it2[j].deliv \in Speaking /\ it2[j].content # "forgotten")
    BY DEF OneVoice
  <2>1. CASE j = i /\ p = "speech"
    <3>1. \A b \in Attempts : ~Voice(att, i, b)
      BY <2>1 DEF Good, OneVoice, Speaking
    <3>2. a \in Attempts
      BY DEF a
    <3>3. QED
      BY <2>1, <3>1, <3>2, <1>5, <1>7 DEF Speaking
  <2>2. CASE ~(j = i /\ p = "speech")
    BY <2>2, <1>5, <1>7 DEF Good, OneVoice
  <2>3. QED
    BY <2>1, <2>2
<1>10. OneTold(it2, att2)
  BY <1>5, <1>7 DEF Good, OneTold
<1>11. Evidence(att2, del)
  <2> SUFFICES ASSUME NEW b \in del
               PROVE  b \in Attempts /\ att2[b].item \in Items /\ Told(att2, att2[b].item, b)
    BY DEF Evidence
  <2>1. b \in Attempts /\ att[b].item \in Items /\ Told(att, att[b].item, b)
    BY DEF Good, Evidence
  <2>2. att2[b] = att[b]
    BY <2>1, <1>2, <1>4
  <2>3. QED
    BY <2>1, <2>2 DEF Told
<1>12. Unissued(att2, n + 1)
  BY <1>4 DEF Good, Unissued, Attempts, a
<1>13. Untold(it2) /\ Wiped(it2)
  BY <1>7 DEF Good, Untold, Wiped
<1>14. QED
  BY <1>8, <1>9, <1>10, <1>11, <1>12, <1>13 DEF Good

-----------------------------------------------------------------------------
(* The types. *)

Eligibilities == {"pending", "eligible", "suppressed", "expired"}

\* The rows that the steps write are rows.
LEMMA RowWith ==
    ASSUME NEW r \in Rows
    PROVE  /\ \A e \in Eligibilities :
                /\ [r EXCEPT !.matched = TRUE, !.elig = e] \in Rows
                /\ [r EXCEPT !.proc = "ranked", !.body = FALSE, !.text = TRUE, !.elig = e] \in Rows
           /\ [r EXCEPT !.proc = "ranked", !.elig = "eligible"] \in Rows
           /\ [r EXCEPT !.closed = "dismissed", !.text = FALSE] \in Rows
           /\ [r EXCEPT !.surf = 0, !.fresh = FALSE] \in Rows
           /\ \A t \in 0..MaxTurns : [r EXCEPT !.surf = t, !.fresh = TRUE] \in Rows
           /\ Redacted(r) \in Rows
           /\ [r EXCEPT !.fresh = FALSE] \in Rows
           /\ [r EXCEPT !.rested = TRUE] \in Rows
<1>1. \A e \in Eligibilities : [r EXCEPT !.matched = TRUE, !.elig = e] \in Rows
  BY DEF Rows, Eligibilities
<1>2. \A e \in Eligibilities :
        [r EXCEPT !.proc = "ranked", !.body = FALSE, !.text = TRUE, !.elig = e] \in Rows
  BY DEF Rows, Eligibilities
<1>3. [r EXCEPT !.proc = "ranked", !.elig = "eligible"] \in Rows
  BY DEF Rows
<1>4. [r EXCEPT !.closed = "dismissed", !.text = FALSE] \in Rows
  BY DEF Rows
<1>5. [r EXCEPT !.surf = 0, !.fresh = FALSE] \in Rows
  BY Zeros DEF Rows
<1>6. \A t \in 0..MaxTurns : [r EXCEPT !.surf = t, !.fresh = TRUE] \in Rows
  BY DEF Rows
<1>7. Redacted(r) \in Rows
  BY DEF Rows, Redacted
<1>8. [r EXCEPT !.fresh = FALSE] \in Rows
  BY DEF Rows
<1>9. [r EXCEPT !.rested = TRUE] \in Rows
  BY DEF Rows
<1>10. QED
  BY <1>1, <1>2, <1>3, <1>4, <1>5, <1>6, <1>7, <1>8, <1>9

LEMMA SpeechTyped ==
    ASSUME TypeOK, Speech
    PROVE  TypeOK'
<1>1. /\ item \in [Items -> Rows] /\ attempt \in [Attempts -> AttemptRows \union {NoAttempt}]
      /\ deliveries \subseteq Attempts /\ issued \in 0..MaxAttempts
      /\ turn \in 0..MaxTurns /\ watching \in BOOLEAN
  BY DEF TypeOK
<1>2. Typed(recoverItems, recoverAttempts)
  BY <1>1, RecoveredTyped DEF Typed
<1>3. CASE recover_speech
  BY <1>1, <1>2, <1>3 DEF recover_speech, TypeOK, Typed
<1>4. CASE claim_next_speech
  <2> DEFINE i == First(speechReady)
  <2>1. PICK j \in Items : i = j
    BY <1>4, FirstIn DEF claim_next_speech, speechReady
  <2>2. item' \in [Items -> Rows]
    <3>1. recoverItems[j] \in Rows
      BY <1>2 DEF Typed
    <3>2. [recoverItems[j] EXCEPT !.deliv = "claimed"] \in Rows
      BY <3>1 DEF Rows
    <3>3. QED
      BY <1>2, <1>4, <2>1, <3>2 DEF claim_next_speech, Typed
  <2>3. [item |-> j, purpose |-> "speech", status |-> "open", live |-> TRUE] \in AttemptRows
    BY DEF AttemptRows
  <2>4. attempt' \in [Attempts -> AttemptRows \union {NoAttempt}]
    BY <1>2, <1>4, <2>1, <2>3 DEF claim_next_speech, Opened, Typed
  <2>5. issued' \in 0..MaxAttempts
    BY <1>1, <1>4, Parameters DEF claim_next_speech, Issue
  <2>6. QED
    BY <1>1, <1>4, <2>2, <2>4, <2>5 DEF claim_next_speech, TypeOK
<1>5. ASSUME NEW i \in Items, NEW a \in Attempts,
             \/ mark_speech_started(i, a) \/ mark_delivered(i, a)
             \/ mark_delivery_uncertain(i, a) \/ release_speech_claim(i, a)
      PROVE  TypeOK'
  <2>1. item[i] \in Rows
    BY <1>1
  <2>2. attempt[a] \in AttemptRows
    <3>1. attempt[a].item = i
      BY <1>5 DEF mark_speech_started, mark_delivered, mark_delivery_uncertain,
                  release_speech_claim, Claimed, Spoken, Open
    <3>2. QED
      BY <1>1, <3>1, AttemptIsRow
  <2>3. \A d \in {"none", "speech_started", "delivered", "delivery_uncertain"} :
          [item[i] EXCEPT !.deliv = d] \in Rows
    BY <2>1 DEF Rows
  <2>4. /\ \A st \in {"completed", "released", "uncertain"} :
             [attempt[a] EXCEPT !.status = st] \in AttemptRows
        /\ [attempt[a] EXCEPT !.live = TRUE] \in AttemptRows
    BY <2>2 DEF AttemptRows
  <2>5. item' \in [Items -> Rows]
    BY <1>1, <1>5, <2>3 DEF mark_speech_started, mark_delivered, mark_delivery_uncertain,
                            release_speech_claim, Become
  <2>6. attempt' \in [Attempts -> AttemptRows \union {NoAttempt}]
    BY <1>1, <1>5, <2>4 DEF mark_speech_started, mark_delivered, mark_delivery_uncertain,
                            release_speech_claim, Mark
  <2>7. watching' \in BOOLEAN
    BY <1>1, <1>5 DEF mark_speech_started, mark_delivered, mark_delivery_uncertain,
                      release_speech_claim, satisfyWatches
  <2>8. /\ deliveries' \subseteq Attempts /\ issued' \in 0..MaxAttempts
        /\ turn' \in 0..MaxTurns
    BY <1>1, <1>5 DEF mark_speech_started, mark_delivered, mark_delivery_uncertain,
                      release_speech_claim
  <2>9. QED
    BY <2>5, <2>6, <2>7, <2>8 DEF TypeOK
<1>6. QED
  BY <1>3, <1>4, <1>5 DEF Speech

LEMMA RankerTyped ==
    ASSUME TypeOK, Capped(item), Ranker
    PROVE  TypeOK'
<1>1. /\ item \in [Items -> Rows] /\ attempt \in [Attempts -> AttemptRows \union {NoAttempt}]
      /\ deliveries \subseteq Attempts /\ issued \in 0..MaxAttempts
      /\ turn \in 0..MaxTurns /\ watching \in BOOLEAN
  BY DEF TypeOK
<1>2. CASE claim_next_rank
  <2>1. PICK j \in Items : First(rankReady) = j
    <3>1. rankReady \in SUBSET Items /\ rankReady # {}
      BY <1>2, Parameters DEF claim_next_rank, rankReady, Items
    <3>2. QED
      BY <3>1, FirstIn
  <2>2. [item |-> j, purpose |-> "rank", status |-> "open", live |-> TRUE] \in AttemptRows
    BY DEF AttemptRows
  <2>3. attempt' \in [Attempts -> AttemptRows \union {NoAttempt}]
    BY <1>1, <1>2, <2>1, <2>2 DEF claim_next_rank, Opened
  <2>4. QED
    BY <1>1, <1>2, <2>3, Parameters DEF claim_next_rank, Issue, TypeOK
<1>3. ASSUME NEW i \in Items, rank_calendar(i)
      PROVE  TypeOK'
  <2>1. [item[i] EXCEPT !.proc = "ranked", !.elig = "eligible"] \in Rows
    BY <1>1, RowWith
  <2>2. QED
    BY <1>1, <1>3, <2>1 DEF rank_calendar, Become, TypeOK
<1>4. ASSUME NEW a \in Attempts, NEW label, complete_rank(a, label)
      PROVE  TypeOK'
  <2>1. PICK i \in Items : attempt[a].item = i
    BY <1>4 DEF complete_rank
  <2>2. attempt[a] \in AttemptRows
    BY <1>1, <2>1, AttemptIsRow
  <2>3. \A e \in {"eligible", "suppressed"} :
          [item[i] EXCEPT !.proc = "ranked", !.body = FALSE, !.text = TRUE, !.elig = e] \in Rows
    BY <1>1, RowWith DEF Eligibilities
  <2>4. [attempt[a] EXCEPT !.status = "completed"] \in AttemptRows
    BY <2>2 DEF AttemptRows
  <2>5. item' \in [Items -> Rows]
    BY <1>1, <1>4, <2>1, <2>3 DEF complete_rank, Become
  <2>6. QED
    BY <1>1, <1>4, <2>4, <2>5 DEF complete_rank, Mark, TypeOK
<1>5. ASSUME NEW a \in Attempts, fail_rank(a)
      PROVE  TypeOK'
  <2>1. PICK i \in Items : attempt[a].item = i
    BY <1>5 DEF fail_rank
  <2>2. attempt[a] \in AttemptRows
    BY <1>1, <2>1, AttemptIsRow
  <2>3. item[i] \in Rows
    BY <1>1
  <2>4. item[i].fails + 1 \in 0..RankCap
    <3>1. item[i].fails \in 0..RankCap /\ item[i].fails < RankCap
      BY <1>5, <2>1, <2>3 DEF fail_rank, Rankable, Rows, Capped
    <3>2. QED
      BY <3>1, Parameters
  <2>5. \A p \in {"unranked", "ranked", "rank_failed"}, b \in BOOLEAN :
          [item[i] EXCEPT !.fails = item[i].fails + 1, !.proc = p, !.body = b] \in Rows
    BY <2>3, <2>4 DEF Rows
  <2>6. item[i].proc \in {"unranked", "ranked", "rank_failed"} /\ item[i].body \in BOOLEAN
    BY <2>3 DEF Rows
  <2>7. item' \in [Items -> Rows]
    BY <1>1, <1>5, <2>1, <2>5, <2>6 DEF fail_rank, Become
  <2>8. [attempt[a] EXCEPT !.status = "released"] \in AttemptRows
    BY <2>2 DEF AttemptRows
  <2>9. QED
    BY <1>1, <1>5, <2>7, <2>8 DEF fail_rank, Mark, TypeOK
<1>6. ASSUME NEW a \in Attempts, release_rank_transient(a)
      PROVE  TypeOK'
  <2>1. attempt[a] \in AttemptRows
    BY <1>1, <1>6 DEF release_rank_transient, NoAttempt
  <2>2. [attempt[a] EXCEPT !.status = "released"] \in AttemptRows
    BY <2>1 DEF AttemptRows
  <2>3. QED
    BY <1>1, <1>6, <2>2 DEF release_rank_transient, Mark, TypeOK
<1>7. QED
  BY <1>2, <1>3, <1>4, <1>5, <1>6 DEF Ranker

\* The steps that set columns of single rows and touch no attempt.
LEMMA RowsTyped ==
    ASSUME TypeOK, Watcher \/ Surface
    PROVE  TypeOK'
<1>1. /\ item \in [Items -> Rows] /\ attempt \in [Attempts -> AttemptRows \union {NoAttempt}]
      /\ deliveries \subseteq Attempts /\ issued \in 0..MaxAttempts
      /\ turn \in 0..MaxTurns /\ watching \in BOOLEAN
  BY DEF TypeOK
<1>2. CASE insert_loop
  BY <1>1, <1>2 DEF insert_loop, TypeOK
<1>3. ASSUME NEW i \in Items, insert_item(i)
      PROVE  TypeOK'
  <2>1. [Blank EXCEPT !.life = "here"] \in Rows
    BY Zeros DEF Blank, Rows
  <2>2. QED
    BY <1>1, <1>3, <2>1 DEF insert_item, Become, TypeOK
<1>4. ASSUME NEW i \in Items, bind_open_loop_match(i)
      PROVE  TypeOK'
  <2>1. \A e \in Eligibilities : [item[i] EXCEPT !.matched = TRUE, !.elig = e] \in Rows
    BY <1>1, RowWith
  <2>2. item[i].elig \in Eligibilities /\ "eligible" \in Eligibilities
    BY <1>1 DEF Rows, Eligibilities
  <2>3. item' \in [Items -> Rows]
    BY <1>1, <1>4, <2>1, <2>2 DEF bind_open_loop_match, Become
  <2>4. QED
    BY <1>1, <1>4, <2>3 DEF bind_open_loop_match, TypeOK
<1>5. CASE begin_turn
  BY <1>1, <1>5, Parameters DEF begin_turn, TypeOK
<1>6. ASSUME NEW i \in Items, NEW t \in Turns, provisional_select(i, t)
      PROVE  TypeOK'
  <2>1. t \in 0..MaxTurns
    BY Parameters DEF Turns
  <2>2. [item[i] EXCEPT !.surf = t, !.fresh = TRUE] \in Rows
    BY <1>1, <2>1, RowWith
  <2>3. QED
    BY <1>1, <1>6, <2>2 DEF provisional_select, Become, TypeOK
<1>7. ASSUME NEW t \in Turns, confirm_surface_attempt(t)
      PROVE  TypeOK'
  <2>1. ASSUME NEW i \in Items
        PROVE  item'[i] \in Rows
    <3>1. item[i] \in Rows /\ item[i].told \in 0..InjectCap
      BY <1>1 DEF Rows
    <3>2. CASE Confirmable(item[i], t)
      <4>1. item[i].told + 1 \in 0..InjectCap
        BY <3>1, <3>2, Parameters DEF Confirmable, Tellable
      <4>2. [item[i] EXCEPT !.conv = "selected", !.told = item[i].told + 1, !.rested = FALSE,
               !.surf = 0, !.fresh = FALSE] \in Rows
        BY <3>1, <4>1, Zeros DEF Rows
      <4>3. QED
        BY <1>7, <3>2, <4>2 DEF confirm_surface_attempt
    <3>3. CASE ~Confirmable(item[i], t)
      BY <1>7, <3>1, <3>3 DEF confirm_surface_attempt
    <3>4. QED
      BY <3>2, <3>3
  <2>2. item' \in [Items -> Rows]
    BY <1>7, <2>1 DEF confirm_surface_attempt
  <2>3. QED
    BY <1>1, <1>7, <2>2 DEF confirm_surface_attempt, TypeOK
<1>8. ASSUME NEW t \in Turns, release_surface_attempt(t)
      PROVE  TypeOK'
  <2>1. \A i \in Items : [item[i] EXCEPT !.surf = 0, !.fresh = FALSE] \in Rows
    BY <1>1, RowWith
  <2>2. item' \in [Items -> Rows]
    BY <1>1, <1>8, <2>1 DEF release_surface_attempt
  <2>3. QED
    BY <1>1, <1>8, <2>2 DEF release_surface_attempt, TypeOK
<1>9. ASSUME NEW i \in Items, mark_possibly_surfaced(i)
      PROVE  TypeOK'
  <2>1. [item[i] EXCEPT !.conv = "possibly_surfaced"] \in Rows
    BY <1>1 DEF Rows
  <2>2. QED
    BY <1>1, <1>9, <2>1 DEF mark_possibly_surfaced, Become, TypeOK
<1>10. QED
  BY <1>2, <1>3, <1>4, <1>5, <1>6, <1>7, <1>8, <1>9 DEF Watcher, Surface

LEMMA OwnerTyped ==
    ASSUME TypeOK, Owner \/ Clock
    PROVE  TypeOK'
<1>1. /\ item \in [Items -> Rows] /\ attempt \in [Attempts -> AttemptRows \union {NoAttempt}]
      /\ deliveries \subseteq Attempts /\ issued \in 0..MaxAttempts
      /\ turn \in 0..MaxTurns /\ watching \in BOOLEAN
  BY DEF TypeOK
<1>2. ASSUME NEW i \in Items, acknowledge(i)
      PROVE  TypeOK'
  <2>1. [item[i] EXCEPT !.conv = "acknowledged"] \in Rows
    BY <1>1 DEF Rows
  <2>2. QED
    BY <1>1, <1>2, <2>1 DEF acknowledge, Become, satisfyWatches, TypeOK
<1>3. ASSUME NEW i \in Items, dismiss_item(i)
      PROVE  TypeOK'
  <2>1. [item[i] EXCEPT !.closed = "dismissed", !.text = FALSE] \in Rows
    BY <1>1, RowWith
  <2>2. QED
    BY <1>1, <1>3, <2>1 DEF dismiss_item, Become, TypeOK
<1>4. ASSUME NEW S \in SUBSET Items, forget_subject(S)
      PROVE  TypeOK'
  <2>1. Gone \in Rows
    BY Zeros DEF Gone, Blank, Rows
  <2>2. \A i \in Items : Redacted(item[i]) \in Rows
    BY <1>1, RowWith
  <2>3. item' \in [Items -> Rows]
    BY <1>1, <1>4, <2>1, <2>2 DEF forget_subject
  <2>4. ASSUME NEW a \in Attempts
        PROVE  forgetAttempts(S)[a] \in AttemptRows \union {NoAttempt}
    <3>1. CASE attempt[a].item \in S
      <4>1. attempt[a] \in AttemptRows
        BY <1>1, <3>1, AttemptIsRow
      <4>2. [attempt[a] EXCEPT !.status = "released"] \in AttemptRows
        BY <4>1 DEF AttemptRows
      <4>3. QED
        BY <4>1, <4>2 DEF forgetAttempts
    <3>2. CASE attempt[a].item \notin S
      BY <1>1, <3>2 DEF forgetAttempts
    <3>3. QED
      BY <3>1, <3>2
  <2>5. attempt' \in [Attempts -> AttemptRows \union {NoAttempt}]
    BY <1>4, <2>4 DEF forget_subject, forgetAttempts
  <2>6. deliveries' \subseteq Attempts /\ watching' \in BOOLEAN
    BY <1>1, <1>4 DEF forget_subject, forgetDeliveries
  <2>7. QED
    BY <1>1, <1>4, <2>3, <2>5, <2>6 DEF forget_subject, TypeOK
<1>5. ASSUME NEW a \in Attempts, LeaseExpires(a)
      PROVE  TypeOK'
  <2>1. attempt[a] \in AttemptRows
    BY <1>1, <1>5 DEF LeaseExpires, NoAttempt
  <2>2. [attempt[a] EXCEPT !.live = FALSE] \in AttemptRows
    BY <2>1 DEF AttemptRows
  <2>3. QED
    BY <1>1, <1>5, <2>2 DEF LeaseExpires, TypeOK
<1>6. ASSUME NEW i \in Items, SurfaceLapses(i) \/ Rests(i)
      PROVE  TypeOK'
  <2>1. [item[i] EXCEPT !.fresh = FALSE] \in Rows /\ [item[i] EXCEPT !.rested = TRUE] \in Rows
    BY <1>1, RowWith
  <2>2. QED
    BY <1>1, <1>6, <2>1 DEF SurfaceLapses, Rests, Become, TypeOK
<1>7. ASSUME NEW i \in Items, Ages(i)
      PROVE  TypeOK'
  <2>1. item[i] \in Rows /\ item[i].age + 1 \in 0..2
    BY <1>1, <1>7 DEF Ages, Rows
  <2>2. [item[i] EXCEPT !.age = item[i].age + 1] \in Rows
    BY <2>1 DEF Rows
  <2>3. QED
    BY <1>1, <1>7, <2>2 DEF Ages, Become, TypeOK
<1>8. QED
  BY <1>2, <1>3, <1>4, <1>5, <1>6, <1>7 DEF Owner, Clock

-----------------------------------------------------------------------------
(* The purge. *)

\* What every pass of the purge does to a row at most: it empties and closes.
Milder(r, q) ==
    /\ q \in Rows
    /\ q.life = r.life /\ q.deliv = r.deliv /\ q.proc = r.proc /\ q.fails = r.fails
    /\ (q.content = "forgotten") <=> (r.content = "forgotten")
    /\ r.content # "available" => q.content # "available"
    /\ q.closed = "dismissed" => r.closed = "dismissed"
    /\ q.text => r.text
    /\ q.body => r.body

LEMMA MilderTrans ==
    ASSUME NEW r, NEW q, NEW p, Milder(r, q), Milder(q, p)
    PROVE  Milder(r, p)
  BY DEF Milder

LEMMA PassesMilder ==
    ASSUME NEW r \in Rows, NEW mail \in BOOLEAN, NEW kept \in BOOLEAN
    PROVE  /\ Milder(r, r) /\ Milder(r, Unbodied(r)) /\ Milder(r, Untexted(r))
           /\ Milder(r, Emptied(r, mail)) /\ Milder(r, AgedOut(r, kept))
<1>1. Milder(r, r)
  BY DEF Milder
<1>2. \A e \in {"eligible", "expired"} : r.content = "available" =>
        Milder(r, [r EXCEPT !.body = FALSE, !.content = "content_expired", !.elig = e])
  BY DEF Milder, Rows
<1>3. Milder(r, [r EXCEPT !.body = FALSE])
  BY DEF Milder, Rows
<1>4. Milder(r, Unbodied(r))
  BY <1>1, <1>2, <1>3 DEF Unbodied
<1>5. Milder(r, [r EXCEPT !.text = FALSE])
  BY DEF Milder, Rows
<1>6. Milder(r, Untexted(r))
  BY <1>1, <1>5 DEF Untexted
<1>7. r.content = "available" => Milder(r, [r EXCEPT !.content = "content_expired"])
  BY DEF Milder, Rows
<1>8. Milder(r, Emptied(r, mail))
  BY <1>1, <1>7 DEF Emptied
<1>9. r.closed = "no" => Milder(r, [r EXCEPT !.closed = "aged_out"])
  BY DEF Milder, Rows
<1>10. Milder(r, AgedOut(r, kept))
  BY <1>1, <1>9 DEF AgedOut
<1>11. QED
  BY <1>1, <1>4, <1>6, <1>8, <1>10

LEMMA PurgedMilder ==
    ASSUME NEW r \in Rows, NEW mail \in BOOLEAN, NEW kept \in BOOLEAN
    PROVE  Milder(r, Purged(r, mail, kept))
<1> DEFINE a == Unbodied(r)
           b == Untexted(a)
           c == Emptied(b, mail)
           d == AgedOut(c, kept)
<1>1. Milder(r, a) /\ a \in Rows
  BY PassesMilder DEF Milder
<1>2. Milder(a, b) /\ b \in Rows
  BY <1>1, PassesMilder DEF Milder
<1> HIDE DEF a, b
<1>3. Milder(b, c) /\ c \in Rows
  BY <1>2, PassesMilder DEF Milder
<1> HIDE DEF c
<1>4. Milder(c, d)
  BY <1>3, PassesMilder
<1> HIDE DEF d
<1>5. Milder(r, d)
  BY <1>1, <1>2, <1>3, <1>4, MilderTrans
<1>6. Milder(r, r)
  BY PassesMilder
<1>7. Purged(r, mail, kept) = r \/ Purged(r, mail, kept) = d
  BY DEF Purged, a, b, c, d
<1>8. QED
  BY <1>5, <1>6, <1>7

\* The tables after the purge are those after recovery, only milder.
LEMMA PurgeSteps ==
    ASSUME TypeOK, NEW kept, NEW old, NEW lapsed \in BOOLEAN,
           purge_retention(kept, old, lapsed)
    PROVE  /\ Typed(recoverItems, recoverAttempts) /\ TypeOK'
           /\ \A i \in Items : Milder(recoverItems[i], item'[i])
           /\ \A a \in Attempts :
                /\ attempt'[a].item = recoverAttempts[a].item
                /\ attempt'[a].purpose = recoverAttempts[a].purpose
                /\ recoverAttempts[a].purpose = "speech" =>
                     attempt'[a].status = recoverAttempts[a].status
                /\ recoverAttempts[a] = NoAttempt => attempt'[a] = NoAttempt
<1>1. /\ item \in [Items -> Rows] /\ attempt \in [Attempts -> AttemptRows \union {NoAttempt}]
      /\ deliveries \subseteq Attempts /\ issued \in 0..MaxAttempts
      /\ turn \in 0..MaxTurns /\ watching \in BOOLEAN
  BY DEF TypeOK
<1>2. Typed(recoverItems, recoverAttempts)
  BY <1>1, RecoveredTyped DEF Typed
<1>3. ASSUME NEW i \in Items
      PROVE  Milder(recoverItems[i], item'[i])
  <2>1. item'[i] = Purged(recoverItems[i], i \in Mail, i \in kept)
    BY DEF purge_retention
  <2>2. recoverItems[i] \in Rows
    BY <1>2 DEF Typed
  <2>3. (i \in Mail) \in BOOLEAN /\ (i \in kept) \in BOOLEAN
    OBVIOUS
  <2>4. QED
    BY <2>1, <2>2, <2>3, PurgedMilder
<1>4. item' \in [Items -> Rows]
  BY <1>3 DEF purge_retention, Milder
<1>5. ASSUME NEW a \in Attempts
      PROVE  /\ attempt'[a] \in AttemptRows \union {NoAttempt}
             /\ attempt'[a].item = recoverAttempts[a].item
             /\ attempt'[a].purpose = recoverAttempts[a].purpose
             /\ recoverAttempts[a].purpose = "speech" =>
                  attempt'[a].status = recoverAttempts[a].status
             /\ recoverAttempts[a] = NoAttempt => attempt'[a] = NoAttempt
  <2>1. Typed(item, attempt)
    BY <1>1 DEF Typed
  <2>2. recoverAttempts[a] \in AttemptRows \union {NoAttempt}
    BY <1>2 DEF Typed
  <2>3. CASE attempt[a].purpose = "rank" /\ attempt[a].status = "open" /\ ~attempt[a].live
    <3>1. attempt'[a] = [attempt[a] EXCEPT !.status = "released"]
      BY <2>3 DEF purge_retention
    <3>2. recoverAttempts[a] = attempt[a]
      BY <2>3 DEF recoverAttempts
    <3>3. attempt[a] \in AttemptRows /\ attempt[a] # NoAttempt
      BY <1>1, <2>3 DEF NoAttempt
    <3>4. QED
      BY <2>3, <3>1, <3>2, <3>3 DEF AttemptRows
  <2>4. CASE ~(attempt[a].purpose = "rank" /\ attempt[a].status = "open" /\ ~attempt[a].live)
    <3>1. attempt'[a] = recoverAttempts[a]
      BY <2>4 DEF purge_retention
    <3>2. QED
      BY <2>2, <3>1
  <2>5. QED
    BY <2>3, <2>4
<1>6. attempt' \in [Attempts -> AttemptRows \union {NoAttempt}]
  BY <1>5 DEF purge_retention
<1>7. TypeOK'
  BY <1>1, <1>4, <1>6 DEF purge_retention, TypeOK
<1>8. QED
  BY <1>2, <1>3, <1>5, <1>7

-----------------------------------------------------------------------------
(* Deletion of a subject. *)

LEMMA ForgetGood ==
    ASSUME IInv, NEW S \in SUBSET Items, forget_subject(S)
    PROVE  Good(item', attempt', deliveries', issued')
<1> DEFINE it == item
           att == attempt
<1>1. TypeOK /\ Good(item, attempt, deliveries, issued) /\ Typed(item, attempt)
  BY DEF IInv, TypeOK, Typed
<1>2. ASSUME NEW i \in Items
      PROVE  /\ i \notin S => item'[i] = item[i]
             /\ i \in S /\ item[i].deliv \in inFlight =>
                  /\ item'[i].life = item[i].life /\ item'[i].deliv = item[i].deliv
                  /\ item'[i].content = "forgotten" /\ ~item'[i].text
             /\ i \in S /\ item[i].deliv \notin inFlight => item'[i] = Gone
  <2>1. item[i] \in Rows
    BY <1>1 DEF Typed
  <2>2. /\ Redacted(item[i]).life = item[i].life /\ Redacted(item[i]).deliv = item[i].deliv
        /\ Redacted(item[i]).content = "forgotten" /\ ~Redacted(item[i]).text
    BY <2>1 DEF Redacted, Rows
  <2>3. QED
    BY <2>2 DEF forget_subject
<1>3. ASSUME NEW a \in Attempts
      PROVE  /\ attempt[a].item \notin S => attempt'[a] = attempt[a]
             /\ attempt[a].item \in S /\ item[attempt[a].item].deliv \notin inFlight =>
                  attempt'[a] = NoAttempt
             /\ attempt[a].item \in S /\ item[attempt[a].item].deliv \in inFlight =>
                  /\ attempt'[a].item = attempt[a].item
                  /\ attempt'[a].purpose = attempt[a].purpose
                  /\ attempt[a].purpose = "speech" => attempt'[a].status # "open"
                  /\ attempt'[a].status = "completed" <=> attempt[a].status = "completed"
  <2>1. attempt[a].item \in S => attempt[a] \in AttemptRows
    BY <1>1, AttemptIsRow DEF Typed
  <2>2. attempt[a] \in AttemptRows =>
          /\ [attempt[a] EXCEPT !.status = "released"].item = attempt[a].item
          /\ [attempt[a] EXCEPT !.status = "released"].purpose = attempt[a].purpose
          /\ [attempt[a] EXCEPT !.status = "released"].status = "released"
    BY DEF AttemptRows
  <2>3. QED
    BY <2>1, <2>2 DEF forget_subject, forgetAttempts
<1>4. NoAttempt.item \notin Items
  BY Parameters DEF NoAttempt, Items
<1>5. ASSUME NEW i \in Items, NEW a \in Attempts
      PROVE  /\ Voice(attempt', i, a) <=> Voice(attempt, i, a) /\ i \notin S
             /\ Told(attempt', i, a) <=>
                  Told(attempt, i, a) /\ (i \in S => item[i].deliv \in inFlight)
  <2>1. CASE attempt[a].item \notin S
    BY <2>1, <1>3 DEF Voice, Told
  <2>2. CASE attempt[a].item \in S /\ item[attempt[a].item].deliv \notin inFlight
    BY <2>2, <1>3, <1>4 DEF Voice, Told
  <2>3. CASE attempt[a].item \in S /\ item[attempt[a].item].deliv \in inFlight
    BY <2>3, <1>3 DEF Voice, Told
  <2>4. QED
    BY <2>1, <2>2, <2>3
<1>6. Gone.life = "gone" /\ Gone.deliv = "none" /\ Gone.content = "available" /\ ~Gone.text
      /\ Gone.closed = "no"
  BY DEF Gone, Blank
<1>7. Rooted(item', attempt')
  <2> SUFFICES ASSUME NEW a \in Attempts, attempt'[a].item \in Items
               PROVE  item'[attempt'[a].item].life = "here"
    BY DEF Rooted
  <2>1. CASE attempt[a].item \notin S
    BY <2>1, <1>1, <1>2, <1>3 DEF Good, Rooted
  <2>2. CASE attempt[a].item \in S
    BY <2>2, <1>1, <1>2, <1>3, <1>4 DEF Good, Rooted
  <2>3. QED
    BY <2>1, <2>2
<1>8. OneVoice(item', attempt')
  <2> SUFFICES ASSUME NEW i \in Items, item'[i].life = "here"
               PROVE  /\ \A a, b \in Attempts : Voice(attempt', i, a) /\ Voice(attempt', i, b) => a = b
                      /\ (\E a \in Attempts : Voice(attempt', i, a)) <=>
                           (item'[i].deliv \in Speaking /\ item'[i].content # "forgotten")
    BY DEF OneVoice
  <2>1. CASE i \notin S
    BY <2>1, <1>1, <1>2, <1>5 DEF Good, OneVoice
  <2>2. CASE i \in S
    BY <2>2, <1>2, <1>5, <1>6
  <2>3. QED
    BY <2>1, <2>2
<1>9. OneTold(item', attempt')
  <2> SUFFICES ASSUME NEW i \in Items, item'[i].life = "here"
               PROVE  /\ \A a, b \in Attempts : Told(attempt', i, a) /\ Told(attempt', i, b) => a = b
                      /\ (item'[i].deliv = "delivered") <=> (\E a \in Attempts : Told(attempt', i, a))
    BY DEF OneTold
  <2>1. item'[i].deliv = item[i].deliv /\ item[i].life = "here"
        /\ (i \in S => item[i].deliv \in inFlight)
    BY <1>2, <1>6
  <2>2. \A a \in Attempts : Told(attempt', i, a) <=> Told(attempt, i, a)
    BY <2>1, <1>5
  <2>3. QED
    BY <2>1, <2>2, <1>1 DEF Good, OneTold
<1>10. Evidence(attempt', deliveries')
  <2> SUFFICES ASSUME NEW a \in deliveries'
               PROVE  /\ a \in Attempts /\ attempt'[a].item \in Items
                      /\ Told(attempt', attempt'[a].item, a)
    BY DEF Evidence
  <2>1. a \in deliveries /\ (attempt[a].item \in S => item[attempt[a].item].deliv \in inFlight)
    BY DEF forget_subject, forgetDeliveries
  <2>2. a \in Attempts /\ attempt[a].item \in Items /\ Told(attempt, attempt[a].item, a)
    BY <1>1, <2>1 DEF Good, Evidence
  <2>3. attempt'[a].item = attempt[a].item
    BY <2>1, <2>2, <1>3
  <2>4. QED
    BY <2>1, <2>2, <2>3, <1>5
<1>11. Unissued(attempt', issued')
  <2> SUFFICES ASSUME NEW a \in Attempts, a > issued PROVE attempt'[a] = NoAttempt
    BY DEF Unissued, forget_subject
  <2>1. attempt[a] = NoAttempt
    BY <1>1 DEF Good, Unissued
  <2>2. attempt[a].item \notin S
    BY <2>1, <1>4
  <2>3. QED
    BY <2>1, <2>2, <1>3
<1>12. Untold(item') /\ Wiped(item')
  <2>1. \A i \in Items : item'[i].life # "here" => item'[i].deliv = "none"
    BY <1>1, <1>2, <1>6 DEF Good, Untold, forget_subject
  <2>2. \A i \in Items :
          item'[i].content = "forgotten" \/ item'[i].closed = "dismissed" => ~item'[i].text
    BY <1>1, <1>2, <1>6 DEF Good, Wiped
  <2>3. QED
    BY <2>1, <2>2 DEF Untold, Wiped
<1>13. QED
  BY <1>7, <1>8, <1>9, <1>10, <1>11, <1>12 DEF Good

-----------------------------------------------------------------------------
(* Every step keeps the invariant. *)

LEMMA NextTyped ==
    ASSUME TypeOK, Capped(item), Next
    PROVE  TypeOK'
<1>1. CASE Purge
  BY <1>1, PurgeSteps DEF Purge
<1>2. QED
  BY <1>1, SpeechTyped, RankerTyped, RowsTyped, OwnerTyped DEF Next

LEMMA SpeechGood ==
    ASSUME IInv, TypeOK', Speech
    PROVE  Good(item', attempt', deliveries', issued')
<1>1. Good(item, attempt, deliveries, issued) /\ Typed(item, attempt) /\ issued \in Nat
  BY Parameters DEF IInv, TypeOK, Typed
<1>2. /\ Good(recoverItems, recoverAttempts, deliveries, issued)
      /\ Typed(recoverItems, recoverAttempts)
  BY <1>1, RecoveredGood, RecoveredTyped
<1>3. CASE recover_speech
  BY <1>2, <1>3 DEF recover_speech
<1>4. CASE claim_next_speech
  <2>1. speechReady \in SUBSET Items /\ speechReady # {}
    BY <1>4 DEF claim_next_speech, speechReady
  <2>2. PICK i \in Items : i = First(speechReady) /\ i \in speechReady
    BY <2>1, FirstIn
  <2>3. recoverItems[i].life = "here" /\ recoverItems[i].deliv = "none"
        /\ recoverItems[i].content # "forgotten"
    BY <2>2 DEF speechReady, Speakable
  <2>4. issued + 1 \in Attempts /\ issued' = issued + 1 /\ deliveries' = deliveries
    BY <1>1, <1>4, Parameters DEF claim_next_speech, Issue, Attempts
  <2>5. item' = [recoverItems EXCEPT ![i].deliv = "claimed"]
    BY <1>4, <2>2 DEF claim_next_speech
  <2>6. attempt' = [recoverAttempts EXCEPT ![issued + 1] =
                      [item |-> i, purpose |-> "speech", status |-> "open", live |-> TRUE]]
    BY <1>4, <2>2 DEF claim_next_speech, Opened
  <2>7. QED
    BY <1>1, <1>2, <2>3, <2>4, <2>5, <2>6, Opens
<1>5. ASSUME NEW i \in Items, NEW a \in Attempts, mark_speech_started(i, a)
      PROVE  Good(item', attempt', deliveries', issued')
  <2>1. Here(i) /\ item[i].deliv = "claimed" /\ Voice(attempt, i, a)
    BY <1>5 DEF mark_speech_started, Claimed, Open, Voice
  <2>2. item[i] \in Rows /\ attempt[a] \in AttemptRows
    BY <1>1, <2>1, AttemptIsRow DEF Typed, Voice
  <2>3. /\ item' = [item EXCEPT ![i] = [item[i] EXCEPT !.deliv = "speech_started"]]
        /\ attempt' = [attempt EXCEPT ![a].live = TRUE]
        /\ deliveries' = deliveries /\ issued' = issued
    BY <1>5 DEF mark_speech_started, Become
  <2>4. ASSUME NEW j \in Items
        PROVE  /\ item'[j].life = item[j].life /\ item'[j].content = item[j].content
               /\ item'[j].closed = item[j].closed /\ item'[j].text = item[j].text
               /\ item'[j].deliv = IF j = i THEN "speech_started" ELSE item[j].deliv
    BY <1>1, <2>2, <2>3 DEF Typed, Rows
  <2>5. ASSUME NEW b \in Attempts
        PROVE  /\ attempt'[b].item = attempt[b].item /\ attempt'[b].purpose = attempt[b].purpose
               /\ attempt'[b].status = attempt[b].status
               /\ attempt[b] = NoAttempt => attempt'[b] = NoAttempt
    <3>1. CASE b = a
      <4>1. attempt[a].item \in Items /\ NoAttempt.item \notin Items
        BY <2>1, Parameters DEF Voice, NoAttempt, Items
      <4>2. QED
        BY <1>1, <2>2, <2>3, <3>1, <4>1 DEF Typed, AttemptRows
    <3>2. CASE b # a
      BY <1>1, <2>3, <3>2 DEF Typed
    <3>3. QED
      BY <3>1, <3>2
  <2>6. \A j \in Items, b \in Attempts : /\ Voice(attempt', j, b) <=> Voice(attempt, j, b)
                                         /\ Told(attempt', j, b) <=> Told(attempt, j, b)
    BY <2>5 DEF Voice, Told
  <2>7. Rooted(item', attempt')
    BY <1>1, <2>4, <2>5 DEF Good, Rooted
  <2>8. OneVoice(item', attempt')
    BY <1>1, <2>1, <2>4, <2>6 DEF Good, OneVoice, Speaking
  <2>9. OneTold(item', attempt')
    BY <1>1, <2>1, <2>4, <2>6 DEF Good, OneTold
  <2>10. Evidence(attempt', deliveries')
    BY <1>1, <2>3, <2>5, <2>6 DEF Good, Evidence
  <2>11. Unissued(attempt', issued')
    BY <1>1, <2>3, <2>5 DEF Good, Unissued
  <2>12. Untold(item') /\ Wiped(item')
    BY <1>1, <2>1, <2>4 DEF Good, Untold, Wiped, Here
  <2>13. QED
    BY <2>7, <2>8, <2>9, <2>10, <2>11, <2>12 DEF Good
<1>6. ASSUME NEW i \in Items, NEW a \in Attempts, mark_delivered(i, a)
      PROVE  Good(item', attempt', deliveries', issued')
  <2>1. item[i].life = "here" /\ Voice(attempt, i, a)
    BY <1>6 DEF mark_delivered, Spoken, Here, Open, Voice
  <2>2. /\ item' = [item EXCEPT ![i] = [item[i] EXCEPT !.deliv = "delivered"]]
        /\ attempt' = [attempt EXCEPT ![a].status = "completed"]
        /\ deliveries' = deliveries \union {a} /\ issued' = issued
    BY <1>6 DEF mark_delivered, Become, Mark
  <2>3. QED
    BY <1>1, <2>1, <2>2, Falls
<1>7. ASSUME NEW i \in Items, NEW a \in Attempts, mark_delivery_uncertain(i, a)
      PROVE  Good(item', attempt', deliveries', issued')
  <2>1. item[i].life = "here" /\ Voice(attempt, i, a)
    BY <1>7 DEF mark_delivery_uncertain, Spoken, Here, Open, Voice
  <2>2. /\ item' = [item EXCEPT ![i] = [item[i] EXCEPT !.deliv = "delivery_uncertain"]]
        /\ attempt' = [attempt EXCEPT ![a].status = "uncertain"]
        /\ deliveries' = deliveries /\ issued' = issued
    BY <1>7 DEF mark_delivery_uncertain, Become, Mark
  <2>3. QED
    BY <1>1, <2>1, <2>2, Falls
<1>8. ASSUME NEW i \in Items, NEW a \in Attempts, release_speech_claim(i, a)
      PROVE  Good(item', attempt', deliveries', issued')
  <2>1. item[i].life = "here" /\ Voice(attempt, i, a)
    BY <1>8 DEF release_speech_claim, Claimed, Here, Open, Voice
  <2>2. /\ item' = [item EXCEPT ![i] = [item[i] EXCEPT !.deliv = "none"]]
        /\ attempt' = [attempt EXCEPT ![a].status = "released"]
        /\ deliveries' = deliveries /\ issued' = issued
    BY <1>8 DEF release_speech_claim, Become, Mark
  <2>3. QED
    BY <1>1, <2>1, <2>2, Falls
<1>9. QED
  BY <1>3, <1>4, <1>5, <1>6, <1>7, <1>8 DEF Speech

-----------------------------------------------------------------------------
(* The steps beside speech, insertion, deletion and purge. *)

Elsewhere ==
    \/ insert_loop \/ \E i \in Items : bind_open_loop_match(i)
    \/ Ranker \/ Surface
    \/ \E i \in Items : acknowledge(i) \/ dismiss_item(i)
    \/ Clock

\* What they do to a row at most.
Aside(r, q) ==
    /\ q.life = r.life /\ q.deliv = r.deliv /\ q.content = r.content
    /\ q.closed = "dismissed" => r.closed = "dismissed" \/ ~q.text
    /\ q.text => r.text \/ (r.content # "forgotten" /\ r.closed # "dismissed")
    /\ q.body => r.body
    /\ q.proc = "unranked" => r.proc = "unranked" /\ (q.fails = r.fails \/ q.fails < RankCap)

LEMMA AsideSame == ASSUME NEW r PROVE Aside(r, r)
  BY DEF Aside

\* A step that replaces one row by one that only differs aside.
LEMMA AsideOne ==
    ASSUME item \in [Items -> Rows], NEW i \in Items, NEW q, item' = [item EXCEPT ![i] = q],
           Aside(item[i], q)
    PROVE  \A j \in Items : Aside(item[j], item'[j])
  BY AsideSame

LEMMA RankerAside ==
    ASSUME TypeOK, Ranker
    PROVE  \A j \in Items : Aside(item[j], item'[j])
<1>1. item \in [Items -> Rows]
  BY DEF TypeOK
<1>2. CASE claim_next_rank
  BY <1>2, AsideSame DEF claim_next_rank
<1>3. ASSUME NEW i \in Items, rank_calendar(i)
      PROVE  \A j \in Items : Aside(item[j], item'[j])
  <2>1. Aside(item[i], [item[i] EXCEPT !.proc = "ranked", !.elig = "eligible"])
    BY <1>1 DEF Aside, Rows
  <2>2. QED
    BY <1>1, <1>3, <2>1, AsideOne DEF rank_calendar, Become
<1>4. ASSUME NEW a \in Attempts, NEW label, complete_rank(a, label)
      PROVE  \A j \in Items : Aside(item[j], item'[j])
  <2>1. PICK i \in Items : attempt[a].item = i
    BY <1>4 DEF complete_rank
  <2>2. item[i].content = "available" /\ item[i].closed = "no"
    BY <1>4, <2>1 DEF complete_rank, Rankable
  <2>3. \A e \in Eligibilities : Aside(item[i],
          [item[i] EXCEPT !.proc = "ranked", !.body = FALSE, !.text = TRUE, !.elig = e])
    BY <1>1, <2>2 DEF Aside, Rows
  <2>4. QED
    BY <1>1, <1>4, <2>1, <2>3, AsideOne DEF complete_rank, Become, Eligibilities
<1>5. ASSUME NEW a \in Attempts, fail_rank(a)
      PROVE  \A j \in Items : Aside(item[j], item'[j])
  <2>1. PICK i \in Items : attempt[a].item = i
    BY <1>5 DEF fail_rank
  <2>2. item[i] \in Rows /\ item[i].proc = "unranked" /\ item[i].fails \in 0..RankCap
    BY <1>1, <1>5, <2>1 DEF fail_rank, Rankable, Rows
  <2>3. item[i].fails + 1 >= RankCap => Aside(item[i], [item[i] EXCEPT
          !.fails = item[i].fails + 1, !.proc = "rank_failed", !.body = FALSE])
    BY <2>2 DEF Aside, Rows
  <2>4. item[i].fails + 1 < RankCap => Aside(item[i], [item[i] EXCEPT
          !.fails = item[i].fails + 1, !.proc = item[i].proc, !.body = item[i].body])
    BY <2>2 DEF Aside, Rows
  <2>5. item[i].fails + 1 >= RankCap \/ item[i].fails + 1 < RankCap
    BY <2>2, Parameters
  <2>6. CASE item[i].fails + 1 >= RankCap
    <3>1. item' = [item EXCEPT ![i] = [item[i] EXCEPT
            !.fails = item[i].fails + 1, !.proc = "rank_failed", !.body = FALSE]]
      BY <1>5, <2>1, <2>6 DEF fail_rank, Become
    <3>2. QED
      BY <1>1, <2>3, <2>6, <3>1, AsideOne
  <2>7. CASE item[i].fails + 1 < RankCap
    <3>1. ~ (item[i].fails + 1 >= RankCap)
      BY <2>2, <2>7, Parameters
    <3>2. item' = [item EXCEPT ![i] = [item[i] EXCEPT
            !.fails = item[i].fails + 1, !.proc = item[i].proc, !.body = item[i].body]]
      BY <1>5, <2>1, <3>1 DEF fail_rank, Become
    <3>3. QED
      BY <1>1, <2>4, <2>7, <3>2, AsideOne
  <2>8. QED
    BY <2>5, <2>6, <2>7
<1>6. ASSUME NEW a \in Attempts, release_rank_transient(a)
      PROVE  \A j \in Items : Aside(item[j], item'[j])
  BY <1>6, AsideSame DEF release_rank_transient
<1>7. QED
  BY <1>2, <1>3, <1>4, <1>5, <1>6 DEF Ranker

LEMMA SurfaceAside ==
    ASSUME TypeOK, Surface
    PROVE  \A j \in Items : Aside(item[j], item'[j])
<1>1. item \in [Items -> Rows]
  BY DEF TypeOK
<1>2. CASE begin_turn
  BY <1>2, AsideSame DEF begin_turn
<1>3. ASSUME NEW i \in Items, NEW t, provisional_select(i, t)
      PROVE  \A j \in Items : Aside(item[j], item'[j])
  <2>1. Aside(item[i], [item[i] EXCEPT !.surf = t, !.fresh = TRUE])
    BY <1>1 DEF Aside, Rows
  <2>2. QED
    BY <1>1, <1>3, <2>1, AsideOne DEF provisional_select, Become
<1>4. ASSUME NEW t, confirm_surface_attempt(t), NEW j \in Items
      PROVE  Aside(item[j], item'[j])
  <2>1. Aside(item[j], [item[j] EXCEPT !.conv = "selected", !.told = item[j].told + 1,
                          !.rested = FALSE, !.surf = 0, !.fresh = FALSE])
    BY <1>1 DEF Aside, Rows
  <2>2. QED
    BY <1>4, <2>1, AsideSame DEF confirm_surface_attempt
<1>5. ASSUME NEW t, release_surface_attempt(t), NEW j \in Items
      PROVE  Aside(item[j], item'[j])
  <2>1. Aside(item[j], [item[j] EXCEPT !.surf = 0, !.fresh = FALSE])
    BY <1>1 DEF Aside, Rows
  <2>2. QED
    BY <1>5, <2>1, AsideSame DEF release_surface_attempt
<1>6. ASSUME NEW i \in Items, mark_possibly_surfaced(i)
      PROVE  \A j \in Items : Aside(item[j], item'[j])
  <2>1. Aside(item[i], [item[i] EXCEPT !.conv = "possibly_surfaced"])
    BY <1>1 DEF Aside, Rows
  <2>2. QED
    BY <1>1, <1>6, <2>1, AsideOne DEF mark_possibly_surfaced, Become
<1>7. QED
  BY <1>2, <1>3, <1>4, <1>5, <1>6 DEF Surface

LEMMA ElsewhereAside ==
    ASSUME TypeOK, Elsewhere
    PROVE  \A j \in Items : Aside(item[j], item'[j])
<1>1. item \in [Items -> Rows]
  BY DEF TypeOK
<1>2. CASE insert_loop
  BY <1>2, AsideSame DEF insert_loop
<1>3. ASSUME NEW i \in Items, bind_open_loop_match(i)
      PROVE  \A j \in Items : Aside(item[j], item'[j])
  <2>1. \A e \in Eligibilities : Aside(item[i], [item[i] EXCEPT !.matched = TRUE, !.elig = e])
    BY <1>1 DEF Aside, Rows
  <2>2. item[i].elig \in Eligibilities /\ "eligible" \in Eligibilities
    BY <1>1 DEF Rows, Eligibilities
  <2>3. QED
    BY <1>1, <1>3, <2>1, <2>2, AsideOne DEF bind_open_loop_match, Become
<1>4. ASSUME NEW i \in Items, acknowledge(i)
      PROVE  \A j \in Items : Aside(item[j], item'[j])
  <2>1. Aside(item[i], [item[i] EXCEPT !.conv = "acknowledged"])
    BY <1>1 DEF Aside, Rows
  <2>2. QED
    BY <1>1, <1>4, <2>1, AsideOne DEF acknowledge, Become
<1>5. ASSUME NEW i \in Items, dismiss_item(i)
      PROVE  \A j \in Items : Aside(item[j], item'[j])
  <2>1. Aside(item[i], [item[i] EXCEPT !.closed = "dismissed", !.text = FALSE])
    BY <1>1 DEF Aside, Rows
  <2>2. QED
    BY <1>1, <1>5, <2>1, AsideOne DEF dismiss_item, Become
<1>6. ASSUME NEW a \in Attempts, LeaseExpires(a)
      PROVE  \A j \in Items : Aside(item[j], item'[j])
  BY <1>6, AsideSame DEF LeaseExpires
<1>7. ASSUME NEW i \in Items, SurfaceLapses(i) \/ Rests(i) \/ Ages(i)
      PROVE  \A j \in Items : Aside(item[j], item'[j])
  <2>1. Aside(item[i], [item[i] EXCEPT !.fresh = FALSE])
    BY <1>1 DEF Aside, Rows
  <2>2. Aside(item[i], [item[i] EXCEPT !.rested = TRUE])
    BY <1>1 DEF Aside, Rows
  <2>3. Aside(item[i], [item[i] EXCEPT !.age = item[i].age + 1])
    BY <1>1 DEF Aside, Rows
  <2>4. QED
    BY <1>1, <1>7, <2>1, <2>2, <2>3, AsideOne DEF SurfaceLapses, Rests, Ages, Become
<1>8. CASE Clock
  BY <1>6, <1>7, <1>8 DEF Clock
<1>9. QED
  BY <1>2, <1>3, <1>4, <1>5, <1>8, RankerAside, SurfaceAside DEF Elsewhere

\* Nor do they touch a speech attempt, unless a rank lease is added.
LEMMA ElsewhereAttempts ==
    ASSUME TypeOK, Elsewhere, ~claim_next_rank
    PROVE  /\ deliveries' = deliveries /\ issued' = issued
           /\ \A a \in Attempts :
                /\ attempt'[a].item = attempt[a].item /\ attempt'[a].purpose = attempt[a].purpose
                /\ attempt[a].purpose = "speech" => attempt'[a].status = attempt[a].status
                /\ attempt[a] = NoAttempt => attempt'[a] = NoAttempt
<1>1. attempt \in [Attempts -> AttemptRows \union {NoAttempt}]
  BY DEF TypeOK
<1>2. deliveries' = deliveries /\ issued' = issued
  BY DEF Elsewhere, Ranker, Surface, Clock, insert_loop, bind_open_loop_match, acknowledge,
         dismiss_item, complete_rank, fail_rank, release_rank_transient, rank_calendar,
         begin_turn, provisional_select, confirm_surface_attempt, release_surface_attempt,
         mark_possibly_surfaced, LeaseExpires, SurfaceLapses, Rests, Ages
<1>3. \/ attempt' = attempt
      \/ \E a \in Attempts, st \in {"completed", "released"} :
           attempt[a].purpose = "rank" /\ Mark(a, st)
      \/ \E a \in Attempts : LeaseExpires(a)
  <2>1. ASSUME NEW a \in Attempts, NEW label, complete_rank(a, label)
        PROVE  attempt[a].purpose = "rank" /\ Mark(a, "completed")
    BY <2>1 DEF complete_rank, Live, Open
  <2>2. ASSUME NEW a \in Attempts, fail_rank(a)
        PROVE  attempt[a].purpose = "rank" /\ Mark(a, "released")
    BY <2>2 DEF fail_rank, Live, Open
  <2>3. ASSUME NEW a \in Attempts, release_rank_transient(a)
        PROVE  attempt[a].purpose = "rank" /\ Mark(a, "released")
    BY <2>3 DEF release_rank_transient
  <2>4. CASE Surface \/ insert_loop \/ \E i \in Items : bind_open_loop_match(i)
    BY <2>4 DEF Surface, insert_loop, bind_open_loop_match, begin_turn, provisional_select,
                confirm_surface_attempt, release_surface_attempt, mark_possibly_surfaced
  <2>5. CASE \E i \in Items : acknowledge(i) \/ dismiss_item(i)
    BY <2>5 DEF acknowledge, dismiss_item
  <2>6. CASE Clock
    BY <2>6 DEF Clock, SurfaceLapses, Rests, Ages
  <2>7. CASE Ranker
    BY <2>1, <2>2, <2>3, <2>7 DEF Ranker, rank_calendar
  <2>8. QED
    BY <2>4, <2>5, <2>6, <2>7 DEF Elsewhere
<1>4. ASSUME NEW b \in Attempts, NEW st \in {"completed", "released"},
             attempt[b].purpose = "rank", Mark(b, st), NEW a \in Attempts
      PROVE  /\ attempt'[a].item = attempt[a].item /\ attempt'[a].purpose = attempt[a].purpose
             /\ attempt[a].purpose = "speech" => attempt'[a].status = attempt[a].status
             /\ attempt[a] = NoAttempt => attempt'[a] = NoAttempt
  <2>1. attempt[b] \in AttemptRows /\ attempt[b] # NoAttempt
    BY <1>1, <1>4 DEF NoAttempt
  <2>2. QED
    BY <1>1, <1>4, <2>1 DEF Mark, AttemptRows
<1>5. ASSUME NEW b \in Attempts, LeaseExpires(b), NEW a \in Attempts
      PROVE  /\ attempt'[a].item = attempt[a].item /\ attempt'[a].purpose = attempt[a].purpose
             /\ attempt[a].purpose = "speech" => attempt'[a].status = attempt[a].status
             /\ attempt[a] = NoAttempt => attempt'[a] = NoAttempt
  <2>1. attempt[b] \in AttemptRows /\ attempt[b] # NoAttempt
    BY <1>1, <1>5 DEF LeaseExpires, NoAttempt
  <2>2. QED
    BY <1>1, <1>5, <2>1 DEF LeaseExpires, AttemptRows
<1>6. QED
  BY <1>2, <1>3, <1>4, <1>5

LEMMA ElsewhereGood ==
    ASSUME IInv, TypeOK', Elsewhere
    PROVE  Good(item', attempt', deliveries', issued')
<1>1. /\ TypeOK /\ Good(item, attempt, deliveries, issued) /\ Typed(item, attempt)
      /\ Typed(item', attempt') /\ issued \in Nat
  BY Parameters DEF IInv, TypeOK, Typed
<1>2. CASE claim_next_rank
  <2>1. PICK i \in Items : i = First(rankReady) /\ item[i].life = "here"
    <3>1. rankReady \in SUBSET Items /\ rankReady # {}
      BY <1>2, Parameters DEF claim_next_rank, rankReady, Items
    <3>2. First(rankReady) \in rankReady
      BY <3>1, FirstIn
    <3>3. QED
      BY <3>1, <3>2 DEF rankReady, Rankable, Here
  <2>2. issued + 1 \in Attempts
    BY <1>1, <1>2, Parameters DEF claim_next_rank, Issue, Attempts
  <2>3. /\ issued' = issued + 1 /\ deliveries' = deliveries /\ item' = item
        /\ attempt' = [attempt EXCEPT ![issued + 1] =
                         [item |-> i, purpose |-> "rank", status |-> "open", live |-> TRUE]]
    BY <1>2, <2>1 DEF claim_next_rank, Issue, Opened
  <2>4. QED
    BY <1>1, <2>1, <2>2, <2>3, Opens
<1>3. CASE ~claim_next_rank
  <2>1. \A j \in Items : Aside(item[j], item'[j])
    BY <1>1, ElsewhereAside
  <2>2. \A i \in Items : /\ item'[i].life = item[i].life /\ item'[i].deliv = item[i].deliv
                         /\ (item'[i].content = "forgotten") <=> (item[i].content = "forgotten")
    BY <2>1 DEF Aside
  <2>3. Wiped(item')
    <3>1. ASSUME NEW i \in Items, item'[i].content = "forgotten" \/ item'[i].closed = "dismissed"
          PROVE  ~item'[i].text
      <4>1. item[i].text \in BOOLEAN /\ item'[i].text \in BOOLEAN
        BY <1>1 DEF Typed, Rows
      <4>2. QED
        BY <1>1, <2>1, <3>1, <4>1 DEF Good, Wiped, Aside
    <3>2. QED
      BY <3>1 DEF Wiped
  <2>4. QED
    BY <1>1, <1>3, <2>2, <2>3, ElsewhereAttempts, SameLines
<1>4. QED
  BY <1>2, <1>3

LEMMA InsertGood ==
    ASSUME IInv, NEW i \in Items, insert_item(i)
    PROVE  Good(item', attempt', deliveries', issued')
<1>1. Good(item, attempt, deliveries, issued) /\ Typed(item, attempt)
  BY DEF IInv, TypeOK, Typed
<1>2. \A a \in Attempts : attempt[a].item # i
  BY <1>1 DEF insert_item, Good, Rooted
<1>3. /\ item'[i].life = "here" /\ item'[i].deliv = "none" /\ item'[i].content = "available"
      /\ item'[i].closed = "no" /\ \A j \in Items : j # i => item'[j] = item[j]
  BY <1>1 DEF insert_item, Become, Blank, Typed
<1>4. attempt' = attempt /\ deliveries' = deliveries /\ issued' = issued
  BY DEF insert_item
<1>5. Rooted(item', attempt')
  BY <1>1, <1>2, <1>3, <1>4 DEF Good, Rooted
<1>6. OneVoice(item', attempt')
  <2>1. \A a \in Attempts : ~Voice(attempt, i, a)
    BY <1>2 DEF Voice
  <2>2. QED
    BY <1>1, <1>3, <1>4, <2>1 DEF Good, OneVoice, Speaking
<1>7. OneTold(item', attempt')
  <2>1. \A a \in Attempts : ~Told(attempt, i, a)
    BY <1>2 DEF Told
  <2>2. QED
    BY <1>1, <1>3, <1>4, <2>1 DEF Good, OneTold
<1>8. Evidence(attempt', deliveries') /\ Unissued(attempt', issued')
  BY <1>1, <1>4 DEF Good
<1>9. Untold(item') /\ Wiped(item')
  BY <1>1, <1>3 DEF Good, Untold, Wiped
<1>10. QED
  BY <1>5, <1>6, <1>7, <1>8, <1>9 DEF Good

LEMMA PurgeGood ==
    ASSUME IInv, NEW kept, NEW old, NEW lapsed \in BOOLEAN, purge_retention(kept, old, lapsed)
    PROVE  Good(item', attempt', deliveries', issued')
<1>1. TypeOK /\ Good(item, attempt, deliveries, issued) /\ Typed(item, attempt)
  BY DEF IInv, TypeOK, Typed
<1>2. Good(recoverItems, recoverAttempts, deliveries, issued)
  BY <1>1, RecoveredGood
<1>3. /\ Typed(recoverItems, recoverAttempts) /\ TypeOK'
      /\ \A i \in Items : Milder(recoverItems[i], item'[i])
  BY <1>1, PurgeSteps
<1>4. Typed(item', attempt')
  BY <1>3 DEF TypeOK, Typed
<1>5. Wiped(item')
  <2> SUFFICES ASSUME NEW i \in Items,
                      item'[i].content = "forgotten" \/ item'[i].closed = "dismissed"
               PROVE  ~item'[i].text
    BY DEF Wiped
  <2>1. ~recoverItems[i].text
    BY <1>2, <1>3 DEF Good, Wiped, Milder
  <2>2. QED
    BY <1>3, <2>1 DEF Milder
<1>6. \A i \in Items : /\ item'[i].life = recoverItems[i].life
                       /\ item'[i].deliv = recoverItems[i].deliv
                       /\ (item'[i].content = "forgotten") <=>
                            (recoverItems[i].content = "forgotten")
  BY <1>3 DEF Milder
<1>7. Good(item', attempt', deliveries, issued)
  BY <1>1, <1>2, <1>3, <1>4, <1>5, <1>6, PurgeSteps, SameLines
<1>8. issued' = issued /\ deliveries' \subseteq deliveries
  BY DEF purge_retention
<1>9. Evidence(attempt', deliveries')
  BY <1>7, <1>8 DEF Good, Evidence
<1>10. QED
  BY <1>7, <1>8, <1>9 DEF Good

LEMMA NextCases ==
    ASSUME Next
    PROVE  \/ Speech \/ Elsewhere
           \/ \E i \in Items : insert_item(i)
           \/ \E S \in SUBSET Items : forget_subject(S)
           \/ \E kept, old : \E lapsed \in BOOLEAN : purge_retention(kept, old, lapsed)
  BY DEF Next, Elsewhere, Watcher, Owner, Purge

\* The columns that recovery and the verdicts leave alone.
LEMMA SpeechRows ==
    ASSUME TypeOK, Speech, NEW j \in Items
    PROVE  /\ item'[j].life = item[j].life /\ item'[j].content = item[j].content
           /\ item'[j].closed = item[j].closed /\ item'[j].text = item[j].text
           /\ item'[j].body = item[j].body
           /\ item'[j].proc = item[j].proc /\ item'[j].fails = item[j].fails
           /\ item[j].deliv \in Started =>
                /\ item'[j].deliv \in Started
                /\ item[j].deliv # "speech_started" => item'[j].deliv = item[j].deliv
<1>1. item \in [Items -> Rows] /\ Typed(item, attempt) /\ item[j] \in Rows
  BY DEF TypeOK, Typed
<1>2. /\ recoverItems[j].life = item[j].life /\ recoverItems[j].content = item[j].content
      /\ recoverItems[j].closed = item[j].closed /\ recoverItems[j].text = item[j].text
      /\ recoverItems[j].body = item[j].body
      /\ recoverItems[j].proc = item[j].proc /\ recoverItems[j].fails = item[j].fails
      /\ item[j].deliv \in Started =>
           /\ recoverItems[j].deliv \in Started
           /\ item[j].deliv # "speech_started" => recoverItems[j].deliv = item[j].deliv
  BY <1>1 DEF recoverItems, Rows, Started
<1>3. recoverItems \in [Items -> Rows]
  BY <1>1, RecoveredTyped DEF Typed
<1>4. CASE recover_speech
  BY <1>2, <1>4 DEF recover_speech
<1>5. CASE claim_next_speech
  <2>1. speechReady \in SUBSET Items /\ speechReady # {}
    BY <1>5 DEF claim_next_speech, speechReady
  <2>2. PICK i \in Items : i = First(speechReady) /\ recoverItems[i].deliv = "none"
    BY <2>1, FirstIn DEF speechReady, Speakable
  <2>3. item' = [recoverItems EXCEPT ![i].deliv = "claimed"]
    BY <1>5, <2>2 DEF claim_next_speech
  <2>4. CASE j # i
    BY <1>2, <1>3, <2>3, <2>4
  <2>5. CASE j = i
    <3>1. recoverItems[j] \in Rows
      BY <1>3
    <3>2. item[j].deliv \notin Started
      BY <1>2, <2>2, <2>5 DEF Started
    <3>3. QED
      BY <1>2, <1>3, <2>3, <2>5, <3>1, <3>2 DEF Rows
  <2>6. QED
    BY <2>4, <2>5
<1>6. ASSUME NEW i \in Items, NEW a \in Attempts, NEW d, d \in Started \/ d = "none",
             item' = [item EXCEPT ![i] = [item[i] EXCEPT !.deliv = d]],
             \/ item[i].deliv = "claimed"
             \/ item[i].deliv = "speech_started" /\ d \in Started
      PROVE  /\ item'[j].life = item[j].life /\ item'[j].content = item[j].content
             /\ item'[j].closed = item[j].closed /\ item'[j].text = item[j].text
             /\ item'[j].body = item[j].body
             /\ item'[j].proc = item[j].proc /\ item'[j].fails = item[j].fails
             /\ item[j].deliv \in Started =>
                  /\ item'[j].deliv \in Started
                  /\ item[j].deliv # "speech_started" => item'[j].deliv = item[j].deliv
  <2>1. CASE j # i
    BY <1>1, <1>6, <2>1
  <2>2. CASE j = i
    BY <1>1, <1>6, <2>2 DEF Rows, Started
  <2>3. QED
    BY <2>1, <2>2
<1>7. ASSUME NEW i \in Items, NEW a \in Attempts, mark_speech_started(i, a)
      PROVE  /\ item' = [item EXCEPT ![i] = [item[i] EXCEPT !.deliv = "speech_started"]]
             /\ item[i].deliv = "claimed" /\ "speech_started" \in Started
  BY <1>7 DEF mark_speech_started, Claimed, Become, Started
<1>8. ASSUME NEW i \in Items, NEW a \in Attempts, mark_delivered(i, a)
      PROVE  /\ item' = [item EXCEPT ![i] = [item[i] EXCEPT !.deliv = "delivered"]]
             /\ item[i].deliv = "speech_started" /\ "delivered" \in Started
  BY <1>8 DEF mark_delivered, Spoken, Become, Started
<1>9. ASSUME NEW i \in Items, NEW a \in Attempts, mark_delivery_uncertain(i, a)
      PROVE  /\ item' = [item EXCEPT ![i] = [item[i] EXCEPT !.deliv = "delivery_uncertain"]]
             /\ item[i].deliv = "speech_started" /\ "delivery_uncertain" \in Started
  BY <1>9 DEF mark_delivery_uncertain, Spoken, Become, Started
<1>10. ASSUME NEW i \in Items, NEW a \in Attempts, release_speech_claim(i, a)
       PROVE  /\ item' = [item EXCEPT ![i] = [item[i] EXCEPT !.deliv = "none"]]
              /\ item[i].deliv = "claimed"
  BY <1>10 DEF release_speech_claim, Claimed, Become
<1>11. QED
  BY <1>4, <1>5, <1>6, <1>7, <1>8, <1>9, <1>10 DEF Speech

-----------------------------------------------------------------------------
(* What any step does to a row. *)

\* q may follow r: every step but the arrival and the deletion of the row.
Follows(r, q) ==
    /\ q.life = r.life
    /\ r.deliv \in Started =>
         /\ q.deliv \in Started
         /\ r.deliv # "speech_started" => q.deliv = r.deliv
    /\ r.content # "available" => q.content # "available"
    /\ q.body => r.body
    /\ q.text => r.text \/ (r.content # "forgotten" /\ r.closed # "dismissed")
    /\ q.proc = "unranked" => r.proc = "unranked" /\ (q.fails = r.fails \/ q.fails < RankCap)

LEMMA FollowsSame == ASSUME NEW r PROVE Follows(r, r)
  BY DEF Follows

LEMMA RowNext ==
    ASSUME TypeOK, Next, NEW j \in Items
    PROVE  \/ item[j].life = "unseen" /\ item'[j] = [Blank EXCEPT !.life = "here"]
           \/ item[j].life = "here" /\ item'[j] = Gone
           \/ Follows(item[j], item'[j])
<1>1. item \in [Items -> Rows] /\ Typed(item, attempt) /\ item[j] \in Rows
  BY DEF TypeOK, Typed
<1>2. CASE Speech
  BY <1>2, SpeechRows DEF Follows
<1>3. CASE Elsewhere
  <2>1. Aside(item[j], item'[j])
    BY <1>3, ElsewhereAside
  <2>2. QED
    BY <2>1 DEF Aside, Follows
<1>4. ASSUME NEW i \in Items, insert_item(i)
      PROVE  \/ item[j].life = "unseen" /\ item'[j] = [Blank EXCEPT !.life = "here"]
             \/ Follows(item[j], item'[j])
  BY <1>1, <1>4, FollowsSame DEF insert_item, Become
<1>5. ASSUME NEW S \in SUBSET Items, forget_subject(S)
      PROVE  \/ item[j].life = "here" /\ item'[j] = Gone
             \/ Follows(item[j], item'[j])
  <2>1. CASE j \notin S
    BY <1>5, <2>1, FollowsSame DEF forget_subject
  <2>2. CASE j \in S /\ item[j].deliv \in inFlight
    <3>1. item'[j] = Redacted(item[j])
      BY <1>5, <2>2 DEF forget_subject
    <3>2. Follows(item[j], Redacted(item[j]))
      BY <1>1 DEF Follows, Redacted, Rows
    <3>3. QED
      BY <3>1, <3>2
  <2>3. CASE j \in S /\ item[j].deliv \notin inFlight
    BY <1>5, <2>3 DEF forget_subject, Here
  <2>4. QED
    BY <2>1, <2>2, <2>3
<1>6. ASSUME NEW kept, NEW old, NEW lapsed \in BOOLEAN, purge_retention(kept, old, lapsed)
      PROVE  Follows(item[j], item'[j])
  <2>1. Milder(recoverItems[j], item'[j])
    BY <1>6, PurgeSteps
  <2>2. /\ recoverItems[j].life = item[j].life /\ recoverItems[j].content = item[j].content
        /\ recoverItems[j].closed = item[j].closed /\ recoverItems[j].text = item[j].text
        /\ recoverItems[j].body = item[j].body
        /\ recoverItems[j].proc = item[j].proc /\ recoverItems[j].fails = item[j].fails
        /\ item[j].deliv \in Started =>
             /\ recoverItems[j].deliv \in Started
             /\ item[j].deliv # "speech_started" => recoverItems[j].deliv = item[j].deliv
    BY <1>1 DEF recoverItems, Rows, Started
  <2>3. QED
    BY <2>1, <2>2 DEF Milder, Follows
<1>7. QED
  BY <1>2, <1>3, <1>4, <1>5, <1>6, NextCases

-----------------------------------------------------------------------------
(* The invariant. *)

LEMMA CappedNext ==
    ASSUME TypeOK, Capped(item), Next
    PROVE  Capped(item')
<1> SUFFICES ASSUME NEW j \in Items, item'[j].proc = "unranked"
             PROVE  item'[j].fails < RankCap
  BY DEF Capped
<1>1. CASE item'[j] = [Blank EXCEPT !.life = "here"]
  <2>1. item'[j].fails = 0
    BY <1>1 DEF Blank
  <2>2. QED
    BY <2>1, Zeros
<1>2. CASE item'[j] = Gone
  <2>1. item'[j].fails = 0
    BY <1>2 DEF Gone, Blank
  <2>2. QED
    BY <2>1, Zeros
<1>3. CASE Follows(item[j], item'[j])
  <2>1. item[j].proc = "unranked" /\ (item'[j].fails = item[j].fails \/ item'[j].fails < RankCap)
    BY <1>3 DEF Follows
  <2>2. item[j].fails < RankCap
    BY <2>1 DEF Capped
  <2>3. QED
    BY <2>1, <2>2
<1>4. QED
  BY <1>1, <1>2, <1>3, RowNext

LEMMA InitIInv == Init => IInv
<1> SUFFICES ASSUME Init PROVE IInv
  OBVIOUS
<1>1. \A i \in Items : item[i] = Blank
  BY DEF Init
<1>2. \A a \in Attempts : attempt[a] = NoAttempt
  BY DEF Init
<1>3. Blank \in Rows
  BY Zeros DEF Blank, Rows
<1>4. TypeOK
  BY <1>3, Zeros DEF Init, TypeOK
<1>5. Capped(item)
  BY <1>1, Zeros DEF Capped, Blank
<1>6. 0 \notin Items /\ \A a \in Attempts : attempt[a].item = 0
  BY <1>2, Parameters DEF Items, NoAttempt
<1>7. Rooted(item, attempt) /\ Evidence(attempt, deliveries) /\ Unissued(attempt, issued)
  BY <1>2, <1>6 DEF Init, Rooted, Evidence, Unissued
<1>8. OneVoice(item, attempt) /\ OneTold(item, attempt)
  BY <1>1, <1>6 DEF OneVoice, OneTold, Blank
<1>9. Untold(item) /\ Wiped(item)
  BY <1>1 DEF Untold, Wiped, Blank
<1>10. QED
  BY <1>4, <1>5, <1>7, <1>8, <1>9 DEF IInv, Good

LEMMA NextIInv == IInv /\ [Next]_vars => IInv'
<1>1. ASSUME IInv, Next
      PROVE  IInv'
  <2>1. TypeOK' /\ Capped(item')
    BY <1>1, NextTyped, CappedNext DEF IInv
  <2>2. Good(item', attempt', deliveries', issued')
    BY <1>1, <2>1, NextCases, SpeechGood, ElsewhereGood, InsertGood, ForgetGood, PurgeGood
  <2>3. QED
    BY <2>1, <2>2 DEF IInv, Capped, Good, Rooted, OneVoice, OneTold, Evidence, Unissued,
                      Untold, Wiped, Voice, Told
<1>2. ASSUME IInv, UNCHANGED vars
      PROVE  IInv'
  BY <1>2 DEF vars, IInv, TypeOK, Capped, Good, Rooted, OneVoice, OneTold, Evidence, Unissued,
              Untold, Wiped, Voice, Told
<1>3. QED
  BY <1>1, <1>2

\* The invariant holds in every state the store can reach.
THEOREM Invariant == Spec => []IInv
<1>1. Init => IInv
  BY InitIInv
<1>2. IInv /\ [Next]_vars => IInv'
  BY NextIInv
<1>3. QED
  BY <1>1, <1>2, PTL DEF Spec

-----------------------------------------------------------------------------
(* The properties. *)

\* Every variable keeps its type: the failure and injection counters stay
\* under their caps (fail_rank, confirm_surface_attempt).
THEOREM TypeCorrect == Spec => []TypeOK
<1>1. IInv => TypeOK
  BY DEF IInv
<1>2. QED
  BY <1>1, Invariant, PTL

\* However client, recovery, purge and forget interleave, a row is in flight
\* exactly when one open speech attempt is its own, and a deleted row leaves
\* no attempt behind (mark_*, _recover_speech_locked, forget_subject).
THEOREM ClaimsMatch == Spec => []ClaimMatches
<1>1. IInv => ClaimMatches
  <2> SUFFICES ASSUME IInv PROVE ClaimMatches
    OBVIOUS
  <2>1. Rooted(item, attempt) /\ OneVoice(item, attempt)
    BY DEF IInv, Good
  <2>2. \A i \in Items, a \in Attempts : a \in Open(i, "speech") <=> Voice(attempt, i, a)
    BY DEF Open, Voice
  <2>3. \A a \in Attempts : attempt[a].item \in Items => Here(attempt[a].item)
    BY <2>1 DEF Rooted, Here
  <2>4. ASSUME NEW i \in Items, Here(i)
        PROVE  /\ \A a, b \in Open(i, "speech") : a = b
               /\ Open(i, "speech") # {} <=>
                    item[i].deliv \in Speaking /\ item[i].content # "forgotten"
    <3>1. /\ \A a, b \in Attempts : Voice(attempt, i, a) /\ Voice(attempt, i, b) => a = b
          /\ (\E a \in Attempts : Voice(attempt, i, a)) <=>
               (item[i].deliv \in Speaking /\ item[i].content # "forgotten")
      BY <2>1, <2>4 DEF OneVoice, Here
    <3>2. Open(i, "speech") \subseteq Attempts
      BY DEF Open
    <3>3. QED
      BY <2>2, <3>1, <3>2
  <2>5. QED
    BY <2>3, <2>4 DEF ClaimMatches
<1>2. QED
  BY <1>1, Invariant, PTL

\* A row says delivered exactly when one speech attempt ended as completed,
\* and every row of the deliveries table names such an attempt
\* (mark_delivered, forget_subject, purge_retention).
THEOREM DeliveryEvidenced == Spec => []EvidencedDelivery
<1>1. IInv => EvidencedDelivery
  <2> DEFINE done(i) == {a \in Attempts : /\ attempt[a].item = i /\ attempt[a].purpose = "speech"
                                          /\ attempt[a].status = "completed"}
  <2> SUFFICES ASSUME IInv PROVE EvidencedDelivery
    OBVIOUS
  <2>1. OneTold(item, attempt) /\ Evidence(attempt, deliveries)
    BY DEF IInv, Good
  <2>2. \A i, a : a \in done(i) <=> a \in Attempts /\ Told(attempt, i, a)
    BY DEF Told
  <2> HIDE DEF done
  <2>3. ASSUME NEW i \in Items, Here(i)
        PROVE  /\ \A a, b \in done(i) : a = b
               /\ (item[i].deliv = "delivered") <=> (done(i) # {})
    <3>1. /\ \A a, b \in Attempts : Told(attempt, i, a) /\ Told(attempt, i, b) => a = b
          /\ (item[i].deliv = "delivered") <=> (\E a \in Attempts : Told(attempt, i, a))
      BY <2>1, <2>3 DEF OneTold, Here
    <3>2. QED
      BY <2>2, <3>1
  <2>4. \A a \in deliveries : attempt[a].item \in Items /\ a \in done(attempt[a].item)
    BY <2>1, <2>2 DEF Evidence
  <2>5. QED
    BY <2>3, <2>4 DEF EvidencedDelivery, done
<1>2. QED
  BY <1>1, Invariant, PTL

\* Once speech started for a row it is never claimed again while the row
\* exists, and delivered and uncertain are final: recovery, the purge and late
\* callers included (mark_*, recover_speech, purge_retention; P9-D06).
THEOREM SpeechNeverRepeats == Spec => SpeechMonotone
<1>1. ASSUME IInv, Next, NEW i \in Items, item[i].deliv \in Started, Here(i)'
      PROVE  /\ item'[i].deliv \in Started
             /\ item[i].deliv # "speech_started" => item'[i].deliv = item[i].deliv
  <2>1. item[i].life = "here"
    BY <1>1 DEF IInv, Good, Untold, Started
  <2>2. item'[i] # Gone
    BY <1>1 DEF Here, Gone, Blank
  <2>3. Follows(item[i], item'[i])
    BY <1>1, <2>1, <2>2, RowNext DEF IInv
  <2>4. QED
    BY <1>1, <2>3 DEF Follows
<1>2. IInv /\ [Next]_vars =>
        [\A i \in Items : item[i].deliv \in Started /\ Here(i)' =>
            /\ item'[i].deliv \in Started
            /\ item[i].deliv # "speech_started" => item'[i].deliv = item[i].deliv]_vars
  BY <1>1
<1>3. QED
  BY <1>2, Invariant, PTL DEF Spec, SpeechMonotone

\* A late completion never fills again what expiry, forget, dismissal or the
\* purge emptied: content, body and texts of a row stay gone, and a deleted
\* row is not inserted again (complete_rank, dismiss_item, forget_subject,
\* purge_retention; P9-D07).
THEOREM NothingComesBack == Spec => GoneStaysGone
<1> DEFINE Step(i) ==
      item[i].life # "unseen" =>
         /\ item'[i].life # "unseen"
         /\ item[i].life = "gone" => item'[i].life = "gone"
         /\ item[i].content # "available" /\ Here(i)' => item'[i].content # "available"
         /\ ~item[i].body => ~item'[i].body
         /\ item[i].content = "forgotten" \/ item[i].closed = "dismissed" =>
              ~item[i].text /\ ~item'[i].text
<1>1. ASSUME IInv, Next, NEW i \in Items
      PROVE  Step(i)
  <2>1. item[i] \in Rows /\ Wiped(item)
    BY <1>1 DEF IInv, TypeOK, Good
  <2>2. item[i].content = "forgotten" \/ item[i].closed = "dismissed" => ~item[i].text
    BY <2>1 DEF Wiped
  <2>3. CASE item[i].life = "unseen" /\ item'[i] = [Blank EXCEPT !.life = "here"]
    BY <2>3
  <2>4. CASE item[i].life = "here" /\ item'[i] = Gone
    <3>1. item'[i].life = "gone" /\ item'[i].body = FALSE /\ item'[i].text = FALSE
      BY <2>4 DEF Gone, Blank
    <3>2. QED
      BY <2>2, <2>4, <3>1 DEF Here
  <2>5. CASE Follows(item[i], item'[i])
    BY <2>2, <2>5 DEF Follows
  <2>6. QED
    BY <1>1, <2>3, <2>4, <2>5, RowNext DEF IInv
<1>2. IInv /\ [Next]_vars => [\A i \in Items : Step(i)]_vars
  BY <1>1
<1>3. QED
  BY <1>2, Invariant, PTL DEF Spec, GoneStaysGone

-----------------------------------------------------------------------------
(* SpeechDelivery: the types, that an item is sent to the voice at most    *)
(* once and gets one verdict, and that nothing is sent after the owner     *)
(* interrupted.                                                            *)
(*                                                                         *)
(* The invariant has three parts: the store's own (IInv), the client's     *)
(* bookkeeping (SInv), and the link between them (Linked): an attempt      *)
(* whose start the client learned of has its row past the point of return. *)
(* SInv is stated of the fields c, the calls cs, the history s and the ids *)
(* handed out n, so that the steps of a handler can be taken one after the *)
(* other.                                                                  *)

\* The calls that carry the chain from recovery to the voice on.
Chain(cs) == {k \in cs : k.waits /\ k.kind \notin Verdicts}

Holds(c, n) ==
    /\ c \in Clients
    /\ c.held <=> c.att # 0
    /\ c.held => c.recovered /\ c.att \in Attempts /\ c.att <= n
    /\ ~c.held => c.next = "none" /\ c.pending = "none" /\ ~c.startRec
    /\ c.next # "none" => c.pending = "none"
    /\ c.next = "start" => ~c.startRec
    /\ c.next = "speak" => c.startRec

\* One verdict for an attempt, and what excludes its being sent.
Sents(s, n) ==
    /\ s \in [Attempts -> SUBSET (Verdicts \union {"tts", "stamp"})]
    /\ \A a \in Attempts :
         /\ a > n => s[a] = {}
         /\ \A v, w \in s[a] \intersect Verdicts : v = w
         /\ "tts" \in s[a] => "release" \notin s[a] /\ "stamp" \notin s[a]

\* What was done for the attempt that is held.
Held(c, s) == c.held =>
    /\ c.pending = "none" => s[c.att] \intersect Verdicts = {}
    /\ "tts" \in s[c.att] => c.startRec /\ c.next # "speak"
    /\ "stamp" \in s[c.att] /\ c.pending = "none" => c.cancel

\* One call of the chain is waited for, and it fits what is held.
Called(c, cs, s, n) ==
    /\ cs \subseteq Calls
    /\ \A k \in cs :
         /\ k.reply # "none" => k.waits
         /\ k.kind = "claim" /\ k.reply = "ok" =>
              k.att \in Attempts /\ k.att <= n /\ s[k.att] = {}
    /\ \A k, d \in Chain(cs) : k = d
    /\ \A k \in Chain(cs) :
         /\ c.next = "none"
         /\ k.kind \in {"recover", "snapshot", "claim"} => ~c.held
         /\ k.kind \in {"snapshot", "claim"} => c.recovered
         /\ k.kind = "start" /\ c.held => k.att = c.att /\ ~c.startRec

SInv(c, cs, s, n) == Holds(c, n) /\ Sents(s, n) /\ Held(c, s) /\ Called(c, cs, s, n)

\* The client sent the line of a, or knows that its start is recorded.
Begun(c, cs, s, a) ==
    \/ "tts" \in s[a]
    \/ c.held /\ c.att = a /\ c.startRec
    \/ \E k \in cs : k.kind = "start" /\ k.att = a /\ k.reply = "ok"

Linked(c, cs, s) ==
    /\ \A a \in Attempts : Begun(c, cs, s, a) =>
         /\ a <= issued
         /\ attempt[a].item \in Items => item[attempt[a].item].deliv \in Started
    /\ \A a, b \in Attempts :
         /\ Begun(c, cs, s, a) /\ Begun(c, cs, s, b)
         /\ attempt[a].item = attempt[b].item /\ attempt[a].item \in Items
         => a = b

Rooms == /\ busy \in BOOLEAN
         /\ audio \in [att : Attempts \union {0}, state : {"none", "queued", "playing", "cut"}]
         /\ faults \in 0..MaxFaults

JInv == IInv /\ SInv(client, calls, sent, issued) /\ Linked(client, calls, sent) /\ Rooms

\* The client's part holds on, and no attempt is newly begun.
Keeps(c, cs, s, n) ==
    /\ SInv(c, cs, s, n)
    /\ \A a \in Attempts : Begun(c, cs, s, a) => Begun(client, calls, sent, a)

-----------------------------------------------------------------------------
(* What a handler does to the fields and the calls, one change at a time. *)

LEMMA Nonzero == 0 \notin Attempts /\ 0 \notin Items
  BY Parameters DEF Attempts, Items

\* Calls go, or are not waited for any more, or grow older.
LEMMA FewerCalls ==
    ASSUME NEW c, NEW cs, NEW cs2, NEW s, NEW n, SInv(c, cs, s, n), cs2 \subseteq Calls,
           \A k \in cs2 : \E d \in cs :
              /\ k.kind = d.kind /\ k.att = d.att /\ (k.waits => d.waits)
              /\ k.reply # "none" => k.waits
              /\ k.reply = "ok" /\ k.kind \in {"claim", "start"} => d.reply = "ok",
           \A k, d \in Chain(cs2) : k = d
    PROVE  /\ SInv(c, cs2, s, n)
           /\ \A a \in Attempts : Begun(c, cs2, s, a) => Begun(c, cs, s, a)
<1>1. \A k \in cs2 : \E d \in cs :
         /\ k.kind = d.kind /\ k.att = d.att
         /\ k \in Chain(cs2) => d \in Chain(cs)
         /\ k.reply # "none" => k.waits
         /\ k.reply = "ok" /\ k.kind \in {"claim", "start"} => d.reply = "ok"
  BY DEF Chain
<1>2. Called(c, cs2, s, n)
  <2>1. \A k \in Chain(cs2) :
         /\ c.next = "none"
         /\ k.kind \in {"recover", "snapshot", "claim"} => ~c.held
         /\ k.kind \in {"snapshot", "claim"} => c.recovered
         /\ k.kind = "start" /\ c.held => k.att = c.att /\ ~c.startRec
    <3> TAKE k \in Chain(cs2)
    <3>1. k \in cs2
      BY DEF Chain
    <3>2. PICK d \in Chain(cs) : k.kind = d.kind /\ k.att = d.att
      BY <1>1, <3>1 DEF Chain
    <3> QED BY <3>2 DEF SInv, Called
  <2>2. \A k \in cs2 :
         /\ k.reply # "none" => k.waits
         /\ k.kind = "claim" /\ k.reply = "ok" =>
              k.att \in Attempts /\ k.att <= n /\ s[k.att] = {}
    <3> TAKE k \in cs2
    <3>1. PICK d \in cs : /\ k.kind = d.kind /\ k.att = d.att
                          /\ k.reply # "none" => k.waits
                          /\ k.reply = "ok" /\ k.kind \in {"claim", "start"} => d.reply = "ok"
      BY <1>1
    <3>2. d.kind = "claim" /\ d.reply = "ok" =>
             d.att \in Attempts /\ d.att <= n /\ s[d.att] = {}
      BY DEF SInv, Called
    <3> QED BY <3>1, <3>2
  <2> QED BY <2>1, <2>2 DEF SInv, Called
<1>3. \A a \in Attempts : Begun(c, cs2, s, a) => Begun(c, cs, s, a)
  BY DEF Begun
<1> QED BY <1>2, <1>3 DEF SInv

\* Fields change that say nothing of the hold; the next step may be given up.
Same(c, c2, cs) ==
    /\ c2 \in Clients
    /\ c2.recovered = c.recovered \/ (~c.held /\ Chain(cs) = {})
    /\ c2.held = c.held /\ c2.att = c.att /\ c2.startRec = c.startRec
    /\ c2.pending = c.pending
    /\ c.cancel => c2.cancel
    /\ c2.next = c.next \/ c2.next = "none"

LEMMA SameHold ==
    ASSUME NEW c, NEW c2, NEW cs, NEW s, NEW n, SInv(c, cs, s, n), Same(c, c2, cs)
    PROVE  /\ SInv(c2, cs, s, n)
           /\ \A a \in Attempts : Begun(c2, cs, s, a) => Begun(c, cs, s, a)
<1> USE DEF Same
<1>1. Holds(c2, n) /\ Held(c2, s)
  BY DEF SInv, Holds, Held
<1>2. Called(c2, cs, s, n)
  BY DEF SInv, Called
<1>3. \A a \in Attempts : Begun(c2, cs, s, a) => Begun(c, cs, s, a)
  BY DEF Begun
<1> QED BY <1>1, <1>2, <1>3 DEF SInv

\* A call is made: a verdict at any time, the chain's next one when it is due.
LEMMA OneMoreCall ==
    ASSUME NEW c, NEW cs, NEW s, NEW n, SInv(c, cs, s, n), NEW k \in Kinds,
           \/ k \in Verdicts
           \/ /\ Chain(cs) = {} /\ c.next = "none"
              /\ k \in {"recover", "snapshot", "claim"} => ~c.held
              /\ k \in {"snapshot", "claim"} => c.recovered
              /\ k = "start" /\ c.held => ~c.startRec
    PROVE  /\ SInv(c, cs \union {Call(k, c.item, c.att)}, s, n)
           /\ \A a \in Attempts :
                Begun(c, cs \union {Call(k, c.item, c.att)}, s, a) => Begun(c, cs, s, a)
<1>0. PICK new : new = Call(k, c.item, c.att)
  OBVIOUS
<1> DEFINE cs2 == cs \union {new}
<1>1. c.item \in Items \union {0} /\ c.att \in Attempts \union {0}
  BY DEF SInv, Holds, Clients
<1>2. new \in Calls /\ new.kind = k /\ new.reply = "none" /\ new.waits /\ new.att = c.att
  BY <1>0, <1>1 DEF Call, Calls
<1>3. Chain(cs2) = Chain(cs) \union (IF k \in Verdicts THEN {} ELSE {new})
  BY <1>2 DEF Chain
<1>4. Called(c, cs2, s, n)
  <2>1. cs2 \subseteq Calls
    BY <1>2 DEF SInv, Called
  <2>2. \A d \in cs2 :
         /\ d.reply # "none" => d.waits
         /\ d.kind = "claim" /\ d.reply = "ok" =>
              d.att \in Attempts /\ d.att <= n /\ s[d.att] = {}
    BY <1>2 DEF SInv, Called
  <2>3. \A d, e \in Chain(cs2) : d = e
    BY <1>3 DEF SInv, Called
  <2>4. \A d \in Chain(cs2) :
         /\ c.next = "none"
         /\ d.kind \in {"recover", "snapshot", "claim"} => ~c.held
         /\ d.kind \in {"snapshot", "claim"} => c.recovered
         /\ d.kind = "start" /\ c.held => d.att = c.att /\ ~c.startRec
    BY <1>2, <1>3 DEF SInv, Called
  <2> QED BY <2>1, <2>2, <2>3, <2>4 DEF Called
<1>5. \A a \in Attempts : Begun(c, cs2, s, a) => Begun(c, cs, s, a)
  BY <1>2 DEF Begun
<1>6. SInv(c, cs2, s, n)
  BY <1>4 DEF SInv
<1> QED BY <1>0, <1>5, <1>6

\* The hold is given up and everything about it with it.
LEMMA LetGo ==
    ASSUME NEW c, NEW c2, NEW cs, NEW s, NEW n, SInv(c, cs, s, n),
           c2 = [NoHold EXCEPT !.recovered = TRUE] \/ (c2 = NoHold /\ Chain(cs) = {})
    PROVE  /\ SInv(c2, cs, s, n)
           /\ \A a \in Attempts : Begun(c2, cs, s, a) => Begun(c, cs, s, a)
<1>1. /\ c2 \in Clients /\ ~c2.held /\ c2.att = 0 /\ c2.next = "none" /\ c2.pending = "none"
      /\ ~c2.startRec /\ (c2.recovered \/ Chain(cs) = {})
  <2>1. NoHold \in Clients
    BY DEF NoHold, Clients
  <2>2. /\ NoHold.held = FALSE /\ NoHold.att = 0 /\ NoHold.next = "none" /\ NoHold.pending = "none"
        /\ NoHold.startRec = FALSE
    BY DEF NoHold
  <2>3. CASE c2 = [NoHold EXCEPT !.recovered = TRUE]
    BY <2>1, <2>2, <2>3 DEF Clients
  <2>4. CASE c2 = NoHold /\ Chain(cs) = {}
    BY <2>1, <2>2, <2>4
  <2> QED BY <2>3, <2>4
<1>2. Holds(c2, n) /\ Held(c2, s)
  BY <1>1 DEF Holds, Held
<1>3. Called(c2, cs, s, n)
  BY <1>1 DEF SInv, Called
<1>4. \A a \in Attempts : Begun(c2, cs, s, a) => Begun(c, cs, s, a)
  BY <1>1 DEF Begun
<1> QED BY <1>2, <1>3, <1>4 DEF SInv

\* Something is noted for the attempt that is held: T is all that was, and c2
\* the fields after it.
Fits(c, c2, s, T) ==
    /\ c2 \in Clients /\ c.held
    /\ c2.recovered = c.recovered /\ c2.held = c.held /\ c2.att = c.att
    /\ c2.startRec = c.startRec
    /\ c2.next = c.next \/ c2.next = "none"
    /\ c2.next # "none" => c2.pending = "none"
    /\ T \in SUBSET (Verdicts \union {"tts", "stamp"}) /\ s[c.att] \subseteq T
    /\ \A v, w \in T \intersect Verdicts : v = w
    /\ "tts" \in T => "release" \notin T /\ "stamp" \notin T
                      /\ c.startRec /\ c2.next # "speak"
    /\ c2.pending = "none" => T \intersect Verdicts = {}
    /\ "stamp" \in T /\ c2.pending = "none" => c2.cancel

LEMMA Noted ==
    ASSUME NEW c, NEW c2, NEW cs, NEW s, NEW s2, NEW n \in Nat, NEW T,
           SInv(c, cs, s, n), Fits(c, c2, s, T), s2 = [s EXCEPT ![c.att] = T]
    PROVE  /\ SInv(c2, cs, s2, n)
           /\ \A a \in Attempts : Begun(c2, cs, s2, a) => Begun(c, cs, s, a)
<1> USE DEF Fits
<1>1. c.att \in Attempts /\ c.att <= n /\ s \in [Attempts -> SUBSET (Verdicts \union {"tts", "stamp"})]
  BY DEF SInv, Holds, Sents
<1>2. s2[c.att] = T /\ \A a \in Attempts : a # c.att => s2[a] = s[a]
  BY <1>1
<1>3. Holds(c2, n)
  BY DEF SInv, Holds
<1>4. Sents(s2, n)
  <2>1. s2 \in [Attempts -> SUBSET (Verdicts \union {"tts", "stamp"})]
    BY <1>1
  <2>2. ~(c.att > n)
    <3>1. \A x, y \in Nat : x <= y => ~(x > y)
      OBVIOUS
    <3>2. c.att \in Nat
      BY <1>1, Parameters DEF Attempts
    <3> QED BY <1>1, <3>1, <3>2
  <2>3. \A a \in Attempts :
         /\ a > n => s[a] = {}
         /\ \A v, w \in s[a] \intersect Verdicts : v = w
         /\ "tts" \in s[a] => "release" \notin s[a] /\ "stamp" \notin s[a]
    BY DEF SInv, Sents
  <2>4. ASSUME NEW a \in Attempts
        PROVE  /\ a > n => s2[a] = {}
               /\ \A v, w \in s2[a] \intersect Verdicts : v = w
               /\ "tts" \in s2[a] => "release" \notin s2[a] /\ "stamp" \notin s2[a]
    <3>1. CASE a = c.att
      BY <1>2, <2>2, <3>1
    <3>2. CASE a # c.att
      BY <1>2, <2>3, <3>2
    <3> QED BY <3>1, <3>2
  <2> QED BY <2>1, <2>4 DEF Sents
<1>5. Held(c2, s2)
  BY <1>2 DEF Held
<1>6. Called(c2, cs, s2, n)
  <2>1. \A k \in cs : ~(k.kind = "claim" /\ k.reply = "ok")
    <3> SUFFICES ASSUME NEW k \in cs, k.kind = "claim", k.reply = "ok" PROVE FALSE
      OBVIOUS
    <3>1. k \in Chain(cs)
      BY DEF SInv, Called, Chain, Verdicts
    <3> QED BY <3>1 DEF SInv, Called
  <2> QED BY <2>1 DEF SInv, Called
<1>7. \A a \in Attempts : Begun(c2, cs, s2, a) => Begun(c, cs, s, a)
  BY <1>2 DEF Begun
<1> QED BY <1>3, <1>4, <1>5, <1>6, <1>7 DEF SInv

\* A verdict begins: it is noted, and the call is made.
LEMMA Decides ==
    ASSUME NEW c, NEW cs, NEW s, NEW s2, NEW n \in Nat, SInv(c, cs, s, n), c.held, c.pending = "none",
           NEW v \in Verdicts, v = "release" => ~c.startRec,
           NEW T, T = s[c.att] \/ (T = s[c.att] \union {"stamp"} /\ "tts" \notin s[c.att]),
           s2 = [s EXCEPT ![c.att] = T \union {v}]
    PROVE  LET c2 == [c EXCEPT !.pending = v, !.next = "none"]
               cs2 == cs \union {Call(v, c.item, c.att)}
           IN  /\ SInv(c2, cs2, s2, n)
               /\ \A a \in Attempts : Begun(c2, cs2, s2, a) => Begun(c, cs, s, a)
<1>1. PICK c2 : c2 = [c EXCEPT !.pending = v, !.next = "none"]
  OBVIOUS
<1>2. c \in Clients /\ c.att \in Attempts
  BY DEF SInv, Holds
<1>3. /\ c2 \in Clients /\ c2.recovered = c.recovered /\ c2.held = c.held /\ c2.att = c.att
      /\ c2.item = c.item /\ c2.startRec = c.startRec /\ c2.next = "none" /\ c2.pending = v
  BY <1>1, <1>2 DEF Clients
<1>4. v # "none" /\ v # "tts" /\ v # "stamp"
  BY DEF Verdicts
<1>5. /\ s[c.att] \in SUBSET (Verdicts \union {"tts", "stamp"})
      /\ s[c.att] \intersect Verdicts = {}
      /\ "tts" \in s[c.att] => c.startRec /\ "stamp" \notin s[c.att]
  BY <1>2 DEF SInv, Sents, Held
<1>6. PICK W : W = T \union {v}
  OBVIOUS
<1>7. /\ W \in SUBSET (Verdicts \union {"tts", "stamp"}) /\ s[c.att] \subseteq W
      /\ W \intersect Verdicts = {v}
      /\ "tts" \in W => "release" \notin W /\ "stamp" \notin W /\ c.startRec
  <2>0. "stamp" \notin Verdicts
    BY DEF Verdicts
  <2>1. T \in SUBSET (Verdicts \union {"tts", "stamp"}) /\ T \intersect Verdicts = {} /\ s[c.att] \subseteq T
    <3>1. CASE T = s[c.att]
      BY <1>5, <3>1
    <3>2. CASE T = s[c.att] \union {"stamp"}
      BY <1>5, <2>0, <3>2
    <3> QED BY <3>1, <3>2
  <2>2. "tts" \in T => c.startRec /\ "stamp" \notin T
    <3>1. CASE T = s[c.att]
      BY <1>5, <3>1
    <3>2. CASE T = s[c.att] \union {"stamp"} /\ "tts" \notin s[c.att]
      BY <3>2
    <3> QED BY <3>1, <3>2
  <2>3. "tts" \in W => "tts" \in T /\ v # "release"
    BY <1>4, <1>6, <2>2
  <2>4. "stamp" \in W => "stamp" \in T
    BY <1>4, <1>6
  <2>5. "release" \in W => v = "release"
    BY <1>6, <2>1 DEF Verdicts
  <2>6. W \in SUBSET (Verdicts \union {"tts", "stamp"}) /\ s[c.att] \subseteq W
    BY <1>6, <2>1
  <2>7. W \intersect Verdicts = {v}
    BY <1>6, <2>1
  <2> QED BY <2>2, <2>3, <2>4, <2>5, <2>6, <2>7
<1>8. /\ SInv(c2, cs, s2, n)
      /\ \A a \in Attempts : Begun(c2, cs, s2, a) => Begun(c, cs, s, a)
  <2>1. \A x, y \in W \intersect Verdicts : x = y
    BY <1>7
  <2>2. s2 = [s EXCEPT ![c.att] = W]
    BY <1>6
  <2>3. /\ c2.next # "none" => c2.pending = "none"
        /\ "tts" \in W => "release" \notin W /\ "stamp" \notin W
                          /\ c.startRec /\ c2.next # "speak"
        /\ c2.pending = "none" => W \intersect Verdicts = {}
        /\ "stamp" \in W /\ c2.pending = "none" => c2.cancel
    BY <1>3, <1>4, <1>7
  <2>4. /\ c2 \in Clients /\ c2.recovered = c.recovered /\ c2.held = c.held /\ c2.att = c.att
        /\ c2.startRec = c.startRec /\ (c2.next = c.next \/ c2.next = "none")
    BY <1>3
  <2>5. W \in SUBSET (Verdicts \union {"tts", "stamp"}) /\ s[c.att] \subseteq W
    BY <1>7
  <2>6. Fits(c, c2, s, W)
    BY <2>1, <2>3, <2>4, <2>5 DEF Fits
  <2> QED BY <2>2, <2>6, Noted
<1>9. /\ SInv(c2, cs \union {Call(v, c2.item, c2.att)}, s2, n)
      /\ \A a \in Attempts :
           Begun(c2, cs \union {Call(v, c2.item, c2.att)}, s2, a) => Begun(c2, cs, s2, a)
  BY <1>8, OneMoreCall DEF Kinds
<1> QED BY <1>1, <1>3, <1>8, <1>9

-----------------------------------------------------------------------------
(* What the client does. *)

\* A call is answered or given up: what remains of the calls.
LEMMA Remaining ==
    ASSUME SInv(client, calls, sent, issued), NEW k \in calls, k.waits, NEW rest,
           \/ rest = calls \ {k}
           \/ rest = (calls \ {k}) \union
                (IF k.reply = "none" THEN {[k EXCEPT !.waits = FALSE]} ELSE {})
    PROVE  /\ Keeps(client, rest, sent, issued)
           /\ k.kind \notin Verdicts => Chain(rest) = {}
<1>1. calls \subseteq Calls /\ k \in Calls /\ \A x, y \in Chain(calls) : x = y
  BY DEF SInv, Called
<1>2. PICK z : z = [k EXCEPT !.waits = FALSE]
  OBVIOUS
<1>3. z \in Calls /\ z.kind = k.kind /\ z.att = k.att /\ z.reply = k.reply /\ z.waits = FALSE
  BY <1>1, <1>2 DEF Calls
<1>4. \A x \in rest : (x \in calls /\ x # k) \/ (x = z /\ k.reply = "none")
  BY <1>2
<1>5. Chain(rest) \subseteq Chain(calls) /\ k \notin Chain(rest)
  BY <1>3, <1>4 DEF Chain
<1>6. \A x \in calls : x.reply # "none" => x.waits
  BY DEF SInv, Called
<1>7. \A x \in rest : \E d \in calls :
              /\ x.kind = d.kind /\ x.att = d.att /\ (x.waits => d.waits)
              /\ x.reply # "none" => x.waits
              /\ x.reply = "ok" /\ x.kind \in {"claim", "start"} => d.reply = "ok"
  BY <1>3, <1>4, <1>6
<1>8. rest \subseteq Calls
  BY <1>1, <1>3, <1>4
<1>9. \A x, y \in Chain(rest) : x = y
  BY <1>1, <1>5
<1>10. Keeps(client, rest, sent, issued)
  BY <1>7, <1>8, <1>9, FewerCalls DEF Keeps
<1>11. k.kind \notin Verdicts => Chain(rest) = {}
  BY <1>1, <1>5 DEF Chain
<1> QED BY <1>10, <1>11

LEMMA Older ==
    ASSUME SInv(client, calls, sent, issued),
           \A k \in calls : k.waits => k.kind \in Verdicts
    PROVE  Keeps(client, Aged, sent, issued) /\ Chain(Aged) = {}
<1>1. \A x \in Aged : \E k \in calls : x = [k EXCEPT !.fresh = FALSE]
  BY DEF Aged
<1>2. ASSUME NEW x \in Aged
      PROVE  x \in Calls /\ \E k \in calls : /\ x.kind = k.kind /\ x.att = k.att
                                            /\ x.waits = k.waits /\ x.reply = k.reply
  <2>1. PICK k \in calls : x = [k EXCEPT !.fresh = FALSE]
    BY <1>1
  <2>2. k \in Calls
    BY DEF SInv, Called
  <2>3. /\ x \in Calls /\ x.kind = k.kind /\ x.att = k.att /\ x.waits = k.waits
        /\ x.reply = k.reply
    BY <2>1, <2>2 DEF Calls
  <2> QED BY <2>3
<1>3. Chain(Aged) = {}
  BY <1>2 DEF Chain
<1>4. \A x \in calls : x.reply # "none" => x.waits
  BY DEF SInv, Called
<1>5. \A x \in Aged : \E d \in calls :
              /\ x.kind = d.kind /\ x.att = d.att /\ (x.waits => d.waits)
              /\ x.reply # "none" => x.waits
              /\ x.reply = "ok" /\ x.kind \in {"claim", "start"} => d.reply = "ok"
  BY <1>2, <1>4
<1>6. Aged \subseteq Calls
  BY <1>2
<1>7. \A x, y \in Chain(Aged) : x = y
  BY <1>3
<1> QED BY <1>3, <1>5, <1>6, <1>7, FewerCalls DEF Keeps

\* Begin, with the fields and the calls the handler has come to.
LEMMA Begins ==
    ASSUME NEW c, NEW rest, NEW v \in Verdicts, issued \in Nat, Keeps(c, rest, sent, issued),
           c.held, c.pending = "none", v = "release" => ~c.startRec, Begin(v, c, rest)
    PROVE  Keeps(client', calls', sent', issued)
<1>1. PICK T : T = sent[c.att]
  OBVIOUS
<1>2. sent' = [sent EXCEPT ![c.att] = T \union {v}]
  BY <1>1 DEF Begin
<1>3. /\ client' = [c EXCEPT !.pending = v, !.next = "none"]
      /\ calls' = rest \union {Call(v, c.item, c.att)}
  BY DEF Begin, Began
<1>4. SInv(c, rest, sent, issued)
  BY DEF Keeps
<1> QED BY <1>1, <1>2, <1>3, <1>4, Decides DEF Keeps

LEMMA Sends ==
    ASSUME NEW c, NEW rest, NEW k \in Kinds, Keeps(c, rest, sent, issued), Send(k, c, rest),
           \/ k \in Verdicts
           \/ /\ Chain(rest) = {} /\ c.next = "none"
              /\ k \in {"recover", "snapshot", "claim"} => ~c.held
              /\ k \in {"snapshot", "claim"} => c.recovered
              /\ k = "start" /\ c.held => ~c.startRec
    PROVE  Keeps(client', calls', sent', issued)
  BY OneMoreCall DEF Keeps, Send

\* Fields change that say nothing of the hold.
LEMMA Alike ==
    ASSUME NEW c, NEW c2, NEW rest, Keeps(c, rest, sent, issued), Same(c, c2, rest)
    PROVE  Keeps(c2, rest, sent, issued)
  BY SameHold DEF Keeps

LEMMA PollKeeps ==
    ASSUME SInv(client, calls, sent, issued), issued \in Nat, NEW late, Poll(late)
    PROVE  Keeps(client', calls', sent', issued)
<1>1. Keeps(client, Aged, sent, issued) /\ Chain(Aged) = {} /\ client.next = "none"
  BY Older DEF Poll
<1>2. client \in Clients /\ (client.held => client.recovered)
  BY DEF SInv, Holds
<1>3. CASE ~client.recovered /\ Send("recover", client, Aged)
  BY <1>1, <1>2, <1>3, Sends DEF Kinds
<1>4. CASE Advances(late) /\ Begin("uncertain", client, Aged)
  BY <1>1, <1>4, Begins DEF Advances, Verdicts
<1>5. CASE client.pending # "none" /\ Send(client.pending, client, Aged)
  <2>1. client.pending \in Verdicts /\ client.pending \in Kinds
    BY <1>2, <1>5 DEF Clients, Kinds
  <2> QED BY <1>1, <1>5, <2>1, Sends
<1>6. CASE client.recovered /\ ~client.held /\ Send("snapshot", client, Aged)
  BY <1>1, <1>6, Sends DEF Kinds
<1> QED BY <1>3, <1>4, <1>5, <1>6 DEF Poll

LEMMA StartKeeps ==
    ASSUME SInv(client, calls, sent, issued), issued \in Nat, BeginStartRpc
    PROVE  Keeps(client', calls', sent', issued)
<1>1. client \in Clients /\ Keeps(client, calls, sent, issued)
  BY DEF SInv, Holds, Keeps
<1>2. Chain(calls) = {}
  BY DEF SInv, Called, BeginStartRpc
<1>3. CASE Rest([client EXCEPT !.next = "none"], calls)
  <2>1. Same(client, [client EXCEPT !.next = "none"], calls)
    BY <1>1 DEF Same, Clients
  <2> QED BY <1>1, <1>3, <2>1, Alike DEF Rest
<1>4. CASE Send("start", [client EXCEPT !.next = "none", !.startRpc = TRUE], calls) /\ ~client.startRec
  <2>1. PICK c : c = [client EXCEPT !.next = "none", !.startRpc = TRUE]
    OBVIOUS
  <2>2. /\ c \in Clients /\ c.recovered = client.recovered /\ c.held = client.held
        /\ c.att = client.att /\ c.startRec = client.startRec /\ c.pending = client.pending
        /\ c.cancel = client.cancel /\ c.next = "none"
    BY <1>1, <2>1 DEF Clients
  <2>3. Keeps(c, calls, sent, issued)
    BY <1>1, <2>2, Alike DEF Same
  <2> QED BY <1>2, <1>4, <2>1, <2>2, <2>3, Sends DEF Kinds
<1> QED BY <1>3, <1>4 DEF BeginStartRpc

LEMMA DispatchKeeps ==
    ASSUME SInv(client, calls, sent, issued), issued \in Nat, ConfirmDispatch
    PROVE  Keeps(client', calls', sent', issued)
<1>1. client \in Clients /\ Keeps(client, calls, sent, issued)
  BY DEF SInv, Holds, Keeps
<1>2. Chain(calls) = {}
  BY DEF SInv, Called, ConfirmDispatch
<1>3. CASE Rest([client EXCEPT !.next = "none"], calls)
  <2>1. Same(client, [client EXCEPT !.next = "none"], calls)
    BY <1>1 DEF Same, Clients
  <2> QED BY <1>1, <1>3, <2>1, Alike DEF Rest
<1>4. CASE client.held /\ client.pending = "none" /\ Begin("uncertain", client, calls)
  BY <1>1, <1>4, Begins DEF Verdicts
<1>5. CASE client.held /\ client.pending = "none" /\ ~BlockReason(client) /\ Dispatched
  <2>1. PICK c : c = [client EXCEPT !.next = "none", !.dispatch = TRUE]
    OBVIOUS
  <2>2. /\ c \in Clients /\ c.recovered = client.recovered /\ c.held = client.held
        /\ c.att = client.att /\ c.startRec = client.startRec /\ c.pending = client.pending
        /\ c.cancel = client.cancel /\ c.next = "none" /\ c.item = client.item
    BY <1>1, <2>1 DEF Clients
  <2>3. PICK T : T = sent[client.att] \union {"tts"}
    OBVIOUS
  <2>4. client.startRec /\ ~client.cancel
    BY <1>5 DEF ConfirmDispatch, SInv, Holds, BlockReason
  <2>5. /\ sent[client.att] \in SUBSET (Verdicts \union {"tts", "stamp"})
        /\ sent[client.att] \intersect Verdicts = {}
        /\ "stamp" \notin sent[client.att]
    BY <1>5, <2>4 DEF SInv, Holds, Sents, Held
  <2>6. Fits(client, c, sent, T)
    BY <1>5, <2>2, <2>3, <2>4, <2>5 DEF Fits, Verdicts
  <2>7. sent' = [sent EXCEPT ![client.att] = T]
    BY <1>5, <2>3 DEF Dispatched
  <2>8. /\ SInv(c, calls, sent', issued)
        /\ \A a \in Attempts : Begun(c, calls, sent', a) => Begun(client, calls, sent, a)
    BY <2>6, <2>7, Noted
  <2>9. client' = c /\ calls' = calls \union {Call("tts", c.item, c.att)}
    BY <1>5, <2>1, <2>2 DEF Dispatched
  <2> QED BY <1>2, <2>2, <2>8, <2>9, OneMoreCall DEF Keeps, Kinds
<1> QED BY <1>3, <1>4, <1>5 DEF ConfirmDispatch

\* An answer to k, or its being given up, is carried on: rest remains.
Answered(k, r, rest) ==
    /\ SInv(client, calls, sent, issued) /\ issued \in Nat
    /\ k \in calls /\ k.waits
    /\ r = "ok" => k.reply = "ok"
    /\ Keeps(client, rest, sent, issued)
    /\ k.kind \notin Verdicts => Chain(rest) = {}

LEMMA RecoverKeeps ==
    ASSUME NEW k, NEW r, NEW rest, Answered(k, r, rest), k.kind = "recover",
           AfterRecover(r, rest)
    PROVE  Keeps(client', calls', sent', issued)
<1>1. client \in Clients /\ k \in Chain(calls) /\ Chain(rest) = {}
  BY DEF Answered, SInv, Holds, Chain, Verdicts
<1>2. ~client.held
  BY <1>1 DEF Answered, SInv, Called
<1>3. Same(client, [client EXCEPT !.recovered = (r = "ok")], rest)
  BY <1>1, <1>2 DEF Same, Clients
<1> QED BY <1>3, Alike DEF AfterRecover, Rest, Answered

LEMMA SnapshotKeeps ==
    ASSUME NEW k, NEW r, NEW rest, Answered(k, r, rest), k.kind = "snapshot",
           AfterSnapshot(r, rest)
    PROVE  Keeps(client', calls', sent', issued)
<1>1. client \in Clients /\ k \in Chain(calls) /\ Chain(rest) = {}
  BY DEF Answered, SInv, Holds, Chain, Verdicts
<1>2. ~client.held /\ client.recovered /\ client.next = "none"
  BY <1>1 DEF Answered, SInv, Called
<1>3. CASE Send("claim", client, rest)
  BY <1>1, <1>2, <1>3, Sends DEF Kinds, Answered
<1>4. CASE Rest(client, rest)
  BY <1>4 DEF Rest, Answered
<1> QED BY <1>3, <1>4 DEF AfterSnapshot

LEMMA ClaimKeeps ==
    ASSUME NEW k, NEW r, NEW rest, Answered(k, r, rest), k.kind = "claim",
           AfterClaim(k, r, rest)
    PROVE  Keeps(client', calls', sent', issued)
<1>1. client \in Clients /\ k \in Chain(calls) /\ Chain(rest) = {} /\ k \in Calls
  BY DEF Answered, SInv, Holds, Chain, Verdicts, Called
<1>2. ~client.held /\ client.recovered
  BY <1>1 DEF Answered, SInv, Called
<1>3. client.next = "none" /\ client.pending = "none" /\ ~client.startRec
  BY <1>2 DEF Answered, SInv, Holds
<1>4. CASE r # "ok"
  BY <1>4 DEF AfterClaim, Rest, Answered
<1>5. CASE r = "ok"
  <2>1. k.att \in Attempts /\ k.att <= issued /\ sent[k.att] = {}
    BY <1>5 DEF Answered, SInv, Called
  <2>2. ASSUME NEW c, NEW nx \in {"none", "start"},
               c = [client EXCEPT !.held = TRUE, !.item = k.item, !.att = k.att, !.next = nx]
        PROVE  /\ Keeps(c, rest, sent, issued)
               /\ c.held /\ c.pending = "none" /\ ~c.startRec
    <3>1. /\ c \in Clients /\ c.held /\ c.att = k.att /\ c.recovered /\ c.next = nx
          /\ c.pending = "none" /\ ~c.startRec
      BY <1>1, <1>2, <1>3, <2>1, <2>2 DEF Clients, Calls
    <3>2. Holds(c, issued)
      BY <2>1, <3>1, Nonzero DEF Holds
    <3>3. Held(c, sent)
      BY <2>1, <3>1 DEF Held
    <3>4. Called(c, rest, sent, issued)
      BY <1>1 DEF Answered, Keeps, SInv, Called
    <3>5. \A a \in Attempts : Begun(c, rest, sent, a) => Begun(client, rest, sent, a)
      BY <3>1 DEF Begun
    <3> QED BY <3>1, <3>2, <3>3, <3>4, <3>5 DEF Answered, Keeps, SInv
  <2>3. PICK c : c = [client EXCEPT !.held = TRUE, !.item = k.item, !.att = k.att]
    OBVIOUS
  <2>4. c = [client EXCEPT !.held = TRUE, !.item = k.item, !.att = k.att, !.next = "none"]
    BY <1>1, <1>3, <2>3 DEF Clients
  <2>5. CASE Begin("release", c, rest)
    <3>1. Keeps(c, rest, sent, issued) /\ c.held /\ c.pending = "none" /\ ~c.startRec
      BY <2>2, <2>4
    <3> QED BY <2>5, <3>1, Begins DEF Verdicts, Answered
  <2>6. CASE Rest([c EXCEPT !.next = "start"], rest)
    <3>1. [c EXCEPT !.next = "start"] =
            [client EXCEPT !.held = TRUE, !.item = k.item, !.att = k.att, !.next = "start"]
      BY <1>1, <2>3 DEF Clients
    <3>2. Keeps([c EXCEPT !.next = "start"], rest, sent, issued)
      BY <2>2, <3>1
    <3> QED BY <2>6, <3>2 DEF Rest
  <2> QED BY <1>5, <2>3, <2>5, <2>6 DEF AfterClaim
<1> QED BY <1>4, <1>5

LEMMA StartedKeeps ==
    ASSUME NEW k, NEW r, NEW rest, Answered(k, r, rest), k.kind = "start",
           AfterSpeechStarted(r, rest)
    PROVE  Keeps(client', calls', sent', issued)
<1>1. client \in Clients /\ k \in Chain(calls) /\ Chain(rest) = {}
  BY DEF Answered, SInv, Holds, Chain, Verdicts
<1>2. client.next = "none" /\ (client.held => k.att = client.att /\ ~client.startRec)
  BY <1>1 DEF Answered, SInv, Called
<1>3. PICK c : c = [client EXCEPT !.startRpc = FALSE]
  OBVIOUS
<1>4. /\ c \in Clients /\ c.recovered = client.recovered /\ c.held = client.held
      /\ c.att = client.att /\ c.startRec = client.startRec /\ c.pending = client.pending
      /\ c.cancel = client.cancel /\ c.next = "none"
  BY <1>1, <1>2, <1>3 DEF Clients
<1>5. Keeps(c, rest, sent, issued)
  BY <1>4, Alike DEF Same, Answered
<1>6. CASE Rest(c, rest)
  BY <1>5, <1>6 DEF Rest
<1>7. CASE c.held /\ c.pending = "none" /\ Begin("release", c, rest)
  BY <1>2, <1>4, <1>5, <1>7, Begins DEF Verdicts, Answered
<1>8. ASSUME r = "ok", c.held, c.pending = "none", NEW d, NEW nx \in {"none", "speak"},
             d = [c EXCEPT !.startRec = TRUE, !.next = nx]
      PROVE  Keeps(d, rest, sent, issued) /\ d.held /\ d.pending = "none"
  <2>1. /\ d \in Clients /\ d.recovered = c.recovered /\ d.held /\ d.att = c.att
        /\ d.startRec /\ d.pending = "none" /\ d.cancel = c.cancel /\ d.next = nx
    BY <1>4, <1>8 DEF Clients
  <2>2. Holds(d, issued)
    BY <1>5, <1>8, <2>1 DEF Keeps, SInv, Holds
  <2>3. Held(d, sent)
    BY <1>2, <1>4, <1>5, <1>8, <2>1 DEF Keeps, SInv, Held
  <2>4. Called(d, rest, sent, issued)
    BY <1>1, <1>5 DEF Keeps, SInv, Called
  <2>5. k.reply = "ok" /\ k \in calls /\ k.att = d.att
    BY <1>2, <1>4, <1>8, <2>1 DEF Answered
  <2>6. \A a \in Attempts : Begun(d, rest, sent, a) => Begun(client, calls, sent, a)
    <3> SUFFICES ASSUME NEW a \in Attempts, Begun(d, rest, sent, a)
                 PROVE  Begun(client, calls, sent, a)
      OBVIOUS
    <3>1. CASE a = d.att
      BY <2>5, <3>1 DEF Begun
    <3>2. CASE a # d.att
      <4>1. Begun(c, rest, sent, a)
        BY <3>2 DEF Begun
      <4> QED BY <4>1, <1>5 DEF Keeps
    <3> QED BY <3>1, <3>2
  <2> QED BY <1>5, <2>1, <2>2, <2>3, <2>4, <2>6 DEF Keeps, SInv
<1>9. CASE r = "ok" /\ c.held /\ c.pending = "none" /\ Begin("uncertain", [c EXCEPT !.startRec = TRUE], rest)
  <2>1. PICK d : d = [c EXCEPT !.startRec = TRUE]
    OBVIOUS
  <2>2. d = [c EXCEPT !.startRec = TRUE, !.next = "none"]
    BY <1>4, <2>1 DEF Clients
  <2>3. Keeps(d, rest, sent, issued) /\ d.held /\ d.pending = "none"
    BY <1>8, <1>9, <2>2
  <2> QED BY <1>9, <2>1, <2>3, Begins DEF Verdicts, Answered
<1>10. CASE r = "ok" /\ c.held /\ c.pending = "none"
            /\ Rest([c EXCEPT !.startRec = TRUE, !.next = "speak"], rest)
  BY <1>8, <1>10 DEF Rest
<1> QED BY <1>3, <1>4, <1>6, <1>7, <1>9, <1>10 DEF AfterSpeechStarted, Clients

LEMMA SpeakKeeps ==
    ASSUME NEW k, NEW r, NEW rest, NEW monitor, Answered(k, r, rest), k.kind = "tts",
           AfterSpeak(r, rest, monitor)
    PROVE  Keeps(client', calls', sent', issued)
<1>1. client \in Clients
  BY DEF Answered, SInv, Holds
<1>2. PICK c : c = [client EXCEPT !.dispatch = FALSE]
  OBVIOUS
<1>3. Same(client, c, rest)
  BY <1>1, <1>2 DEF Same, Clients
<1>4. Keeps(c, rest, sent, issued) /\ c \in Clients
  BY <1>3, Alike DEF Answered, Same
<1>5. CASE Rest(c, rest)
  BY <1>4, <1>5 DEF Rest
<1>6. CASE c.held /\ c.pending = "none" /\ Begin("uncertain", c, rest)
  BY <1>4, <1>6, Begins DEF Verdicts, Answered
<1>7. CASE Rest([c EXCEPT !.accepted = TRUE], rest)
  <2>1. Same(c, [c EXCEPT !.accepted = TRUE], rest)
    BY <1>4 DEF Same, Clients
  <2> QED BY <1>4, <1>7, <2>1, Alike DEF Rest
<1> QED BY <1>2, <1>4, <1>5, <1>6, <1>7 DEF AfterSpeak, Clients

LEMMA StoreKeeps ==
    ASSUME NEW k, NEW r, NEW rest, Answered(k, r, rest), AfterStore(r, rest)
    PROVE  Keeps(client', calls', sent', issued)
<1>1. CASE Rest(client, rest)
  BY <1>1 DEF Rest, Answered
<1>2. CASE Rest(ClearHold, rest)
  <2>1. SInv(ClearHold, rest, sent, issued)
        /\ \A a \in Attempts : Begun(ClearHold, rest, sent, a) => Begun(client, rest, sent, a)
    BY LetGo DEF ClearHold, Answered, Keeps
  <2> QED BY <1>2, <2>1 DEF Rest, Answered, Keeps
<1> QED BY <1>1, <1>2 DEF AfterStore

LEMMA ContinueKeeps ==
    ASSUME NEW k, NEW r, NEW rest, NEW monitor, Answered(k, r, rest),
           Continue(k, r, rest, monitor)
    PROVE  Keeps(client', calls', sent', issued)
  BY RecoverKeeps, SnapshotKeeps, ClaimKeeps, StartedKeeps, SpeakKeeps, StoreKeeps DEF Continue

LEMMA AnswerKeeps ==
    ASSUME SInv(client, calls, sent, issued), issued \in Nat, NEW k \in calls, NEW monitor,
           Answer(k, monitor) \/ GiveUp(k)
    PROVE  Keeps(client', calls', sent', issued)
<1>1. CASE Answer(k, monitor)
  <2>1. Answered(k, k.reply, calls \ {k}) /\ Continue(k, k.reply, calls \ {k}, monitor)
    BY <1>1, Remaining DEF Answer, Answered
  <2> QED BY <2>1, ContinueKeeps
<1>2. CASE GiveUp(k)
  <2>1. PICK rest : rest = (calls \ {k}) \union
                (IF k.reply = "none" THEN {[k EXCEPT !.waits = FALSE]} ELSE {})
    OBVIOUS
  <2>2. Answered(k, "failed", rest) /\ Continue(k, "failed", rest, TRUE)
    BY <1>2, <2>1, Remaining DEF GiveUp, Answered
  <2> QED BY <2>2, ContinueKeeps
<1> QED BY <1>1, <1>2

LEMMA PlaybackKeeps ==
    ASSUME SInv(client, calls, sent, issued), issued \in Nat, NEW active, NEW forced,
           NotePlayback(active, forced)
    PROVE  Keeps(client', calls', sent', issued)
<1>1. client \in Clients /\ Keeps(client, calls, sent, issued)
  BY DEF SInv, Holds, Keeps
<1>2. CASE Rest(client, calls)
  BY <1>1, <1>2 DEF Rest
<1>3. CASE client.held /\ client.pending = "none"
           /\ (Begin("uncertain", client, calls) \/ Begin("delivered", client, calls))
  BY <1>1, <1>3, Begins DEF Verdicts
<1>4. CASE Rest([client EXCEPT !.started = TRUE], calls)
  <2>1. Same(client, [client EXCEPT !.started = TRUE], calls)
    BY <1>1 DEF Same, Clients
  <2> QED BY <1>1, <1>4, <2>1, Alike DEF Rest
<1> QED BY <1>1, <1>2, <1>3, <1>4 DEF NotePlayback, Clients

LEMMA StampKeeps ==
    ASSUME SInv(client, calls, sent, issued), issued \in Nat, NoteStamp
    PROVE  Keeps(client', calls', sent', issued)
<1>1. client \in Clients /\ client.held /\ client.pending = "none"
  BY DEF SInv, Holds, NoteStamp
<1>2. PICK c : c = [client EXCEPT !.cancel = TRUE]
  OBVIOUS
<1>3. PICK T : T = IF "tts" \in sent[client.att] THEN sent[client.att]
                   ELSE sent[client.att] \union {"stamp"}
  OBVIOUS
<1>4. /\ c \in Clients /\ c.recovered = client.recovered /\ c.held /\ c.att = client.att
      /\ c.startRec = client.startRec /\ c.pending = "none" /\ c.cancel
      /\ c.next = client.next
  BY <1>1, <1>2 DEF Clients
<1>5. /\ sent \in [Attempts -> SUBSET (Verdicts \union {"tts", "stamp"})]
      /\ client.att \in Attempts
      /\ client.next = "speak" => "tts" \notin sent[client.att]
      /\ "tts" \in sent[client.att] => client.startRec
      /\ sent[client.att] \intersect Verdicts = {}
      /\ "tts" \in sent[client.att] => "stamp" \notin sent[client.att]
                                       /\ "release" \notin sent[client.att]
  BY <1>1 DEF SInv, Sents, Holds, Held
<1>6. CASE client' = c /\ sent' = [sent EXCEPT ![client.att] = T] /\ calls' = calls
  <2>1. "stamp" \notin Verdicts /\ "release" # "stamp" /\ "tts" # "stamp"
    BY DEF Verdicts
  <2>2. T \intersect Verdicts = {} /\ sent[client.att] \subseteq T
        /\ T \in SUBSET (Verdicts \union {"tts", "stamp"})
    BY <1>3, <1>5, <2>1
  <2>3. "tts" \in T => T = sent[client.att]
    BY <1>3, <2>1
  <2>4. /\ \A v, w \in T \intersect Verdicts : v = w
        /\ "tts" \in T => "release" \notin T /\ "stamp" \notin T
                          /\ client.startRec /\ c.next # "speak"
    BY <1>4, <1>5, <2>2, <2>3
  <2>5. Fits(client, c, sent, T)
    BY <1>1, <1>4, <2>2, <2>4 DEF Fits
  <2> QED BY <1>6, <2>5, Noted DEF Keeps
<1>7. CASE ~client.dispatch /\ ~client.startRpc
  <2>1. PICK v : v = IF client.startRec THEN "uncertain" ELSE "release"
    OBVIOUS
  <2>2. v \in Verdicts /\ (v = "release" => ~c.startRec)
    BY <1>4, <2>1 DEF Verdicts
  <2>3. CASE client' = [c EXCEPT !.pending = v, !.next = "none"]
             /\ calls' = calls \union {Call(v, c.item, c.att)}
             /\ sent' = [sent EXCEPT ![client.att] = T \union {v}]
    <3>1. SInv(c, calls, sent, issued)
          /\ \A a \in Attempts : Begun(c, calls, sent, a) => Begun(client, calls, sent, a)
      BY <1>1, <1>4, SameHold DEF Same
    <3>2. T = sent[c.att] \/ (T = sent[c.att] \union {"stamp"} /\ "tts" \notin sent[c.att])
      BY <1>3, <1>4
    <3>3. sent' = [sent EXCEPT ![c.att] = T \union {v}]
      BY <1>4, <2>3
    <3> QED BY <1>4, <2>2, <2>3, <3>1, <3>2, <3>3, Decides DEF Keeps
  <2>4. c.startRec = client.startRec
    BY <1>4
  <2>5. \/ client' = c /\ sent' = [sent EXCEPT ![client.att] = T] /\ calls' = calls
        \/ /\ client' = [c EXCEPT !.pending = v, !.next = "none"]
           /\ calls' = calls \union {Call(v, c.item, c.att)}
           /\ sent' = [sent EXCEPT ![client.att] = T \union {v}]
    BY <1>2, <1>3, <1>4, <1>7, <2>1 DEF NoteStamp, Began
  <2> QED BY <1>6, <2>3, <2>5
<1>8. CASE client.dispatch \/ client.startRpc
  <2>1. client' = c /\ sent' = [sent EXCEPT ![client.att] = T] /\ calls' = calls
    BY <1>2, <1>3, <1>4, <1>8 DEF NoteStamp
  <2> QED BY <1>6, <2>1
<1> QED BY <1>1, <1>7, <1>8 DEF Clients

\* The client dies: what it asked is not waited for any more.
LEMMA DeathKeeps ==
    ASSUME SInv(client, calls, sent, issued), ClientDies
    PROVE  Keeps(client', calls', sent', issued)
<1>1. ASSUME NEW x \in calls'
      PROVE  x \in Calls /\ ~x.waits /\ x.reply = "none"
             /\ \E k \in calls : x.kind = k.kind /\ x.att = k.att
  <2>1. PICK k \in calls : k.reply = "none" /\ x = [k EXCEPT !.waits = FALSE]
    BY <1>1 DEF ClientDies
  <2>2. k \in Calls
    BY DEF SInv, Called
  <2>3. x \in Calls /\ ~x.waits /\ x.reply = k.reply /\ x.kind = k.kind /\ x.att = k.att
    BY <2>1, <2>2 DEF Calls
  <2> QED BY <2>1, <2>3
<1>2. Chain(calls') = {}
  BY <1>1 DEF Chain
<1>3. \A x \in calls' : \E d \in calls :
              /\ x.kind = d.kind /\ x.att = d.att /\ (x.waits => d.waits)
              /\ x.reply # "none" => x.waits
              /\ x.reply = "ok" /\ x.kind \in {"claim", "start"} => d.reply = "ok"
  BY <1>1
<1>4. calls' \subseteq Calls
  BY <1>1
<1>5. \A x, y \in Chain(calls') : x = y
  BY <1>2
<1>6. Keeps(client, calls', sent, issued)
  BY <1>3, <1>4, <1>5, FewerCalls DEF Keeps
<1>7. SInv(NoHold, calls', sent, issued)
      /\ \A a \in Attempts : Begun(NoHold, calls', sent, a) => Begun(client, calls', sent, a)
  BY <1>2, <1>6, LetGo DEF Keeps
<1> QED BY <1>6, <1>7 DEF Keeps, ClientDies

\* serve dies, and what it was asked fails.
LEMMA GatewayKeeps ==
    ASSUME SInv(client, calls, sent, issued), GatewayDies
    PROVE  Keeps(client', calls', sent', issued)
<1>1. ASSUME NEW x \in calls'
      PROVE  \E k \in calls : k.waits /\ x = [k EXCEPT !.reply = "failed"]
  BY <1>1 DEF GatewayDies
<1>2. ASSUME NEW x \in calls', NEW k \in calls, k.waits, x = [k EXCEPT !.reply = "failed"]
      PROVE  x \in Calls /\ x.waits /\ x.reply = "failed" /\ x.kind = k.kind /\ x.att = k.att
  <2>1. k \in Calls
    BY DEF SInv, Called
  <2> QED BY <1>2, <2>1 DEF Calls
<1>3. \A x, y \in Chain(calls') : x = y
  <2> SUFFICES ASSUME NEW x \in Chain(calls'), NEW y \in Chain(calls') PROVE x = y
    OBVIOUS
  <2>1. x \in calls' /\ y \in calls' /\ x.kind \notin Verdicts /\ y.kind \notin Verdicts
    BY DEF Chain
  <2>2. PICK k \in calls : k.waits /\ x = [k EXCEPT !.reply = "failed"]
    BY <1>1, <2>1
  <2>3. PICK d \in calls : d.waits /\ y = [d EXCEPT !.reply = "failed"]
    BY <1>1, <2>1
  <2>4. x.kind = k.kind /\ y.kind = d.kind
    BY <1>2, <2>1, <2>2, <2>3
  <2>5. k \in Chain(calls) /\ d \in Chain(calls)
    BY <2>1, <2>2, <2>3, <2>4 DEF Chain
  <2>6. k = d
    BY <2>5 DEF SInv, Called
  <2> QED BY <2>2, <2>3, <2>6
<1>4. \A x \in calls' : \E d \in calls :
              /\ x.kind = d.kind /\ x.att = d.att /\ (x.waits => d.waits)
              /\ x.reply # "none" => x.waits
              /\ x.reply = "ok" /\ x.kind \in {"claim", "start"} => d.reply = "ok"
  <2> TAKE x \in calls'
  <2>1. PICK k \in calls : k.waits /\ x = [k EXCEPT !.reply = "failed"]
    BY <1>1
  <2>2. x.waits /\ x.reply = "failed" /\ x.kind = k.kind /\ x.att = k.att
    BY <1>2, <2>1
  <2> QED BY <2>1, <2>2
<1>5. calls' \subseteq Calls
  BY <1>1, <1>2
<1>6. SInv(client, calls', sent, issued)
      /\ \A a \in Attempts : Begun(client, calls', sent, a) => Begun(client, calls, sent, a)
  BY <1>3, <1>4, <1>5, FewerCalls
<1> QED BY <1>6 DEF Keeps, GatewayDies

\* serve answers k: z takes its place, or nothing when nobody waits for it.
LEMMA Replied ==
    ASSUME NEW n, SInv(client, calls, sent, n), NEW k \in calls, NEW z \in Calls, NEW cs2,
           z.kind = k.kind, z.waits = k.waits, z.reply # "none", z.kind = "start" => z.att = k.att,
           z.kind = "claim" /\ z.reply = "ok" =>
              z.att \in Attempts /\ z.att <= n /\ sent[z.att] = {},
           cs2 = (calls \ {k}) \union (IF k.waits THEN {z} ELSE {})
    PROVE  /\ SInv(client, cs2, sent, n)
           /\ \A a \in Attempts : Begun(client, cs2, sent, a) =>
                Begun(client, calls, sent, a) \/ (a = z.att /\ z.kind = "start" /\ z.reply = "ok")
<1>1. \A x \in cs2 : (x \in calls /\ x # k) \/ (x = z /\ k.waits)
  OBVIOUS
<1>2. \A x \in Chain(cs2) : (x \in Chain(calls) /\ x # k) \/ (x = z /\ k \in Chain(calls))
  BY <1>1 DEF Chain
<1>3. Called(client, cs2, sent, n)
  <2>1. cs2 \subseteq Calls
    BY <1>1 DEF SInv, Called
  <2>2. \A x \in cs2 :
         /\ x.reply # "none" => x.waits
         /\ x.kind = "claim" /\ x.reply = "ok" =>
              x.att \in Attempts /\ x.att <= n /\ sent[x.att] = {}
    BY <1>1 DEF SInv, Called
  <2>3. \A x, y \in Chain(cs2) : x = y
    BY <1>2 DEF SInv, Called
  <2>4. \A x \in Chain(cs2) :
         /\ client.next = "none"
         /\ x.kind \in {"recover", "snapshot", "claim"} => ~client.held
         /\ x.kind \in {"snapshot", "claim"} => client.recovered
         /\ x.kind = "start" /\ client.held => x.att = client.att /\ ~client.startRec
    BY <1>2 DEF SInv, Called
  <2> QED BY <2>1, <2>2, <2>3, <2>4 DEF Called
<1>4. \A a \in Attempts : Begun(client, cs2, sent, a) =>
         Begun(client, calls, sent, a) \/ (a = z.att /\ z.kind = "start" /\ z.reply = "ok")
  BY <1>1 DEF Begun
<1> QED BY <1>3, <1>4 DEF SInv

\* k is answered with r, and no claim or start is granted.
LEMMA ReplyKeeps ==
    ASSUME SInv(client, calls, sent, issued), NEW k \in calls,
           NEW r \in {"ok", "refused", "failed"}, Says(k, r),
           r = "ok" => k.kind \notin {"claim", "start"},
           UNCHANGED <<client, sent>>
    PROVE  Keeps(client', calls', sent', issued)
<1>1. PICK z : z = [k EXCEPT !.reply = r]
  OBVIOUS
<1>2. k \in Calls
  BY DEF SInv, Called
<1>3. z \in Calls /\ z.kind = k.kind /\ z.att = k.att /\ z.waits = k.waits /\ z.reply = r
  BY <1>1, <1>2 DEF Calls
<1>4. calls' = (calls \ {k}) \union (IF k.waits THEN {z} ELSE {})
  BY <1>1 DEF Says, Reply
<1> QED BY <1>3, <1>4, Replied DEF Keeps

\* Ids that were not handed out yet say nothing.
LEMMA Later ==
    ASSUME NEW c, NEW cs, NEW s, NEW n \in Nat, NEW m \in Nat, SInv(c, cs, s, n), n <= m
    PROVE  SInv(c, cs, s, m)
<1>1. Attempts \subseteq Nat
  BY Parameters DEF Attempts
<1>2. \A a \in Attempts : (a <= n => a <= m) /\ (a > m => a > n)
  BY <1>1
<1>3. Holds(c, m)
  BY <1>2 DEF SInv, Holds
<1>4. Sents(s, m)
  BY <1>2 DEF SInv, Sents
<1>5. Called(c, cs, s, m)
  BY <1>2 DEF SInv, Called
<1> QED BY <1>3, <1>4, <1>5 DEF SInv

-----------------------------------------------------------------------------
(* What the store does under the client's calls. *)

\* A claim that finds nothing to say has recovered the tables all the same.
Recovers ==
    /\ item' = recoverItems /\ attempt' = recoverAttempts
    /\ UNCHANGED <<deliveries, issued, turn, watching>>

\* A claim that is released at once.
Drops ==
    /\ speechReady # {} /\ Issue
    /\ item' = recoverItems
    /\ attempt' = [Opened(recoverAttempts, First(speechReady), "speech")
                     EXCEPT ![issued + 1].status = "released"]
    /\ UNCHANGED <<deliveries, turn, watching>>

StoreStep ==
    \/ UNCHANGED vars
    \/ \E i \in Items : insert_item(i) \/ bind_open_loop_match(i) \/ dismiss_item(i)
    \/ \E S \in SUBSET Items : forget_subject(S)
    \/ \E a \in Attempts : LeaseExpires(a)
    \/ Speech
    \/ Recovers \/ Drops

\* Recovery alone, whoever asks for it.
LEMMA RecoversIInv ==
    ASSUME IInv
    PROVE  /\ Good(recoverItems, recoverAttempts, deliveries, issued)
           /\ Typed(recoverItems, recoverAttempts)
           /\ Capped(recoverItems)
           /\ \A i \in Items : item[i].deliv \in Started => recoverItems[i].deliv \in Started
           /\ \A a \in Attempts : recoverAttempts[a].item = attempt[a].item
<1>1. Good(item, attempt, deliveries, issued) /\ Typed(item, attempt)
  BY DEF IInv, TypeOK, Typed
<1>2. \A i \in Items : recoverItems[i].proc = item[i].proc /\ recoverItems[i].fails = item[i].fails
  <2> TAKE i \in Items
  <2>1. item[i] \in Rows
    BY <1>1 DEF Typed
  <2> QED BY <2>1 DEF recoverItems, Rows
<1>3. \A i \in Items : item[i].deliv \in Started => recoverItems[i].deliv \in Started
  BY <1>1, RecoveredRow DEF Started
<1>4. \A a \in Attempts : recoverAttempts[a].item = attempt[a].item
  BY <1>1, RecoveredAttempt
<1> QED BY <1>1, <1>2, <1>3, <1>4, RecoveredGood, RecoveredTyped DEF IInv, Capped

\* The claim that is released at once.
LEMMA DropsGood ==
    ASSUME IInv, Drops
    PROVE  /\ Good(item', attempt', deliveries', issued')
           /\ attempt' \in [Attempts -> AttemptRows \union {NoAttempt}]
           /\ issued' = issued + 1 /\ issued' \in 0..MaxAttempts
           /\ \A a \in Attempts : a # issued + 1 => attempt'[a] = recoverAttempts[a]
<1>0. PICK att : att = attempt'
  OBVIOUS
<1>1. /\ Good(recoverItems, recoverAttempts, deliveries, issued)
      /\ Typed(recoverItems, recoverAttempts)
  BY RecoversIInv
<1>2. issued \in Nat /\ issued + 1 \in Attempts /\ issued' = issued + 1 /\ issued' \in 0..MaxAttempts
  BY Parameters DEF Drops, Issue, IInv, TypeOK, Attempts
<1>3. PICK i \in Items : i = First(speechReady) /\ recoverItems[i].life = "here"
  <2>1. speechReady \in SUBSET Items /\ speechReady # {}
    BY DEF Drops, speechReady
  <2> QED BY <2>1, FirstIn DEF speechReady, Speakable
<1>4. PICK new : new = [item |-> i, purpose |-> "speech", status |-> "released", live |-> TRUE]
  OBVIOUS
<1>5. new \in AttemptRows
  BY <1>4 DEF AttemptRows
<1>6. att = [recoverAttempts EXCEPT ![issued + 1] = new]
  BY <1>0, <1>1, <1>2, <1>3, <1>4 DEF Drops, Opened, Typed
<1>7. \A a \in Attempts : a # issued + 1 => att[a] = recoverAttempts[a]
  BY <1>1, <1>6 DEF Typed
<1>8. att[issued + 1] = new
  BY <1>1, <1>2, <1>6 DEF Typed
<1>9. att \in [Attempts -> AttemptRows \union {NoAttempt}]
  BY <1>1, <1>2, <1>5, <1>6 DEF Typed
<1>10. recoverAttempts[issued + 1] = NoAttempt
  BY <1>1, <1>2 DEF Good, Unissued
<1>11. \A j \in Items, a \in Attempts :
         /\ Voice(att, j, a) <=> Voice(recoverAttempts, j, a)
         /\ Told(att, j, a) <=> Told(recoverAttempts, j, a)
  <2> TAKE j \in Items, a \in Attempts
  <2>1. CASE a = issued + 1
    BY <2>1, <1>4, <1>8, <1>10 DEF Voice, Told, NoAttempt
  <2>2. CASE a # issued + 1
    BY <2>2, <1>7 DEF Voice, Told
  <2> QED BY <2>1, <2>2
<1>12. item' = recoverItems /\ deliveries' = deliveries
  BY DEF Drops
<1>13. Rooted(item', att)
  BY <1>1, <1>3, <1>4, <1>7, <1>8, <1>12 DEF Good, Rooted
<1>14. OneVoice(item', att) /\ OneTold(item', att)
  <2>1. OneVoice(recoverItems, recoverAttempts) /\ OneTold(recoverItems, recoverAttempts)
    BY <1>1 DEF Good
  <2>3. ASSUME NEW j \in Items, recoverItems[j].life = "here"
        PROVE  /\ \A a, b \in Attempts : Voice(att, j, a) /\ Voice(att, j, b) => a = b
               /\ (\E a \in Attempts : Voice(att, j, a)) <=>
                    (recoverItems[j].deliv \in Speaking /\ recoverItems[j].content # "forgotten")
               /\ \A a, b \in Attempts : Told(att, j, a) /\ Told(att, j, b) => a = b
               /\ (recoverItems[j].deliv = "delivered") <=> (\E a \in Attempts : Told(att, j, a))
    <3>0. \A a \in Attempts : /\ Voice(att, j, a) <=> Voice(recoverAttempts, j, a)
                              /\ Told(att, j, a) <=> Told(recoverAttempts, j, a)
      BY <1>11
    <3>1. /\ \A a, b \in Attempts :
               Voice(recoverAttempts, j, a) /\ Voice(recoverAttempts, j, b) => a = b
          /\ (\E a \in Attempts : Voice(recoverAttempts, j, a)) <=>
               (recoverItems[j].deliv \in Speaking /\ recoverItems[j].content # "forgotten")
      BY <2>1, <2>3 DEF OneVoice
    <3>2. /\ \A a, b \in Attempts :
               Told(recoverAttempts, j, a) /\ Told(recoverAttempts, j, b) => a = b
          /\ (recoverItems[j].deliv = "delivered") <=> (\E a \in Attempts : Told(recoverAttempts, j, a))
      BY <2>1, <2>3 DEF OneTold
    <3> QED BY <3>0, <3>1, <3>2
  <2>4. OneVoice(recoverItems, att) /\ OneTold(recoverItems, att)
    BY <2>3 DEF OneVoice, OneTold
  <2> QED BY <1>12, <2>4
<1>15. Evidence(att, deliveries')
  <2> SUFFICES ASSUME NEW b \in deliveries
               PROVE  b \in Attempts /\ att[b].item \in Items /\ Told(att, att[b].item, b)
    BY <1>12 DEF Evidence
  <2>1. /\ b \in Attempts /\ recoverAttempts[b].item \in Items
        /\ Told(recoverAttempts, recoverAttempts[b].item, b)
    BY <1>1 DEF Good, Evidence
  <2>2. b # issued + 1
    BY <2>1, <1>10, Nonzero DEF NoAttempt
  <2> QED BY <2>1, <2>2, <1>7, <1>11
<1>16. Unissued(att, issued')
  BY <1>1, <1>2, <1>7 DEF Good, Unissued, Attempts
<1>17. Untold(item') /\ Wiped(item')
  BY <1>1, <1>12 DEF Good
<1> QED BY <1>0, <1>2, <1>7, <1>9, <1>13, <1>14, <1>15, <1>16, <1>17 DEF Good

LEMMA StoreIInv == ASSUME IInv, StoreStep PROVE IInv'
<1>1. CASE Recovers
  <2>1. TypeOK'
    BY <1>1, RecoversIInv DEF Recovers, Typed, IInv, TypeOK
  <2>2. Capped(item')
    BY <1>1, RecoversIInv DEF Recovers
  <2>3. Good(item', attempt', deliveries', issued')
    BY <1>1, RecoversIInv DEF Recovers
  <2> QED BY <2>1, <2>2, <2>3 DEF IInv, Capped, Good, Rooted, OneVoice, OneTold, Evidence,
                                  Unissued, Untold, Wiped, Voice, Told
<1>2. CASE Drops
  <2>1. TypeOK'
    BY <1>2, RecoversIInv, DropsGood DEF Drops, Typed, IInv, TypeOK
  <2>2. Capped(item')
    BY <1>2, RecoversIInv DEF Drops
  <2>3. Good(item', attempt', deliveries', issued')
    BY <1>2, DropsGood
  <2> QED BY <2>1, <2>2, <2>3 DEF IInv, Capped, Good, Rooted, OneVoice, OneTold, Evidence,
                                  Unissued, Untold, Wiped, Voice, Told
<1>3. CASE ~Recovers /\ ~Drops
  <2>1. [Next]_vars
    BY <1>3 DEF StoreStep, Next, Watcher, Owner, Clock
  <2> QED BY <2>1, NextIInv
<1> QED BY <1>1, <1>2, <1>3

\* A row past the point of return stays there while it exists.
LEMMA StartedStays ==
    ASSUME IInv, StoreStep, NEW i \in Items, item[i].deliv \in Started, item'[i].life = "here"
    PROVE  item'[i].deliv \in Started
<1>1. CASE Recovers \/ Drops
  BY <1>1, RecoversIInv DEF Recovers, Drops
<1>2. CASE UNCHANGED vars
  BY <1>2 DEF vars
<1>3. CASE ~Recovers /\ ~Drops /\ ~UNCHANGED vars
  <2>1. Next
    BY <1>3 DEF StoreStep, Next, Watcher, Owner, Clock
  <2>2. item[i].life = "here"
    BY DEF IInv, Good, Untold, Started
  <2>3. item'[i] # Gone
    BY DEF Gone, Blank
  <2>4. Follows(item[i], item'[i])
    BY <2>1, <2>2, <2>3, RowNext DEF IInv
  <2> QED BY <2>4 DEF Follows
<1> QED BY <1>1, <1>2, <1>3

\* An attempt keeps its row, or loses it for good.
LEMMA AttemptItems ==
    ASSUME IInv, StoreStep
    PROVE  /\ issued \in Nat /\ issued' \in Nat /\ issued <= issued'
           /\ \A a \in Attempts : a <= issued =>
                attempt'[a].item = attempt[a].item \/ attempt'[a].item = 0
<1>1. /\ attempt \in [Attempts -> AttemptRows \union {NoAttempt}]
      /\ issued \in Nat /\ Attempts \subseteq Nat
  BY Parameters DEF IInv, TypeOK, Attempts
<1>2. \A a \in Attempts : recoverAttempts[a].item = attempt[a].item
  BY RecoversIInv
<1>3. \A a \in Attempts : a <= issued => a # issued + 1
  BY <1>1
<1>4. CASE attempt' = attempt /\ issued' = issued
  BY <1>1, <1>4
<1>5. ASSUME NEW S, forget_subject(S)
      PROVE  /\ issued' = issued
             /\ \A a \in Attempts : attempt'[a].item = attempt[a].item \/ attempt'[a].item = 0
  <2>1. issued' = issued /\ attempt' = forgetAttempts(S)
    BY <1>5 DEF forget_subject
  <2> SUFFICES ASSUME NEW a \in Attempts
               PROVE  attempt'[a].item = attempt[a].item \/ attempt'[a].item = 0
    BY <2>1
  <2>2. attempt[a] \in AttemptRows \union {NoAttempt}
    BY <1>1
  <2>3. PICK x : x = attempt'[a]
    OBVIOUS
  <2>4. x = attempt[a] \/ x = NoAttempt \/ x = [attempt[a] EXCEPT !.status = "released"]
    BY <2>1, <2>3 DEF forgetAttempts
  <2>5. [attempt[a] EXCEPT !.status = "released"].item = attempt[a].item /\ NoAttempt.item = 0
    BY <2>2 DEF AttemptRows, NoAttempt
  <2>6. x.item = attempt[a].item \/ x.item = 0
    BY <2>4, <2>5
  <2> QED BY <2>3, <2>6
<1>6. ASSUME NEW b, attempt' = [attempt EXCEPT ![b].live = FALSE]
                    \/ attempt' = [attempt EXCEPT ![b].live = TRUE]
                    \/ \E st : attempt' = [attempt EXCEPT ![b].status = st]
      PROVE  \A a \in Attempts : attempt'[a].item = attempt[a].item
  <2> SUFFICES ASSUME NEW a \in Attempts PROVE attempt'[a].item = attempt[a].item
    OBVIOUS
  <2>1. attempt[a] \in AttemptRows \union {NoAttempt}
    BY <1>1
  <2>2. ASSUME NEW st
        PROVE  /\ [attempt[a] EXCEPT !.live = FALSE].item = attempt[a].item
               /\ [attempt[a] EXCEPT !.live = TRUE].item = attempt[a].item
               /\ [attempt[a] EXCEPT !.status = st].item = attempt[a].item
    BY <2>1 DEF AttemptRows, NoAttempt
  <2>3. CASE a # b
    BY <1>1, <1>6, <2>3
  <2>4. CASE a = b /\ \E st : attempt' = [attempt EXCEPT ![b].status = st]
    <3>1. PICK st : attempt' = [attempt EXCEPT ![b].status = st]
      BY <2>4
    <3>2. attempt'[a] = [attempt[a] EXCEPT !.status = st]
      BY <1>1, <2>4, <3>1
    <3> QED BY <2>2, <3>2
  <2>5. CASE a = b /\ (\/ attempt' = [attempt EXCEPT ![b].live = FALSE]
                      \/ attempt' = [attempt EXCEPT ![b].live = TRUE])
    <3>1. \/ attempt'[a] = [attempt[a] EXCEPT !.live = FALSE]
          \/ attempt'[a] = [attempt[a] EXCEPT !.live = TRUE]
      BY <1>1, <2>5
    <3> QED BY <2>2, <3>1
  <2> QED BY <1>6, <2>3, <2>4, <2>5
<1>7. CASE \E a \in Attempts : LeaseExpires(a)
  <2>1. issued' = issued /\ \E a \in Attempts : attempt' = [attempt EXCEPT ![a].live = FALSE]
    BY <1>7 DEF LeaseExpires
  <2>2. \A a \in Attempts : attempt'[a].item = attempt[a].item
    BY <1>6, <2>1
  <2> QED BY <1>1, <2>1, <2>2
<1>8. CASE Recovers \/ recover_speech
  <2>1. issued' = issued /\ attempt' = recoverAttempts
    BY <1>8 DEF Recovers, recover_speech
  <2> QED BY <1>1, <1>2, <2>1
<1>9. CASE claim_next_speech
  <2>1. issued' = issued + 1
        /\ \A a \in Attempts : a # issued + 1 => attempt'[a] = recoverAttempts[a]
    BY <1>9, RecoversIInv DEF claim_next_speech, Issue, Opened, Typed
  <2> QED BY <1>1, <1>2, <1>3, <2>1
<1>10. CASE Drops
  <2>1. issued' = issued + 1
        /\ \A a \in Attempts : a # issued + 1 => attempt'[a] = recoverAttempts[a]
    BY <1>10, DropsGood
  <2> QED BY <1>1, <1>2, <1>3, <2>1
<1>11. ASSUME NEW i \in Items, NEW a \in Attempts,
              \/ mark_speech_started(i, a) \/ mark_delivered(i, a)
              \/ mark_delivery_uncertain(i, a) \/ release_speech_claim(i, a)
       PROVE  issued' = issued /\ \A b \in Attempts : attempt'[b].item = attempt[b].item
  <2>1. /\ issued' = issued
        /\ \/ attempt' = [attempt EXCEPT ![a].live = TRUE]
           \/ \E st : attempt' = [attempt EXCEPT ![a].status = st]
    BY <1>11 DEF mark_speech_started, mark_delivered, mark_delivery_uncertain,
                 release_speech_claim, Mark
  <2> QED BY <1>6, <2>1
<1>12. CASE Speech
  BY <1>1, <1>8, <1>9, <1>11, <1>12 DEF Speech
<1>13. CASE \E i \in Items : insert_item(i) \/ bind_open_loop_match(i) \/ dismiss_item(i)
  BY <1>4, <1>13 DEF insert_item, bind_open_loop_match, dismiss_item
<1>14. CASE UNCHANGED vars
  BY <1>4, <1>14 DEF vars
<1>15. CASE \E S \in SUBSET Items : forget_subject(S)
  BY <1>1, <1>5, <1>15
<1> QED BY <1>7, <1>8, <1>10, <1>12, <1>13, <1>14, <1>15 DEF StoreStep

\* The link holds on through any step that newly begins no attempt.
LEMMA LinkStays ==
    ASSUME IInv, StoreStep, Linked(client, calls, sent), NEW c, NEW cs, NEW s,
           \A a \in Attempts : Begun(c, cs, s, a) => Begun(client, calls, sent, a)
    PROVE  /\ \A a \in Attempts : Begun(c, cs, s, a) =>
                /\ a <= issued'
                /\ attempt'[a].item \in Items => item'[attempt'[a].item].deliv \in Started
           /\ \A a, b \in Attempts :
                /\ Begun(c, cs, s, a) /\ Begun(c, cs, s, b)
                /\ attempt'[a].item = attempt'[b].item /\ attempt'[a].item \in Items
                => a = b
<1>1. \A a \in Attempts : a <= issued => a <= issued'
  <2>1. Attempts \subseteq Nat
    BY Parameters DEF Attempts
  <2> QED BY <2>1, AttemptItems
<1>2. ASSUME NEW a \in Attempts, Begun(c, cs, s, a)
      PROVE  /\ a <= issued
             /\ attempt'[a].item \in Items =>
                  /\ attempt'[a].item = attempt[a].item
                  /\ item[attempt[a].item].deliv \in Started
  <2>1. Begun(client, calls, sent, a) /\ a <= issued
    BY <1>2 DEF Linked
  <2>2. attempt'[a].item \in Items => attempt'[a].item = attempt[a].item
    BY <2>1, AttemptItems, Nonzero
  <2> QED BY <2>1, <2>2 DEF Linked
<1>3. IInv'
  BY StoreIInv
<1>4. \A a \in Attempts : attempt'[a].item \in Items => item'[attempt'[a].item].life = "here"
  BY <1>3 DEF IInv, Good, Rooted
<1>5. ASSUME NEW a \in Attempts, Begun(c, cs, s, a), attempt'[a].item \in Items
      PROVE  item'[attempt'[a].item].deliv \in Started
  BY <1>2, <1>4, <1>5, StartedStays
<1>6. ASSUME NEW a \in Attempts, NEW b \in Attempts, Begun(c, cs, s, a), Begun(c, cs, s, b),
             attempt'[a].item = attempt'[b].item, attempt'[a].item \in Items
      PROVE  a = b
  <2>1. Begun(client, calls, sent, a) /\ Begun(client, calls, sent, b)
    BY <1>6
  <2>2. attempt[a].item = attempt[b].item /\ attempt[a].item \in Items
    BY <1>2, <1>6
  <2> QED BY <2>1, <2>2 DEF Linked
<1> QED BY <1>1, <1>2, <1>5, <1>6

-----------------------------------------------------------------------------
(* The whole. *)

\* What a step must show for the invariant to go on.
Goes == /\ IInv' /\ SInv(client', calls', sent', issued')
        /\ Linked(client, calls, sent)'

LEMMA KeepsGoes ==
    ASSUME JInv, StoreStep, Keeps(client', calls', sent', issued)
    PROVE  Goes
<1>1. issued \in Nat /\ issued' \in Nat /\ issued <= issued'
  BY AttemptItems DEF JInv
<1>2. SInv(client', calls', sent', issued')
  <2>1. PICK c, cs, s : c = client' /\ cs = calls' /\ s = sent'
    OBVIOUS
  <2>2. SInv(c, cs, s, issued)
    BY <2>1 DEF Keeps
  <2>3. PICK m : m = issued'
    OBVIOUS
  <2>4. SInv(c, cs, s, m)
    BY <1>1, <2>2, <2>3, Later
  <2> QED BY <2>1, <2>3, <2>4
<1>3. Linked(client, calls, sent)'
  <2>1. PICK c, cs, s : c = client' /\ cs = calls' /\ s = sent'
    OBVIOUS
  <2>2. \A a \in Attempts : Begun(c, cs, s, a) => Begun(client, calls, sent, a)
    BY <2>1 DEF Keeps
  <2>3. \A a \in Attempts : Begun(client, calls, sent, a)' <=> Begun(c, cs, s, a)
    BY <2>1 DEF Begun
  <2>4. /\ \A a \in Attempts : Begun(c, cs, s, a) =>
             /\ a <= issued'
             /\ attempt'[a].item \in Items => item'[attempt'[a].item].deliv \in Started
        /\ \A a, b \in Attempts :
             /\ Begun(c, cs, s, a) /\ Begun(c, cs, s, b)
             /\ attempt'[a].item = attempt'[b].item /\ attempt'[a].item \in Items
             => a = b
    BY <2>2, LinkStays DEF JInv
  <2> QED BY <2>3, <2>4 DEF Linked
<1>4. IInv'
  BY StoreIInv DEF JInv
<1> QED BY <1>2, <1>3, <1>4 DEF Goes

\* A report that the store takes names an attempt of a row.
LEMMA InRange ==
    ASSUME IInv, NEW i, NEW a, a \in Open(i, "speech")
    PROVE  a \in Attempts /\ attempt[a].item = i /\ i \in Items /\ a <= issued
<1>1. a \in Attempts /\ attempt[a].item = i /\ attempt[a].purpose = "speech"
  BY DEF Open
<1>2. attempt[a] \in AttemptRows \union {NoAttempt}
  BY <1>1 DEF IInv, TypeOK
<1>3. attempt[a] # NoAttempt
  BY <1>1 DEF NoAttempt
<1>4. i \in Items
  BY <1>1, <1>2, <1>3 DEF AttemptRows
<1>5. ~(a > issued)
  BY <1>1, <1>3 DEF IInv, Good, Unissued
<1>6. a \in Nat /\ issued \in Nat
  BY <1>1, Parameters DEF IInv, TypeOK, Attempts
<1> QED BY <1>1, <1>4, <1>5, <1>6

LEMMA ClaimServed ==
    ASSUME JInv, NEW k \in calls, k.reply = "none", ServeClaim(k), UNCHANGED <<client, sent>>
    PROVE  Goes
<1>1. /\ issued \in Nat /\ k \in Calls /\ SInv(client, calls, sent, issued)
      /\ Attempts \subseteq Nat
  BY Parameters DEF JInv, IInv, TypeOK, SInv, Called, Attempts
<1>2. CASE claim_next_speech
           /\ Reply(k, [k EXCEPT !.reply = "ok", !.item = First(speechReady), !.att = issued + 1])
  <2>1. StoreStep /\ issued' = issued + 1 /\ issued + 1 \in Attempts
    BY <1>1, <1>2, Parameters DEF StoreStep, Speech, claim_next_speech, Issue, Attempts
  <2>2. First(speechReady) \in Items
    <3>1. speechReady \in SUBSET Items /\ speechReady # {}
      BY <1>2 DEF claim_next_speech, speechReady
    <3> QED BY <3>1, FirstIn
  <2>3. PICK z : z = [k EXCEPT !.reply = "ok", !.item = First(speechReady), !.att = issued + 1]
    OBVIOUS
  <2>4. /\ z \in Calls /\ z.kind = "claim" /\ z.kind = k.kind /\ z.waits = k.waits
        /\ z.reply = "ok" /\ z.att = issued + 1
    BY <1>1, <2>1, <2>2, <2>3 DEF ServeClaim, Calls
  <2>5. sent[issued + 1] = {}
    BY <1>1, <2>1 DEF SInv, Sents
  <2>6. PICK m : m = issued + 1 /\ m \in Nat /\ m = issued'
    BY <1>1, <2>1
  <2>7. SInv(client, calls, sent, m)
    BY <1>1, <2>6, Later
  <2>8. PICK cs : cs = (calls \ {k}) \union (IF k.waits THEN {z} ELSE {})
    OBVIOUS
  <2>9. calls' = cs
    BY <1>2, <2>3, <2>8 DEF Reply
  <2>10. /\ SInv(client, cs, sent, m)
         /\ \A a \in Attempts : Begun(client, cs, sent, a) => Begun(client, calls, sent, a)
    BY <2>1, <2>4, <2>5, <2>6, <2>7, <2>8, Replied
  <2>11. IInv' /\ Linked(client, calls, sent)'
    <3>1. /\ \A a \in Attempts : Begun(client, cs, sent, a) =>
             /\ a <= issued'
             /\ attempt'[a].item \in Items => item'[attempt'[a].item].deliv \in Started
          /\ \A a, b \in Attempts :
             /\ Begun(client, cs, sent, a) /\ Begun(client, cs, sent, b)
             /\ attempt'[a].item = attempt'[b].item /\ attempt'[a].item \in Items
             => a = b
      BY <2>1, <2>10, LinkStays DEF JInv
    <3>2. \A a \in Attempts : Begun(client, calls, sent, a)' <=> Begun(client, cs, sent, a)
      BY <2>9 DEF Begun
    <3> QED BY <2>1, <3>1, <3>2, StoreIInv DEF JInv, Linked
  <2> QED BY <2>6, <2>9, <2>10, <2>11 DEF Goes
<1>3. ASSUME Recovers \/ Drops, NEW r \in {"refused", "failed"}, Says(k, r)
      PROVE  Goes
  <2>1. Keeps(client', calls', sent', issued)
    BY <1>1, <1>3, ReplyKeeps
  <2> QED BY <1>3, <2>1, KeepsGoes DEF StoreStep
<1>4. CASE ~(claim_next_speech
           /\ Reply(k, [k EXCEPT !.reply = "ok", !.item = First(speechReady), !.att = issued + 1]))
  <2>1. \/ Recovers /\ Says(k, "refused")
        \/ Drops /\ Says(k, "failed")
    BY <1>4 DEF ServeClaim, Recovers, Drops
  <2> QED BY <1>3, <2>1
<1> QED BY <1>2, <1>4

LEMMA StartServed ==
    ASSUME JInv, NEW k \in calls, k.reply = "none", k.kind = "start",
           mark_speech_started(k.item, k.att), Says(k, "ok"), UNCHANGED <<client, sent>>
    PROVE  Goes
<1>1. /\ issued \in Nat /\ k \in Calls /\ SInv(client, calls, sent, issued) /\ IInv
  BY DEF JInv, IInv, TypeOK, SInv, Called
<1>2. PICK i, a : i = k.item /\ a = k.att
  OBVIOUS
<1>3. a \in Attempts /\ attempt[a].item = i /\ i \in Items /\ a <= issued
  BY <1>1, <1>2, InRange DEF mark_speech_started, Claimed
<1>4. /\ item[i].deliv = "claimed" /\ issued' = issued
      /\ item' = [item EXCEPT ![i] = [item[i] EXCEPT !.deliv = "speech_started"]]
      /\ attempt' = [attempt EXCEPT ![a].live = TRUE]
  BY <1>2 DEF mark_speech_started, Claimed, Become
<1>5. StoreStep
  BY <1>2, <1>3 DEF StoreStep, Speech
<1>6. item'[i].deliv = "speech_started" /\ attempt'[a].item = i
  <2>1. item \in [Items -> Rows] /\ attempt \in [Attempts -> AttemptRows \union {NoAttempt}]
    BY <1>1 DEF IInv, TypeOK
  <2>2. item[i] \in Rows /\ attempt[a] \in AttemptRows \union {NoAttempt}
    BY <1>3, <2>1
  <2>3. item'[i] = [item[i] EXCEPT !.deliv = "speech_started"]
        /\ attempt'[a] = [attempt[a] EXCEPT !.live = TRUE]
    BY <1>3, <1>4, <2>1
  <2>4. [item[i] EXCEPT !.deliv = "speech_started"].deliv = "speech_started"
    BY <2>2 DEF Rows
  <2>5. [attempt[a] EXCEPT !.live = TRUE].item = attempt[a].item
    BY <2>2 DEF AttemptRows, NoAttempt
  <2> QED BY <1>3, <2>3, <2>4, <2>5
<1>7. PICK z : z = [k EXCEPT !.reply = "ok"]
  OBVIOUS
<1>8. /\ z \in Calls /\ z.kind = "start" /\ z.kind = k.kind /\ z.waits = k.waits
      /\ z.reply = "ok" /\ z.att = a
  BY <1>1, <1>2, <1>7 DEF Calls
<1>9. PICK cs : cs = (calls \ {k}) \union (IF k.waits THEN {z} ELSE {})
  OBVIOUS
<1>10. calls' = cs
  BY <1>7, <1>9 DEF Says, Reply
<1>11. /\ SInv(client, cs, sent, issued)
       /\ \A b \in Attempts : Begun(client, cs, sent, b) => Begun(client, calls, sent, b) \/ b = a
  BY <1>1, <1>2, <1>8, <1>9, Replied
<1>12. /\ \A b \in Attempts : Begun(client, calls, sent, b) =>
            /\ b <= issued'
            /\ attempt'[b].item \in Items => item'[attempt'[b].item].deliv \in Started
       /\ \A b, d \in Attempts :
            /\ Begun(client, calls, sent, b) /\ Begun(client, calls, sent, d)
            /\ attempt'[b].item = attempt'[d].item /\ attempt'[b].item \in Items
            => b = d
  BY <1>5, LinkStays DEF JInv
<1>13. ASSUME NEW b \in Attempts, Begun(client, calls, sent, b), attempt'[b].item = i
       PROVE  b = a
  <2>1. b <= issued /\ (attempt[b].item \in Items => item[attempt[b].item].deliv \in Started)
    BY <1>13 DEF JInv, Linked
  <2>2. attempt[b].item = i
    BY <1>1, <1>3, <1>5, <1>13, <2>1, AttemptItems, Nonzero
  <2> QED BY <1>3, <1>4, <2>1, <2>2 DEF Started
<1>14. Linked(client, calls, sent)'
  <2>1. \A b \in Attempts : Begun(client, calls, sent, b)' <=> Begun(client, cs, sent, b)
    BY <1>10 DEF Begun
  <2>2. ASSUME NEW b \in Attempts, Begun(client, cs, sent, b)
        PROVE  /\ b <= issued'
               /\ attempt'[b].item \in Items => item'[attempt'[b].item].deliv \in Started
    <3>1. CASE b = a
      BY <1>3, <1>4, <1>6, <3>1 DEF Started
    <3>2. CASE b # a
      BY <1>11, <1>12, <2>2, <3>2
    <3> QED BY <3>1, <3>2
  <2>3. ASSUME NEW b \in Attempts, NEW d \in Attempts,
               Begun(client, cs, sent, b), Begun(client, cs, sent, d),
               attempt'[b].item = attempt'[d].item, attempt'[b].item \in Items
        PROVE  b = d
    <3>1. CASE b = a
      BY <1>6, <1>11, <1>13, <2>3, <3>1
    <3>2. CASE d = a
      BY <1>6, <1>11, <1>13, <2>3, <3>2
    <3>3. CASE b # a /\ d # a
      BY <1>11, <1>12, <2>3, <3>3
    <3> QED BY <3>1, <3>2, <3>3
  <2> QED BY <2>1, <2>2, <2>3 DEF Linked
<1>15. IInv'
  BY <1>1, <1>5, StoreIInv
<1> QED BY <1>4, <1>10, <1>11, <1>14, <1>15 DEF Goes

LEMMA ServeGoes ==
    ASSUME JInv, NEW k \in calls, Serve(k)
    PROVE  Goes
<1>1. /\ SInv(client, calls, sent, issued) /\ k.reply = "none" /\ IInv
      /\ UNCHANGED <<client, sent>>
  BY DEF JInv, Serve
<1>2. ASSUME NEW r \in {"ok", "refused", "failed"}, Says(k, r), StoreStep,
             r = "ok" => k.kind \notin {"claim", "start"}
      PROVE  Goes
  BY <1>1, <1>2, ReplyKeeps, KeepsGoes
<1>3. CASE ServeRecover(k)
  <2>1. recover_speech \/ UNCHANGED vars \/ Recovers
    BY <1>3 DEF ServeRecover
  <2>2. StoreStep
    BY <2>1 DEF StoreStep, Speech
  <2> QED BY <1>2, <1>3, <2>2 DEF ServeRecover
<1>4. CASE ServeSnapshot(k)
  BY <1>2, <1>4 DEF ServeSnapshot, StoreStep, vars
<1>5. CASE ServeClaim(k)
  BY <1>1, <1>5, ClaimServed
<1>6. CASE ServeStore(k)
  <2>1. CASE k.kind = "start" /\ mark_speech_started(k.item, k.att) /\ Says(k, "ok")
    BY <1>1, <2>1, StartServed
  <2>2. ASSUME k.kind \in Verdicts, Says(k, "ok"),
               \/ release_speech_claim(k.item, k.att) \/ mark_delivered(k.item, k.att)
               \/ mark_delivery_uncertain(k.item, k.att)
        PROVE  Goes
    <3>1. k.item \in Items /\ k.att \in Attempts
      <4>1. k.att \in Open(k.item, "speech")
        BY <2>2 DEF release_speech_claim, mark_delivered, mark_delivery_uncertain, Claimed, Spoken
      <4> QED BY <1>1, <4>1, InRange
    <3>2. StoreStep
      BY <2>2, <3>1 DEF StoreStep, Speech
    <3> QED BY <1>2, <2>2, <3>2 DEF Verdicts
  <2>3. CASE Says(k, "refused") /\ UNCHANGED vars
    BY <1>2, <2>3 DEF StoreStep
  <2> QED BY <1>6, <2>1, <2>2, <2>3 DEF ServeStore, Verdicts
<1>7. CASE ServeTts(k)
  <2>1. StoreStep
    BY <1>7 DEF ServeTts, StoreStep
  <2>2. Says(k, "ok") \/ Says(k, "refused")
    BY <1>7 DEF ServeTts
  <2> QED BY <1>2, <1>7, <2>1, <2>2 DEF ServeTts
<1> QED BY <1>3, <1>4, <1>5, <1>6, <1>7 DEF Serve

LEMMA NextGoes ==
    ASSUME JInv, SpeechNext
    PROVE  Goes
<1>1. SInv(client, calls, sent, issued) /\ issued \in Nat
  BY Parameters DEF JInv, IInv, TypeOK
<1>2. ASSUME UNCHANGED vars, Keeps(client', calls', sent', issued)
      PROVE  Goes
  BY <1>2, KeepsGoes DEF StoreStep
<1>3. CASE Store
  <2>1. StoreStep /\ UNCHANGED <<client, calls, sent>>
    BY <1>3 DEF Store, StoreStep, Speech, speechVars
  <2>2. Keeps(client', calls', sent', issued)
    BY <1>1, <2>1 DEF Keeps
  <2> QED BY <2>1, <2>2, KeepsGoes
<1>4. CASE Client
  <2>1. ASSUME NEW late, Poll(late) PROVE Goes
    BY <1>1, <1>2, <2>1, PollKeeps DEF Poll
  <2>2. CASE BeginStartRpc
    BY <1>1, <1>2, <2>2, StartKeeps DEF BeginStartRpc
  <2>3. CASE ConfirmDispatch
    BY <1>1, <1>2, <2>3, DispatchKeeps DEF ConfirmDispatch
  <2>4. ASSUME NEW k \in calls, NEW monitor, GiveUp(k) \/ Answer(k, monitor) PROVE Goes
    <3>1. UNCHANGED vars
      BY <2>4 DEF GiveUp, Answer
    <3> QED BY <1>1, <1>2, <2>4, <3>1, AnswerKeeps
  <2>5. CASE ClientDies
    BY <1>1, <1>2, <2>5, DeathKeeps DEF ClientDies
  <2> QED BY <1>4, <2>1, <2>2, <2>3, <2>4, <2>5 DEF Client
<1>5. CASE Gateway
  <2>1. CASE GatewayDies
    BY <1>1, <1>2, <2>1, GatewayKeeps DEF GatewayDies
  <2>2. ASSUME NEW k \in calls, ServeFails(k) PROVE Goes
    <3>1. Says(k, "failed") /\ UNCHANGED vars /\ UNCHANGED <<client, sent>>
      BY <2>2 DEF ServeFails
    <3>2. Keeps(client', calls', sent', issued)
      BY <1>1, <3>1, ReplyKeeps
    <3> QED BY <1>2, <3>1, <3>2
  <2>3. ASSUME NEW k \in calls, Serve(k) PROVE Goes
    BY <2>3, ServeGoes
  <2> QED BY <1>5, <2>1, <2>2, <2>3 DEF Gateway
<1>6. CASE World
  <2>1. CASE NoteStamp
    BY <1>1, <1>2, <2>1, StampKeeps DEF NoteStamp
  <2>2. ASSUME UNCHANGED <<vars, client, calls, sent>> PROVE Goes
    <3>1. Keeps(client', calls', sent', issued)
      BY <1>1, <2>2 DEF Keeps
    <3> QED BY <1>2, <2>2, <3>1
  <2>3. CASE Gate \/ AudioLost
    BY <2>2, <2>3 DEF Gate, AudioLost
  <2>4. ASSUME UNCHANGED vars, NEW active, NEW forced, NotePlayback(active, forced) PROVE Goes
    BY <1>1, <1>2, <2>4, PlaybackKeeps
  <2>5. CASE AudioStarts \/ AudioEnds
    BY <2>4, <2>5 DEF AudioStarts, AudioEnds
  <2> QED BY <1>6, <2>1, <2>3, <2>5 DEF World
<1> QED BY <1>3, <1>4, <1>5, <1>6 DEF SpeechNext

Audios == [att : Attempts \union {0}, state : {"none", "queued", "playing", "cut"}]

\* The last look at the rest: the gates, the player and the count of faults.
LEMMA NextRooms ==
    ASSUME JInv, SpeechNext
    PROVE  Rooms'
<1>1. busy \in BOOLEAN /\ audio \in Audios /\ faults \in 0..MaxFaults
  BY DEF JInv, Rooms, Audios
<1>2. Silent \in Audios
  BY DEF Silent, Audios
<1>3. \A on : StopIfNeeded(on) => audio' \in Audios
  BY <1>1, <1>2 DEF StopIfNeeded
<1>4. faults' \in 0..MaxFaults
  <2>1. faults' = faults \/ (faults < MaxFaults /\ faults' = faults + 1)
    BY DEF SpeechNext, Store, Client, Gateway, World, Poll, BeginStartRpc, ConfirmDispatch, GiveUp,
           Answer, ClientDies, GatewayDies, Serve, ServeFails, NoteStamp, Gate, AudioStarts,
           AudioEnds, AudioLost, speechVars
  <2> QED BY <1>1, <2>1, SpeechParameters
<1>5. busy' \in BOOLEAN
  <2>1. busy' = busy \/ busy' = ~busy
    BY DEF SpeechNext, Store, Client, Gateway, World, Poll, BeginStartRpc, ConfirmDispatch, GiveUp,
           Answer, ClientDies, GatewayDies, Serve, ServeFails, NoteStamp, Gate, AudioStarts,
           AudioEnds, AudioLost, speechVars
  <2> QED BY <1>1, <2>1
<1>6. audio' \in Audios
  <2>1. CASE Store
    BY <1>1, <2>1 DEF Store, speechVars
  <2>2. ASSUME NEW late, Poll(late) PROVE audio' \in Audios
    BY <1>1, <1>3, <2>2 DEF Poll
  <2>3. CASE BeginStartRpc \/ ConfirmDispatch \/ ClientDies
    BY <1>1, <2>3 DEF BeginStartRpc, ConfirmDispatch, ClientDies
  <2>4. ASSUME NEW k, NEW r, NEW rest, NEW monitor, Continue(k, r, rest, monitor)
        PROVE  audio' \in Audios
    <3>1. AfterSpeak(r, rest, monitor) => audio' \in Audios
      BY <1>1, <1>3 DEF AfterSpeak
    <3> QED BY <1>1, <2>4, <3>1 DEF Continue, AfterRecover, AfterSnapshot, AfterClaim,
                                    AfterSpeechStarted, AfterStore
  <2>5. CASE Client
    BY <2>2, <2>3, <2>4, <2>5 DEF Client, GiveUp, Answer
  <2>6. CASE GatewayDies
    BY <1>1, <1>2, <2>6 DEF GatewayDies, Audios
  <2>7. ASSUME NEW k \in calls, Serve(k) PROVE audio' \in Audios
    <3>1. k.att \in Attempts \union {0}
      BY DEF JInv, SInv, Called, Calls
    <3>2. [att |-> k.att, state |-> "queued"] \in Audios
      BY <3>1 DEF Audios
    <3> QED BY <1>1, <2>7, <3>2 DEF Serve, ServeRecover, ServeSnapshot, ServeClaim, ServeStore,
                                    ServeTts
  <2>8. CASE Gateway
    BY <1>1, <2>6, <2>7, <2>8 DEF Gateway, ServeFails
  <2>9. CASE World
    <3>1. CASE NoteStamp
      BY <1>1, <1>3, <3>1 DEF NoteStamp
    <3>2. CASE AudioStarts
      BY <1>1, <3>2 DEF AudioStarts, Audios
    <3>3. CASE AudioEnds \/ AudioLost \/ Gate
      BY <1>1, <1>2, <3>3 DEF AudioEnds, AudioLost, Gate
    <3> QED BY <2>9, <3>1, <3>2, <3>3 DEF World
  <2> QED BY <2>1, <2>5, <2>8, <2>9 DEF SpeechNext
<1> QED BY <1>4, <1>5, <1>6 DEF Rooms, Audios

LEMMA InitJInv == SpeechInit => JInv
<1> SUFFICES ASSUME SpeechInit PROVE JInv
  OBVIOUS
<1>1. IInv
  BY InitIInv DEF SpeechInit
<1>2. /\ client = NoHold /\ calls = {} /\ busy = FALSE /\ audio = Silent /\ faults = 0
      /\ sent = [a \in Attempts |-> {}]
  BY DEF SpeechInit
<1>3. NoHold \in Clients
  BY DEF NoHold, Clients
<1>4. /\ NoHold.held = FALSE /\ NoHold.att = 0 /\ NoHold.next = "none"
      /\ NoHold.pending = "none" /\ NoHold.startRec = FALSE
  BY DEF NoHold
<1>5. Holds(client, issued) /\ Held(client, sent)
  BY <1>2, <1>3, <1>4 DEF Holds, Held
<1>6. \A a \in Attempts : sent[a] = {}
  BY <1>2
<1>7. Sents(sent, issued)
  BY <1>2, <1>6 DEF Sents
<1>8. Called(client, calls, sent, issued)
  BY <1>2 DEF Called, Chain
<1>9. Linked(client, calls, sent)
  BY <1>2, <1>4, <1>6 DEF Linked, Begun
<1>10. Rooms
  <2>1. Silent \in Audios
    BY DEF Silent, Audios
  <2>2. 0 \in 0..MaxFaults
    BY SpeechParameters
  <2> QED BY <1>2, <2>1, <2>2 DEF Rooms, Audios
<1> QED BY <1>1, <1>5, <1>7, <1>8, <1>9, <1>10 DEF JInv, SInv

LEMMA NextJInv == JInv /\ [SpeechNext]_allVars => JInv'
<1>1. ASSUME JInv, SpeechNext PROVE JInv'
  <2>1. Goes /\ Rooms'
    BY <1>1, NextGoes, NextRooms
  <2>2. SInv(client, calls, sent, issued)' <=> SInv(client', calls', sent', issued')
    BY DEF SInv, Holds, Sents, Held, Called, Chain
  <2> QED BY <2>1, <2>2 DEF Goes, JInv
<1>2. ASSUME JInv, UNCHANGED allVars PROVE JInv'
  <2>1. UNCHANGED vars /\ UNCHANGED <<client, calls, busy, audio, sent, faults>>
    BY <1>2 DEF allVars, speechVars
  <2>2. StoreStep /\ Keeps(client', calls', sent', issued)
    BY <1>2, <2>1 DEF StoreStep, Keeps, JInv
  <2>3. Goes
    BY <1>2, <2>2, KeepsGoes
  <2>4. Rooms'
    BY <1>2, <2>1 DEF JInv, Rooms
  <2>5. SInv(client, calls, sent, issued)' <=> SInv(client', calls', sent', issued')
    BY DEF SInv, Holds, Sents, Held, Called, Chain
  <2> QED BY <2>3, <2>4, <2>5 DEF Goes, JInv
<1> QED BY <1>1, <1>2

\* The invariant holds in every state that client, gateway and store reach.
THEOREM SpeechInvariant == SpeechSpec => []JInv
  BY InitJInv, NextJInv, PTL DEF SpeechSpec

-----------------------------------------------------------------------------
(* The properties. *)

\* Every variable keeps its type, and the client names an attempt exactly
\* while it holds one (ProactiveDeliveryCoordinator's fields).
THEOREM SpeechTypeCorrect == SpeechSpec => []SpeechTypeOK
<1>1. JInv => SpeechTypeOK
  <2> SUFFICES ASSUME JInv PROVE SpeechTypeOK
    OBVIOUS
  <2>1. TypeOK /\ Rooms
    BY DEF JInv, IInv
  <2>2. /\ client \in Clients /\ (client.held <=> client.att # 0)
        /\ calls \subseteq Calls
        /\ sent \in [Attempts -> SUBSET (Verdicts \union {"tts", "stamp"})]
    BY DEF JInv, SInv, Holds, Called, Sents
  <2> QED BY <2>1, <2>2 DEF SpeechTypeOK, Rooms
<1> QED BY <1>1, SpeechInvariant, PTL

\* An item is sent to the voice at most once, over all attempts, lost answers
\* and restarts, and an attempt gets one verdict, which is never a release
\* once its line was sent (ConfirmDispatch, BeginRelease, BeginUncertain,
\* BeginDelivered, mark_speech_started; P9-D11).
THEOREM ItemsAreSpokenOnce == SpeechSpec => []SpokenOnce
<1>1. JInv => SpokenOnce
  <2> SUFFICES ASSUME JInv PROVE SpokenOnce
    OBVIOUS
  <2>1. ASSUME NEW a \in Attempts, NEW b \in Attempts, "tts" \in sent[a], "tts" \in sent[b],
               attempt[a].item = attempt[b].item, attempt[a].item \in Items
        PROVE  a = b
    <3>1. Begun(client, calls, sent, a) /\ Begun(client, calls, sent, b)
      BY <2>1 DEF Begun
    <3> QED BY <2>1, <3>1 DEF JInv, Linked
  <2>2. ASSUME NEW a \in Attempts
        PROVE  /\ \A v, w \in sent[a] \intersect Verdicts : v = w
               /\ ~({"tts", "release"} \subseteq sent[a])
    BY DEF JInv, SInv, Sents
  <2> QED BY <2>1, <2>2 DEF SpokenOnce
<1> QED BY <1>1, SpeechInvariant, PTL

\* Once the owner interrupts, the line of that attempt is not sent any more,
\* wherever the chain of calls stands (NoteStamp, ConfirmDispatch).
THEOREM StampsAreQuiet == SpeechSpec => []QuietAfterStamp
<1>1. JInv => QuietAfterStamp
  BY DEF JInv, SInv, Sents, QuietAfterStamp
<1> QED BY <1>1, SpeechInvariant, PTL
=============================================================================
