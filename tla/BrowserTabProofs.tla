-------------------------- MODULE BrowserTabProofs --------------------------
(***************************************************************************)
(* What a tab shows, for any arbiter, any length of the queue and any       *)
(* number of changes.  FeedInv says what the newest status on its way tells *)
(* the tab, ListInv what the request for the job list that is under way     *)
(* will bring; both hold at every step, the properties where nothing is on  *)
(* its way.                                                                *)
(***************************************************************************)
EXTENDS BrowserTab, GpuArbiterProofs

\* The i-th event in the queue is the last of its kind.
Newest(q, i, kind) ==
  i \in DOMAIN q /\ q[i].kind = kind /\ \A j \in DOMAIN q : j > i => q[j].kind # kind

\* Between calls, the newest status on its way is the arbiter's; with none on its way,
\* and none lost, it is the one on the screen.
FeedInv ==
  ~SwapUnderWay /\ ~unsaid =>
    /\ \A i \in DOMAIN outbox : Newest(outbox, i, "status") => outbox[i] = Status
    /\ ~Awaits("status") /\ "status" \notin missed => shown = Status

\* With no news and no response to a change on its way, the last request was sent after
\* all that the tab is told of: the requests read that, or are yet to read, and when the
\* last of them has been answered it is shown.
ListInv ==
  /\ unannounced = 0 /\ own = 0 /\ ~Awaits("jobs") /\ "jobs" \notin missed /\ ~raced =>
       burst >= told
  /\ \A i \in DOMAIN fetches : fetches[i] # Unread => fetches[i] >= burst
  /\ fetches = <<>> /\ "jobs" \notin missed => jobsShown >= burst

OutboxOK ==
  /\ outbox \in Seq(Event) /\ Len(outbox) <= MaxQueue
  /\ socket # "open" => outbox = <<>>

------------------------------------------------------------------------------
(* The queue *)

\* The event just published is the last one in the queue, behind the old ones.
LEMMA PublishQueue ==
  ASSUME OutboxOK, NEW event \in Event, Publish(event), socket = "open"
  PROVE  /\ UNCHANGED socket
         /\ \E d \in {0, 1} :
              /\ d = 1 => outbox # <<>> /\ missed' = missed \union ({outbox[1].kind} \ {"other"})
              /\ d = 0 => missed' = missed
              /\ Len(outbox') = Len(outbox) + 1 - d
              /\ Len(outbox') <= MaxQueue
              /\ outbox'[Len(outbox')] = event
              /\ \A i \in 1 .. Len(outbox) - d : outbox'[i] = outbox[i + d]
         /\ outbox' \in Seq(Event)
  <1> USE TabAssumption DEF OutboxOK
  <1>1. CASE Len(outbox) < MaxQueue
    <2>1. outbox' = Append(outbox, event) /\ UNCHANGED <<socket, missed>>
      BY <1>1 DEF Publish
    <2> QED BY <1>1, <2>1
  <1>2. CASE Len(outbox) = MaxQueue
    <2>1. /\ outbox' = Append(Tail(outbox), event) /\ UNCHANGED socket
          /\ missed' = missed \union ({Head(outbox).kind} \ {"other"})
      BY <1>2 DEF Publish
    <2>2. outbox # <<>> /\ Tail(outbox) \in Seq(Event) /\ Len(Tail(outbox)) = Len(outbox) - 1
      BY <1>2
    <2>3. \A i \in 1 .. Len(outbox) - 1 : Tail(outbox)[i] = outbox[i + 1]
      BY <2>2
    <2>4. \A i \in 1 .. Len(outbox) - 1 : outbox'[i] = Tail(outbox)[i]
      BY <2>1, <2>2
    <2>5. Len(outbox') = Len(outbox) /\ outbox'[Len(outbox')] = event /\ outbox' \in Seq(Event)
      BY <2>1, <2>2
    <2>6. \A i \in 1 .. Len(outbox) - 1 : outbox'[i] = outbox[i + 1]
      BY <2>3, <2>4
    <2>7. missed' = missed \union ({outbox[1].kind} \ {"other"})
      BY <2>1
    <2> QED BY <1>2, <2>1, <2>2, <2>5, <2>6, <2>7
  <1> QED BY <1>1, <1>2

\* Nothing is lost in silence, and the newest status is the one published, or the
\* newest before.
LEMMA PublishKeeps ==
  ASSUME OutboxOK, missed \subseteq {"status", "jobs"}, NEW event \in Event, Publish(event)
  PROVE  /\ OutboxOK' /\ UNCHANGED socket /\ missed' \subseteq {"status", "jobs"}
         /\ \A kind \in {"status", "jobs"} :
              ~Awaits(kind)' /\ kind \notin missed' =>
                ~Awaits(kind) /\ kind \notin missed /\ event.kind # kind
         /\ \A i \in DOMAIN outbox' : Newest(outbox', i, "status") =>
              IF event.kind = "status" THEN outbox'[i] = event
              ELSE \E k \in DOMAIN outbox : Newest(outbox, k, "status") /\ outbox[k] = outbox'[i]
  <1> USE DEF OutboxOK
  <1>1. CASE socket # "open"
    <2>1. /\ missed' = missed \union ({event.kind} \ {"other"}) /\ UNCHANGED <<socket, outbox>>
      BY <1>1 DEF Publish
    <2>2. event.kind \in Kinds
      BY DEF Event
    <2>3. DOMAIN outbox = {} /\ DOMAIN outbox' = {}
      BY <1>1, <2>1
    <2>4. ~Awaits("status")' /\ ~Awaits("jobs")' /\ ~Awaits("status") /\ ~Awaits("jobs")
      BY <2>3 DEF Awaits
    <2>5. missed' \subseteq {"status", "jobs"}
      BY <2>1, <2>2 DEF Kinds
    <2>6. \A kind \in {"status", "jobs"} : kind \notin missed' => kind \notin missed /\ event.kind # kind
      BY <2>1
    <2> QED BY <1>1, <2>1, <2>3, <2>4, <2>5, <2>6
  <1>2. CASE socket = "open"
    <2>1. PICK d \in {0, 1} :
            /\ d = 1 => outbox # <<>> /\ missed' = missed \union ({outbox[1].kind} \ {"other"})
            /\ d = 0 => missed' = missed
            /\ Len(outbox') = Len(outbox) + 1 - d
            /\ Len(outbox') <= MaxQueue
            /\ outbox'[Len(outbox')] = event
            /\ \A i \in 1 .. Len(outbox) - d : outbox'[i] = outbox[i + d]
      BY <1>2, PublishQueue
    <2>2. UNCHANGED socket /\ outbox' \in Seq(Event)
      BY <1>2, PublishQueue
    <2>3. OutboxOK'
      BY <1>2, <2>1, <2>2
    <2> DEFINE n == Len(outbox')
    <2>4. /\ n \in Nat \ {0} /\ DOMAIN outbox = 1 .. Len(outbox) /\ DOMAIN outbox' = 1 .. n
          /\ Len(outbox) \in Nat /\ n = Len(outbox) + 1 - d
      BY <2>1, <2>2
    <2>5. missed' \subseteq {"status", "jobs"}
      <3>1. CASE d = 0
        BY <2>1, <3>1
      <3>2. CASE d = 1
        <4>1. outbox[1] \in Event
          BY <2>4, <3>2
        <4>2. outbox[1].kind \in Kinds
          BY <4>1 DEF Event
        <4> QED BY <2>1, <3>2, <4>2 DEF Kinds
      <3> QED BY <3>1, <3>2
    <2>6. ASSUME NEW kind \in {"status", "jobs"}, ~Awaits(kind)', kind \notin missed'
          PROVE  ~Awaits(kind) /\ kind \notin missed /\ event.kind # kind
      <3>1. \A i \in 1 .. n : outbox'[i].kind # kind
        BY <2>4, <2>6 DEF Awaits
      <3>2. event.kind # kind
        BY <2>1, <2>4, <3>1
      <3>3. kind \notin missed /\ (d = 1 => outbox[1].kind # kind)
        BY <2>1, <2>6
      <3>4. ASSUME NEW i \in 1 .. Len(outbox) PROVE outbox[i].kind # kind
        <4>1. CASE d = 1 /\ i = 1
          BY <3>3, <4>1
        <4>2. CASE ~(d = 1 /\ i = 1)
          <5>1. i - d \in 1 .. Len(outbox) - d /\ i - d \in 1 .. n /\ (i - d) + d = i
            BY <2>4, <4>2
          <5> QED BY <2>1, <3>1, <5>1
        <4> QED BY <4>1, <4>2
      <3> QED BY <2>4, <3>2, <3>3, <3>4 DEF Awaits
    <2>7. ASSUME NEW i \in DOMAIN outbox', Newest(outbox', i, "status"), event.kind = "status"
          PROVE  outbox'[i] = event
      <3>1. i \in 1 .. n /\ n \in DOMAIN outbox' /\ outbox'[n].kind = "status"
        BY <2>1, <2>4, <2>7
      <3>2. ~(n > i)
        BY <2>7, <3>1 DEF Newest
      <3>3. i = n
        BY <2>4, <3>1, <3>2
      <3> QED BY <2>1, <3>3
    <2>8. ASSUME NEW i \in DOMAIN outbox', Newest(outbox', i, "status"), event.kind # "status"
          PROVE  \E k \in DOMAIN outbox : Newest(outbox, k, "status") /\ outbox[k] = outbox'[i]
      <3>1. i # n
        BY <2>1, <2>8 DEF Newest
      <3>2. i \in 1 .. Len(outbox) - d /\ i + d \in DOMAIN outbox /\ outbox'[i] = outbox[i + d]
        BY <2>1, <2>4, <3>1
      <3>3. ASSUME NEW j \in DOMAIN outbox, j > i + d PROVE outbox[j].kind # "status"
        <4>1. j - d \in 1 .. Len(outbox) - d /\ j - d \in DOMAIN outbox' /\ j - d > i /\ (j - d) + d = j
          BY <2>4, <3>3, <3>2
        <4>2. outbox'[j - d] = outbox[j]
          BY <2>1, <4>1
        <4> QED BY <2>8, <4>1, <4>2 DEF Newest
      <3>4. Newest(outbox, i + d, "status")
        BY <2>8, <3>2, <3>3 DEF Newest
      <3> QED BY <3>2, <3>4
    <2> QED BY <2>2, <2>3, <2>5, <2>6, <2>7, <2>8
  <1> QED BY <1>1, <1>2 

\* The tab takes the oldest event; what is behind it stays in its order.
LEMMA HandleKeeps ==
  ASSUME OutboxOK, outbox # <<>>, outbox' = Tail(outbox), UNCHANGED socket, socket = "open"
  PROVE  /\ OutboxOK' /\ Head(outbox) = outbox[1] /\ Head(outbox) \in Event
         /\ \A kind \in Kinds : Awaits(kind) <=> Head(outbox).kind = kind \/ Awaits(kind)'
         /\ \A i \in DOMAIN outbox' : Newest(outbox', i, "status") =>
              i + 1 \in DOMAIN outbox /\ Newest(outbox, i + 1, "status") /\ outbox[i + 1] = outbox'[i]
         /\ ~Awaits("status")' /\ Head(outbox).kind = "status" => Newest(outbox, 1, "status")
  <1> USE DEF OutboxOK
  <1>1. /\ Len(outbox) \in Nat \ {0} /\ Head(outbox) = outbox[1] /\ Head(outbox) \in Event
        /\ outbox' \in Seq(Event) /\ Len(outbox') = Len(outbox) - 1
        /\ DOMAIN outbox = 1 .. Len(outbox) /\ DOMAIN outbox' = 1 .. Len(outbox) - 1
    OBVIOUS
  <1>2. \A i \in 1 .. Len(outbox) - 1 : outbox'[i] = outbox[i + 1]
    BY <1>1
  <1>3. OutboxOK'
    BY <1>1, TabAssumption
  <1>4. ASSUME NEW j \in 2 .. Len(outbox)
        PROVE  j - 1 \in DOMAIN outbox' /\ outbox'[j - 1] = outbox[j]
    <2>1. j - 1 \in 1 .. Len(outbox) - 1 /\ (j - 1) + 1 = j
      BY <1>1
    <2> QED BY <1>1, <1>2, <2>1
  <1>5. ASSUME NEW kind \in Kinds
        PROVE  Awaits(kind) <=> Head(outbox).kind = kind \/ Awaits(kind)'
    <2>1. ASSUME NEW j \in DOMAIN outbox, outbox[j].kind = kind, j # 1 PROVE Awaits(kind)'
      <3>1. j \in 2 .. Len(outbox)
        BY <1>1, <2>1
      <3> QED BY <1>4, <2>1, <3>1 DEF Awaits
    <2>2. ASSUME NEW i \in DOMAIN outbox', outbox'[i].kind = kind PROVE Awaits(kind)
      <3>1. i + 1 \in DOMAIN outbox /\ outbox'[i] = outbox[i + 1]
        BY <1>1, <1>2
      <3> QED BY <2>2, <3>1 DEF Awaits
    <2>3. 1 \in DOMAIN outbox
      BY <1>1
    <2> QED BY <1>1, <2>1, <2>2, <2>3 DEF Awaits
  <1>6. ASSUME NEW i \in DOMAIN outbox', Newest(outbox', i, "status")
        PROVE  i + 1 \in DOMAIN outbox /\ Newest(outbox, i + 1, "status") /\ outbox[i + 1] = outbox'[i]
    <2>1. i + 1 \in DOMAIN outbox /\ outbox[i + 1] = outbox'[i] /\ i \in Nat
      BY <1>1, <1>2
    <2>2. ASSUME NEW j \in DOMAIN outbox, j > i + 1 PROVE outbox[j].kind # "status"
      <3>1. j \in 2 .. Len(outbox) /\ j - 1 > i
        BY <1>1, <2>1, <2>2
      <3> QED BY <1>4, <1>6, <3>1 DEF Newest
    <2> QED BY <1>6, <2>1, <2>2 DEF Newest
  <1>7. ASSUME ~Awaits("status")', Head(outbox).kind = "status" PROVE Newest(outbox, 1, "status")
    <2>1. ASSUME NEW j \in DOMAIN outbox, j > 1 PROVE outbox[j].kind # "status"
      <3>1. j \in 2 .. Len(outbox)
        BY <1>1, <2>1
      <3> QED BY <1>4, <1>7, <3>1 DEF Awaits
    <2> QED BY <1>1, <1>7, <2>1 DEF Newest
  <1> QED BY <1>1, <1>3, <1>5, <1>6, <1>7

------------------------------------------------------------------------------
(* Types *)

\* What is in the queue.
LEMMA EventTypes ==
  TypeOK => Status \in Event /\ News("jobs") \in Event /\ News("other") \in Event
  BY DEF TypeOK, Status, News, Event, Kinds

\* To the arbiter, a step of the tab is one of its own or none.
LEMMA IsArbiterStep == [Next]_vars => [ArbiterNext]_arbiterVars
  BY DEF Next, vars, ArbiterNext, ArbiterStep, NewCall, ChangeJobs, ChangeSilently, AnnounceJobs,
     OtherEvent, Greet, Subscribe, Disconnect, HandleEvent, OwnChange, OwnAnswered, OwnFails,
     ServeJobs, ShowJobs, FetchFails

\* The elements of a list.
LEMMA Elements ==
  ASSUME NEW S, NEW q \in Seq(S), NEW i \in DOMAIN q
  PROVE  q[i] \in S
  OBVIOUS

\* A response leaves the requests behind it in their order.
LEMMA AnsweredType ==
  ASSUME NEW S, fetches \in Seq(S), NEW i \in DOMAIN fetches, Answered(i)
  PROVE  /\ fetches' \in Seq(S) /\ Len(fetches') = Len(fetches) - 1
         /\ Len(fetches) = 1 => i = 1 /\ fetches' = <<>>
  <1>1. i \in 1 .. Len(fetches) /\ Len(fetches) \in Nat
    OBVIOUS
  <1> DEFINE before == SubSeq(fetches, 1, i - 1)
             after == SubSeq(fetches, i + 1, Len(fetches))
  <1>2. before \in Seq(S) /\ Len(before) = i - 1
    BY <1>1
  <1>3. after \in Seq(S) /\ Len(after) = Len(fetches) - i
    BY <1>1
  <1>4. fetches' = before \o after
    BY DEF Answered
  <1>5. fetches' \in Seq(S) /\ Len(fetches') = Len(fetches) - 1
    <2> HIDE DEF before, after
    <2>1. Len(before \o after) = Len(before) + Len(after) /\ before \o after \in Seq(S)
      BY <1>2, <1>3
    <2> QED BY <1>1, <1>2, <1>3, <1>4, <2>1
  <1>6. Len(fetches) = 1 => i = 1 /\ fetches' = <<>>
    BY <1>1, <1>5
  <1> QED BY <1>5, <1>6

\* Each request that is left was there before.
LEMMA AnsweredKeeps ==
  ASSUME NEW S, fetches \in Seq(S), NEW i \in DOMAIN fetches, Answered(i)
  PROVE  \A j \in DOMAIN fetches' : \E k \in DOMAIN fetches : fetches'[j] = fetches[k]
  <1>1. i \in 1 .. Len(fetches) /\ Len(fetches) \in Nat
    OBVIOUS
  <1> DEFINE before == SubSeq(fetches, 1, i - 1)
             after == SubSeq(fetches, i + 1, Len(fetches))
  <1>2. before \in Seq(S) /\ Len(before) = i - 1 /\ \A j \in 1 .. i - 1 : before[j] = fetches[j]
    BY <1>1
  <1>3. /\ after \in Seq(S) /\ Len(after) = Len(fetches) - i
        /\ \A j \in 1 .. Len(fetches) - i : after[j] = fetches[j + i]
    BY <1>1
  <1>4. fetches' = before \o after
    BY DEF Answered
  <1> HIDE DEF before, after
  <1>5. DOMAIN fetches' = 1 .. Len(fetches) - 1
    BY <1>1, <1>2, <1>3, <1>4
  <1>6. ASSUME NEW j \in DOMAIN fetches' PROVE \E k \in DOMAIN fetches : fetches'[j] = fetches[k]
    <2>1. CASE j \in 1 .. i - 1
      BY <1>1, <1>2, <1>3, <1>4, <2>1
    <2>2. CASE j \notin 1 .. i - 1
      <3>1. j - (i - 1) \in 1 .. Len(fetches) - i /\ j + 1 \in DOMAIN fetches
            /\ j - (i - 1) + i = j + 1
        BY <1>1, <1>5, <2>2
      <3>2. fetches'[j] = after[j - (i - 1)]
        <4>1. j \in Nat /\ j > Len(before) /\ j <= Len(before) + Len(after)
          BY <1>1, <1>2, <1>3, <1>5, <2>2
        <4>2. (before \o after)[j] = after[j - Len(before)]
          BY <1>2, <1>3, <4>1
        <4> QED BY <1>2, <1>4, <4>2
      <3> QED BY <1>3, <3>1, <3>2
    <2> QED BY <2>1, <2>2
  <1> QED BY <1>6

\* A request for the list: the newest of those in flight, and the first of a new burst
\* if there was none.
LEMMA RequestType ==
  ASSUME fetches \in Seq(Unread .. jobsRev), jobsRev \in Nat, burst \in 0 .. jobsRev, RequestJobs
  PROVE  /\ fetches' \in Seq(Unread .. jobsRev) /\ fetches' # <<>>
         /\ raced' \in BOOLEAN /\ burst' \in 0 .. jobsRev
         /\ ~raced' => fetches = <<>> /\ burst' = jobsRev
         /\ fetches # <<>> => burst' = burst
         /\ \A i \in DOMAIN fetches' :
              fetches'[i] = Unread \/ (i \in DOMAIN fetches /\ fetches'[i] = fetches[i])
  <1>1. Unread \in Unread .. jobsRev
    BY DEF Unread
  <1>2. fetches' = Append(fetches, Unread) /\ raced' = (fetches # <<>>)
        /\ burst' = IF fetches = <<>> THEN jobsRev ELSE burst
    BY DEF RequestJobs
  <1>3. fetches' \in Seq(Unread .. jobsRev) /\ fetches' # <<>>
    BY <1>1, <1>2
  <1>4. raced' \in BOOLEAN /\ burst' \in 0 .. jobsRev
    BY <1>2
  <1>5. ~raced' => fetches = <<>> /\ burst' = jobsRev
    BY <1>2, Zenon
  <1>6. ASSUME NEW i \in DOMAIN fetches'
        PROVE  fetches'[i] = Unread \/ (i \in DOMAIN fetches /\ fetches'[i] = fetches[i])
    <2>1. i \in 1 .. Len(fetches) + 1 /\ Len(fetches) \in Nat
      BY <1>2
    <2> QED BY <1>2, <2>1
  <1> QED BY <1>2, <1>3, <1>4, <1>5, <1>6

\* Every step keeps the types.
LEMMA TabTypeStep ==
  ASSUME TabTypeOK, TypeOK', [Next]_vars
  PROVE  TabTypeOK'
  <1>1. /\ TypeOK /\ OutboxOK /\ missed \subseteq {"status", "jobs"}
        /\ socket \in {"closed", "greeted", "open"}
    BY DEF TabTypeOK, OutboxOK
  <1>2. Status \in Event /\ Status' \in Event /\ News("jobs") \in Event /\ News("other") \in Event
    <2>1. TypeOK' => Status' \in Event
      BY DEF TypeOK, Status, Event, Kinds
    <2> QED BY <1>1, <2>1, EventTypes
  <1> DEFINE FeedOK == OutboxOK /\ missed \subseteq {"status", "jobs"} /\ socket \in {"closed", "greeted", "open"}
             ListOK == /\ jobsRev \in 0 .. MaxChanges /\ told \in 0 .. jobsRev
                       /\ unannounced \in 0 .. jobsRev /\ own \in 0 .. jobsRev
                       /\ fetches \in Seq(Unread .. jobsRev)
                       /\ jobsShown \in 0 .. jobsRev /\ raced \in BOOLEAN
                       /\ burst \in 0 .. jobsRev
             ScreenOK == shown \in Event /\ unsaid \in BOOLEAN
  <1>3. FeedOK /\ ListOK /\ ScreenOK
    BY <1>1 DEF TabTypeOK
  <1>4. FeedOK' /\ ListOK' /\ ScreenOK' => TabTypeOK'
    BY DEF TabTypeOK, OutboxOK
  <1>5. ASSUME NEW event \in Event, Publish(event) PROVE FeedOK'
    BY <1>1, <1>5, PublishKeeps
  <1> USE TabAssumption
  <1>6. CASE UNCHANGED tabVars
    BY <1>3, <1>4, <1>6 DEF tabVars, feedVars, jobVars, listVars, OutboxOK
  <1>7. ASSUME NEW c \in Callers, ArbiterStep(c) PROVE TabTypeOK'
    <2>1. FeedOK' /\ unsaid' \in BOOLEAN
      <3>1. CASE Publish(Status') /\ unsaid' = FALSE
        BY <1>2, <1>5, <3>1
      <3>2. CASE UNCHANGED feedVars /\ unsaid' = (unsaid \/ call'[c].stage = "failed")
        BY <1>3, <3>2 DEF feedVars, OutboxOK
      <3> QED BY <1>7, <3>1, <3>2 DEF ArbiterStep
    <2>2. UNCHANGED <<shown, jobVars, listVars>>
      BY <1>7 DEF ArbiterStep
    <2> QED BY <1>3, <1>4, <2>1, <2>2 DEF jobVars, listVars
  <1>8. CASE ChangeJobs \/ ChangeSilently \/ OwnChange
    <2>1. /\ jobsRev' = jobsRev + 1 /\ jobsRev < MaxChanges /\ told' \in {told, jobsRev + 1}
          /\ unannounced' \in {unannounced, unannounced + 1} /\ own' \in {own, own + 1}
          /\ UNCHANGED <<feedVars, shown, unsaid, fetches, jobsShown, raced, burst>>
      BY <1>8 DEF ChangeJobs, ChangeSilently, OwnChange, Commit, listVars
    <2>2. fetches \in Seq(Unread .. jobsRev')
      BY <1>3, <2>1 DEF Unread
    <2>3. ListOK'
      BY <1>3, <2>1, <2>2
    <2> QED BY <1>3, <1>4, <2>1, <2>3 DEF feedVars, OutboxOK
  <1>9. CASE AnnounceJobs \/ OtherEvent
    <2>1. FeedOK'
      BY <1>2, <1>5, <1>9 DEF AnnounceJobs, OtherEvent
    <2>2. ListOK' /\ ScreenOK'
      BY <1>3, <1>9 DEF AnnounceJobs, OtherEvent, jobVars, listVars
    <2> QED BY <1>4, <2>1, <2>2
  <1>10. CASE Greet \/ Subscribe \/ Disconnect
    <2>1. ListOK' /\ ScreenOK'
      BY <1>2, <1>3, <1>10 DEF Greet, Subscribe, Disconnect, jobVars, listVars
    <2>2. CASE Greet \/ Subscribe
      BY <1>3, <1>4, <2>1, <2>2 DEF Greet, Subscribe, OutboxOK
    <2>3. CASE Disconnect
      <3>1. outbox' = <<>> /\ socket' = "closed"
            /\ missed' = missed \union ({outbox[i].kind : i \in DOMAIN outbox} \ {"other"})
        BY <2>3 DEF Disconnect
      <3>2. \A i \in DOMAIN outbox : outbox[i].kind \in Kinds
        <4>1. \A i \in DOMAIN outbox : outbox[i] \in Event
          BY <1>3, Elements DEF OutboxOK
        <4> QED BY <4>1 DEF Event
      <3>3. missed' \subseteq {"status", "jobs"}
        BY <1>3, <3>1, <3>2 DEF Kinds
      <3>4. OutboxOK'
        BY <3>1 DEF OutboxOK
      <3> QED BY <1>4, <2>1, <3>1, <3>3, <3>4
    <2> QED BY <1>10, <2>2, <2>3
  <1>11. CASE HandleEvent
    <2>1. OutboxOK' /\ Head(outbox) \in Event
      BY <1>1, <1>11, HandleKeeps DEF HandleEvent
    <2>2. shown' \in Event
      BY <1>3, <1>11, <2>1 DEF HandleEvent, ShowStatus
    <2>3. fetches' \in Seq(Unread .. jobsRev) /\ raced' \in BOOLEAN /\ burst' \in 0 .. jobsRev
      <3>1. CASE Head(outbox).kind = "jobs"
        BY <1>3, <1>11, <3>1, RequestType DEF HandleEvent, FetchJobs
      <3>2. CASE Head(outbox).kind # "jobs"
        BY <1>3, <1>11, <3>2 DEF HandleEvent, FetchJobs
      <3> QED BY <3>1, <3>2
    <2> QED BY <1>3, <1>4, <1>11, <2>1, <2>2, <2>3 DEF HandleEvent, jobVars
  <1>12. ASSUME NEW i \in DOMAIN fetches, ServeJobs(i) PROVE TabTypeOK'
    <2>1. jobsRev \in Unread .. jobsRev
      BY <1>3 DEF Unread
    <2>2. fetches' \in Seq(Unread .. jobsRev)
      BY <1>3, <1>12, <2>1 DEF ServeJobs
    <2> QED BY <1>3, <1>4, <1>12, <2>2 DEF ServeJobs, feedVars, jobVars, OutboxOK
  <1>13. ASSUME NEW i \in DOMAIN fetches, ShowJobs(i) PROVE TabTypeOK'
    <2>1. fetches' \in Seq(Unread .. jobsRev)
      BY <1>3, <1>13, AnsweredType DEF ShowJobs
    <2>2. fetches[i] \in Unread .. jobsRev
      BY <1>3, Elements
    <2>3. jobsShown' \in 0 .. jobsRev
      BY <1>3, <1>13, <2>2 DEF ShowJobs, Unread
    <2> QED BY <1>3, <1>4, <1>13, <2>1, <2>3 DEF ShowJobs, feedVars, jobVars, OutboxOK
  <1>14. ASSUME NEW i \in DOMAIN fetches, FetchFails(i) PROVE TabTypeOK'
    <2>1. fetches' \in Seq(Unread .. jobsRev)
      BY <1>3, <1>14, AnsweredType DEF FetchFails
    <2> QED BY <1>3, <1>4, <1>14, <2>1 DEF FetchFails, jobVars, OutboxOK
  <1>15. CASE OwnAnswered \/ OwnFails
    <2>1. fetches' \in Seq(Unread .. jobsRev) /\ raced' \in BOOLEAN /\ burst' \in 0 .. jobsRev
      BY <1>3, <1>15, RequestType DEF OwnAnswered, OwnFails
    <2>2. own' \in 0 .. jobsRev /\ missed' \subseteq {"status", "jobs"}
      <3>1. own' = own - 1 /\ own > 0 /\ missed' \in {missed \ {"jobs"}, missed \union {"jobs"}}
        BY <1>15 DEF OwnAnswered, OwnFails
      <3>2. own' \in 0 .. jobsRev
        BY <1>3, <3>1
      <3>3. missed' \subseteq {"status", "jobs"}
        BY <1>3, <3>1, Zenon
      <3> QED BY <3>2, <3>3
    <2> QED BY <1>3, <1>4, <1>15, <2>1, <2>2 DEF OwnAnswered, OwnFails, jobVars, OutboxOK
  <1> QED BY <1>6, <1>7, <1>8, <1>9, <1>10, <1>11, <1>12, <1>13, <1>14, <1>15 DEF Next, vars

------------------------------------------------------------------------------
(* The status *)

\* A call that ends without a word has changed nothing.
LEMMA SilentReturn ==
  ASSUME TypeOK, LockInv, NEW c \in Callers, Progress(c), call[c].stage = "queued",
         call'[c].stage = "returned"
  PROVE  UNCHANGED modelVars /\ ~SwapUnderWay
  <1>1. UNCHANGED modelVars
    BY DEF Progress, EnsureEnter, ParkDone, ParkFails, EnsureCheck, LoadDone, LoadFails,
       EnsureDone, FreeEnter, UnloadDone, UnloadFails, UnloadWarmDone, UnloadWarmFails,
       FreeDone, Suspended
  <1>2. holder = c
    BY ProgressFacts
  <1> QED BY <1>1, <1>2 DEF LockInv, SwapUnderWay, Inside

\* A published status is what the tab will show.
LEMMA FeedPublished ==
  ASSUME OutboxOK, missed \subseteq {"status", "jobs"}, Status' \in Event, Publish(Status')
  PROVE  FeedInv'
  <1>1. Status'.kind = "status"
    BY DEF Status
  <1>2. \A i \in DOMAIN outbox' : Newest(outbox', i, "status") => outbox'[i] = Status'
    BY <1>1, PublishKeeps
  <1>3. Awaits("status")' \/ "status" \in missed'
    BY <1>1, PublishKeeps
  <1> QED BY <1>2, <1>3 DEF FeedInv

\* Another event takes no status from the queue but the oldest, and says so.
LEMMA FeedOther ==
  ASSUME FeedInv, OutboxOK, missed \subseteq {"status", "jobs"}, NEW event \in Event,
         event.kind # "status", Publish(event), UNCHANGED <<arbiterVars, shown, unsaid>>
  PROVE  FeedInv'
  <1>1. Status' = Status /\ (SwapUnderWay' <=> SwapUnderWay)
    BY DEF arbiterVars, modelVars, Status, SwapUnderWay
  <1>2. SUFFICES ASSUME ~SwapUnderWay, ~unsaid
                 PROVE  /\ \A i \in DOMAIN outbox' : Newest(outbox', i, "status") => outbox'[i] = Status
                        /\ ~Awaits("status")' /\ "status" \notin missed' => shown = Status
    BY <1>1 DEF FeedInv
  <1>3. \A i \in DOMAIN outbox' : Newest(outbox', i, "status") =>
          \E k \in DOMAIN outbox : Newest(outbox, k, "status") /\ outbox[k] = outbox'[i]
    BY PublishKeeps
  <1>4. ~Awaits("status")' /\ "status" \notin missed' => ~Awaits("status") /\ "status" \notin missed
    BY PublishKeeps
  <1> QED BY <1>2, <1>3, <1>4 DEF FeedInv

\* Every step keeps what is known of the statuses on their way.
LEMMA FeedStep ==
  ASSUME TabTypeOK, ArbiterInv, FeedInv, Status' \in Event, [Next]_vars
  PROVE  FeedInv'
  <1>1. /\ TypeOK /\ LockInv /\ OutboxOK /\ missed \subseteq {"status", "jobs"}
        /\ News("jobs") \in Event /\ News("other") \in Event
    BY EventTypes DEF TabTypeOK, OutboxOK, ArbiterInv
  <1>2. CASE UNCHANGED <<arbiterVars, feedVars, shown, unsaid>>
    BY <1>2 DEF FeedInv, arbiterVars, modelVars, feedVars, Status, SwapUnderWay, Newest, Awaits
  <1>3. ASSUME NEW c \in Callers, ArbiterStep(c) PROVE FeedInv'
    <2>1. Progress(c)
      BY <1>3 DEF ArbiterStep
    <2>2. CASE Publish(Status')
      BY <1>1, <2>2, FeedPublished
    <2>3. CASE /\ ~(call'[c].stage = "returned" /\ call[c].stage # "queued")
               /\ unsaid' = (unsaid \/ call'[c].stage = "failed")
               /\ UNCHANGED feedVars
      <3>1. CASE call'[c].stage \in Inside
        BY <3>1 DEF FeedInv, SwapUnderWay
      <3>2. CASE call'[c].stage = "failed"
        BY <2>3, <3>2 DEF FeedInv
      <3>3. CASE call'[c].stage = "returned"
        <4>1. UNCHANGED modelVars /\ ~SwapUnderWay
          BY <1>1, <2>1, <2>3, <3>3, SilentReturn
        <4>2. Status' = Status /\ UNCHANGED shown
          BY <1>3, <4>1 DEF modelVars, Status, ArbiterStep
        <4> QED BY <2>3, <3>3, <4>1, <4>2 DEF FeedInv, feedVars, Newest, Awaits
      <3> QED BY <1>1, <2>1, <3>1, <3>2, <3>3, ProgressFacts
    <2> QED BY <1>3, <2>2, <2>3 DEF ArbiterStep
  <1>4. ASSUME NEW c \in Callers, NewCall(c), UNCHANGED tabVars PROVE FeedInv'
    <2>1. UNCHANGED modelVars /\ call[c].stage \in Outside /\ call'[c].stage = "queued"
          /\ \A d \in Callers \ {c} : call'[d] = call[d]
      BY <1>1, <1>4 DEF NewCall, FreeCall, EnsureCall, TypeOK
    <2>2. Status' = Status /\ (SwapUnderWay' <=> SwapUnderWay)
      BY <2>1 DEF modelVars, Status, SwapUnderWay, Inside, Outside
    <2> QED BY <1>4, <2>2 DEF FeedInv, tabVars, feedVars, Newest, Awaits
  <1>5. CASE AnnounceJobs \/ OtherEvent
    <2>1. PICK event \in {News("jobs"), News("other")} : Publish(event)
      BY <1>5 DEF AnnounceJobs, OtherEvent
    <2>2. event.kind # "status" /\ event \in Event
      BY <1>1 DEF News
    <2>3. UNCHANGED <<arbiterVars, shown, unsaid>>
      BY <1>5 DEF AnnounceJobs, OtherEvent
    <2> QED BY <1>1, <2>1, <2>2, <2>3, FeedOther
  <1>6. CASE Greet
    <2>1. outbox = <<>> /\ DOMAIN outbox = {} /\ UNCHANGED <<arbiterVars, outbox>> /\ shown' = Status
      BY <1>1, <1>6 DEF Greet, OutboxOK
    <2>2. Status' = Status
      BY <2>1 DEF arbiterVars, modelVars, Status
    <2> QED BY <2>1, <2>2 DEF FeedInv, Newest
  <1>7. CASE Disconnect
    <2>1. /\ outbox' = <<>> /\ DOMAIN outbox' = {}
          /\ missed' = missed \union ({outbox[i].kind : i \in DOMAIN outbox} \ {"other"})
          /\ UNCHANGED <<arbiterVars, shown, unsaid>>
      BY <1>7 DEF Disconnect
    <2>2. "status" \notin missed' => ~Awaits("status") /\ "status" \notin missed
      BY <2>1 DEF Awaits
    <2>3. Status' = Status /\ (SwapUnderWay' <=> SwapUnderWay)
      BY <2>1 DEF arbiterVars, modelVars, Status, SwapUnderWay
    <2> QED BY <2>1, <2>2, <2>3 DEF FeedInv, Newest
  <1>8. CASE HandleEvent
    <2>1. /\ outbox # <<>> /\ outbox' = Tail(outbox) /\ UNCHANGED socket /\ socket = "open"
          /\ UNCHANGED <<arbiterVars, unsaid>> /\ missed' = missed \ {Head(outbox).kind}
          /\ shown' = IF Head(outbox).kind = "status" THEN Head(outbox) ELSE shown
      BY <1>8 DEF HandleEvent, ShowStatus
    <2>2. Status' = Status /\ (SwapUnderWay' <=> SwapUnderWay)
      BY <2>1 DEF arbiterVars, modelVars, Status, SwapUnderWay
    <2>3. SUFFICES ASSUME ~SwapUnderWay, ~unsaid
                   PROVE  /\ \A i \in DOMAIN outbox' : Newest(outbox', i, "status") => outbox'[i] = Status
                          /\ ~Awaits("status")' /\ "status" \notin missed' => shown' = Status
      BY <2>1, <2>2 DEF FeedInv
    <2>4. \A i \in DOMAIN outbox' : Newest(outbox', i, "status") => outbox'[i] = Status
      BY <1>1, <2>1, <2>3, HandleKeeps DEF FeedInv
    <2>5. ASSUME ~Awaits("status")', "status" \notin missed' PROVE shown' = Status
      <3>1. CASE Head(outbox).kind = "status"
        <4>1. Newest(outbox, 1, "status") /\ Head(outbox) = outbox[1]
          BY <1>1, <2>1, <2>5, <3>1, HandleKeeps
        <4> QED BY <2>1, <2>3, <3>1, <4>1 DEF FeedInv, Newest
      <3>2. CASE Head(outbox).kind # "status"
        <4>1. ~Awaits("status")
          BY <1>1, <2>1, <2>5, <3>2, HandleKeeps DEF Kinds
        <4>2. "status" \notin missed
          BY <2>1, <2>5, <3>2
        <4> QED BY <2>1, <2>3, <3>2, <4>1, <4>2 DEF FeedInv
      <3> QED BY <3>1, <3>2
    <2> QED BY <2>4, <2>5
  <1>9. ASSUME NEW i \in DOMAIN fetches, FetchFails(i) PROVE FeedInv'
    BY <1>9 DEF FetchFails, FeedInv, arbiterVars, modelVars, Status, SwapUnderWay, Newest, Awaits
  <1>10. CASE Subscribe
    BY <1>10 DEF Subscribe, FeedInv, arbiterVars, modelVars, Status, SwapUnderWay, Newest, Awaits
  <1>11. CASE OwnAnswered \/ OwnFails
    <2>1. /\ "status" \notin missed' => "status" \notin missed
          /\ UNCHANGED <<arbiterVars, outbox, shown, unsaid>>
      BY <1>11 DEF OwnAnswered, OwnFails
    <2> QED BY <2>1 DEF FeedInv, arbiterVars, modelVars, Status, SwapUnderWay, Newest, Awaits
  <1> QED BY <1>2, <1>3, <1>4, <1>5, <1>6, <1>7, <1>8, <1>9, <1>10, <1>11 DEF Next, vars, tabVars,
       ChangeJobs, ChangeSilently, OwnChange, ServeJobs, ShowJobs

------------------------------------------------------------------------------
(* The job list *)

\* Whatever is published, the news of the jobs is not lost in silence.
LEMMA ListPublished ==
  ASSUME ListInv, OutboxOK, missed \subseteq {"status", "jobs"}, NEW event \in Event,
         Publish(event), UNCHANGED <<told, listVars>>,
         unannounced' = unannounced \/ event.kind = "jobs"
  PROVE  ListInv'
  <1>1. ~Awaits("jobs")' /\ "jobs" \notin missed' =>
          ~Awaits("jobs") /\ "jobs" \notin missed /\ event.kind # "jobs"
    BY PublishKeeps
  <1>2. "jobs" \notin missed' => "jobs" \notin missed
    BY DEF Publish
  <1> QED BY <1>1, <1>2 DEF ListInv, listVars

\* A request sent now reads all that the tab is told of.
LEMMA ListRequested ==
  ASSUME ListInv, fetches \in Seq(Unread .. jobsRev), jobsRev \in Nat, burst \in 0 .. jobsRev,
         told \in 0 .. jobsRev, RequestJobs, told' = told
  PROVE  ListInv'
  <1>1. fetches' # <<>> /\ (~raced' => burst' >= told)
    BY RequestType
  <1>2. ASSUME NEW i \in DOMAIN fetches', fetches'[i] # Unread PROVE fetches'[i] >= burst'
    <2>1. i \in DOMAIN fetches /\ fetches'[i] = fetches[i]
      BY <1>2, RequestType
    <2>2. fetches # <<>>
      BY <2>1
    <2>3. burst' = burst
      BY <2>2, RequestType
    <2> QED BY <1>2, <2>1, <2>3 DEF ListInv
  <1> QED BY <1>1, <1>2 DEF ListInv

\* Every step keeps what is known of the requests for the list.
LEMMA ListStep ==
  ASSUME TabTypeOK, ListInv, Status' \in Event, [Next]_vars
  PROVE  ListInv'
  <1>1. /\ TypeOK /\ OutboxOK /\ missed \subseteq {"status", "jobs"}
        /\ News("jobs") \in Event /\ News("other") \in Event
        /\ fetches \in Seq(Unread .. jobsRev) /\ Len(fetches) \in Nat
        /\ DOMAIN fetches = 1 .. Len(fetches)
        /\ jobsRev \in Nat /\ unannounced \in Nat /\ own \in Nat
        /\ told \in 0 .. jobsRev /\ burst \in 0 .. jobsRev
    BY EventTypes DEF TabTypeOK, OutboxOK
  <1>2. CASE UNCHANGED <<feedVars, jobVars, listVars>>
    BY <1>2 DEF ListInv, feedVars, jobVars, listVars, Awaits
  <1>3. ASSUME NEW c \in Callers, ArbiterStep(c) PROVE ListInv'
    <2>1. Publish(Status') \/ UNCHANGED feedVars
      BY <1>3 DEF ArbiterStep
    <2>2. UNCHANGED <<jobVars, listVars>>
      BY <1>3 DEF ArbiterStep
    <2>3. CASE Publish(Status')
      BY <1>1, <2>2, <2>3, ListPublished DEF jobVars
    <2> QED BY <1>2, <2>1, <2>2, <2>3
  <1>4. CASE ChangeJobs \/ ChangeSilently \/ OwnChange
    <2>1. CASE ChangeJobs
      BY <1>1, <2>1 DEF ChangeJobs, ListInv, feedVars, listVars
    <2>2. CASE ChangeSilently
      BY <2>2 DEF ChangeSilently, ListInv, feedVars, listVars, Awaits
    <2>3. CASE OwnChange
      BY <1>1, <2>3 DEF OwnChange, ListInv, feedVars
    <2> QED BY <1>4, <2>1, <2>2, <2>3
  <1>5. CASE AnnounceJobs \/ OtherEvent
    <2>1. CASE AnnounceJobs
      BY <1>1, <2>1, ListPublished DEF AnnounceJobs, News, listVars
    <2>2. CASE OtherEvent
      BY <1>1, <2>2, ListPublished DEF OtherEvent, jobVars
    <2> QED BY <1>5, <2>1, <2>2
  <1>6. CASE Greet \/ Subscribe
    BY <1>6 DEF Greet, Subscribe, ListInv, jobVars, listVars, Awaits
  <1>7. CASE Disconnect
    <2>1. /\ missed' = missed \union ({outbox[i].kind : i \in DOMAIN outbox} \ {"other"})
          /\ UNCHANGED <<jobVars, listVars>>
      BY <1>7 DEF Disconnect
    <2>2. "jobs" \notin missed' => ~Awaits("jobs") /\ "jobs" \notin missed
      BY <2>1 DEF Awaits
    <2> QED BY <2>1, <2>2 DEF ListInv, jobVars, listVars
  <1>8. CASE HandleEvent
    <2>1. /\ outbox # <<>> /\ outbox' = Tail(outbox) /\ UNCHANGED socket /\ socket = "open"
          /\ UNCHANGED <<jobVars, own, jobsShown>> /\ missed' = missed \ {Head(outbox).kind}
          /\ FetchJobs(Head(outbox))
      BY <1>8 DEF HandleEvent
    <2>2. CASE Head(outbox).kind = "jobs"
      BY <1>1, <2>1, <2>2, ListRequested DEF FetchJobs, jobVars
    <2>3. CASE Head(outbox).kind # "jobs"
      <3>1. ~Awaits("jobs")' => ~Awaits("jobs")
        BY <1>1, <2>1, <2>3, HandleKeeps DEF Kinds
      <3>2. "jobs" \notin missed' => "jobs" \notin missed
        BY <2>1, <2>3
      <3>3. UNCHANGED <<jobVars, listVars>>
        BY <2>1, <2>3 DEF FetchJobs, listVars
      <3> QED BY <3>1, <3>2, <3>3 DEF ListInv, jobVars, listVars
    <2> QED BY <2>2, <2>3
  <1>9. ASSUME NEW i \in DOMAIN fetches, ServeJobs(i) PROVE ListInv'
    <2>1. /\ fetches' = [fetches EXCEPT ![i] = jobsRev]
          /\ UNCHANGED <<feedVars, jobVars, own, jobsShown, raced, burst>>
      BY <1>9 DEF ServeJobs
    <2>2. DOMAIN fetches' = DOMAIN fetches /\ fetches' # <<>> /\ fetches # <<>>
      BY <1>1, <1>9, <2>1
    <2>3. \A j \in DOMAIN fetches' : fetches'[j] # Unread => fetches'[j] >= burst
      BY <1>1, <2>1, <2>2 DEF ListInv
    <2> QED BY <2>1, <2>2, <2>3 DEF ListInv, feedVars, jobVars, Awaits
  <1>10. ASSUME NEW i \in DOMAIN fetches, ShowJobs(i) PROVE ListInv'
    <2>1. /\ jobsShown' = fetches[i] /\ fetches[i] # Unread /\ Answered(i)
          /\ UNCHANGED <<feedVars, jobVars, own, raced, burst>>
      BY <1>10 DEF ShowJobs
    <2>2. jobsShown' >= burst
      BY <1>10, <2>1 DEF ListInv
    <2>3. \A j \in DOMAIN fetches' : fetches'[j] # Unread => fetches'[j] >= burst
      BY <1>1, <1>10, <2>1, AnsweredKeeps DEF ListInv
    <2> QED BY <2>1, <2>2, <2>3 DEF ListInv, feedVars, jobVars, Awaits
  <1>11. ASSUME NEW i \in DOMAIN fetches, FetchFails(i) PROVE ListInv'
    <2>1. Answered(i) /\ "jobs" \in missed' /\ UNCHANGED burst
      BY <1>11 DEF FetchFails
    <2>2. \A j \in DOMAIN fetches' : fetches'[j] # Unread => fetches'[j] >= burst
      BY <1>1, <1>11, <2>1, AnsweredKeeps DEF ListInv
    <2> QED BY <2>1, <2>2 DEF ListInv
  <1>12. CASE OwnAnswered
    BY <1>1, <1>12, ListRequested DEF OwnAnswered, jobVars
  <1>13. CASE OwnFails
    BY <1>13 DEF OwnFails, ListInv
  <1> QED BY <1>2, <1>3, <1>4, <1>5, <1>6, <1>7, <1>8, <1>9, <1>10, <1>11, <1>12, <1>13
       DEF Next, vars, tabVars

------------------------------------------------------------------------------
(* The theorems *)

\* The inductive invariant of the tab, on top of the arbiter's.
LEMMA TabInvariance == Spec => [](ArbiterInv /\ TabTypeOK /\ FeedInv /\ ListInv)
  <1>1. Init => ArbiterInv /\ TabTypeOK /\ FeedInv /\ ListInv
    <2> SUFFICES ASSUME Init PROVE ArbiterInv /\ TabTypeOK /\ FeedInv /\ ListInv
      OBVIOUS
    <2>1. ArbiterInv
      BY InitInv DEF Init
    <2>2. TabTypeOK
      <3>1. TypeOK /\ Status \in Event
        BY <2>1, EventTypes DEF ArbiterInv
      <3>2. outbox \in Seq(Event) /\ Len(outbox) <= MaxQueue
        BY TabAssumption DEF Init
      <3>3. fetches \in Seq(Unread .. jobsRev)
        <4>1. jobsRev = 0 /\ fetches = <<Unread>>
          BY DEF Init
        <4>2. Unread \in Unread .. jobsRev
          BY <4>1 DEF Unread
        <4> DEFINE S == Unread .. jobsRev
        <4>3. Unread \in S => <<Unread>> \in Seq(S)
          <5> HIDE DEF S
          <5> QED OBVIOUS
        <4> QED BY <4>1, <4>2, <4>3
      <3>4. /\ jobsRev \in 0 .. MaxChanges /\ told \in 0 .. jobsRev
            /\ unannounced \in 0 .. jobsRev /\ own \in 0 .. jobsRev
            /\ jobsShown \in 0 .. jobsRev /\ burst \in 0 .. jobsRev
        BY TabAssumption DEF Init
      <3>5. /\ socket \in {"closed", "greeted", "open"} /\ outbox = <<>>
            /\ shown \in Event /\ missed \subseteq {"status", "jobs"}
            /\ unsaid \in BOOLEAN /\ raced \in BOOLEAN
        BY <3>1 DEF Init
      <3> QED BY <3>1, <3>2, <3>3, <3>4, <3>5 DEF TabTypeOK
    <2>3. FeedInv
      BY DEF Init, FeedInv, Newest
    <2>4. ListInv
      BY DEF Init, ListInv, Unread
    <2> QED BY <2>1, <2>2, <2>3, <2>4
  <1>2. ArbiterInv /\ TabTypeOK /\ FeedInv /\ ListInv /\ [Next]_vars
          => (ArbiterInv /\ TabTypeOK /\ FeedInv /\ ListInv)'
    <2> SUFFICES ASSUME ArbiterInv, TabTypeOK, FeedInv, ListInv, [Next]_vars
                 PROVE  ArbiterInv' /\ TabTypeOK' /\ FeedInv' /\ ListInv'
      OBVIOUS
    <2>1. ArbiterInv'
      BY IsArbiterStep, NextInv
    <2>2. TypeOK' /\ Status' \in Event
      <3>1. TypeOK'
        BY <2>1 DEF ArbiterInv
      <3> QED BY <3>1 DEF TypeOK, Status, Event, Kinds
    <2> QED BY <2>1, <2>2, TabTypeStep, FeedStep, ListStep
  <1> QED BY <1>1, <1>2, PTL DEF Spec

\* ws.py, line 3, and events.py: for any length of the queue, a tab that waits for
\* nothing shows the status of the arbiter, unless it lost one or a call failed; and
\* the queue never exceeds its bound, whatever is published, dropped and reconnected.
THEOREM TabIsInSync == Spec => []TabIsSound
  <1>1. TabTypeOK /\ FeedInv => TabIsSound
    BY DEF FeedInv, TabIsSound, StatusIsFresh
  <1> QED BY <1>1, TabInvariance, PTL

\* App.tsx, refreshJobs: a tab that waits for nothing and lost nothing shows every
\* change that was announced or that it made; where its requests overlapped, a list at
\* least as new as when the first of them was sent.  Changes that are not announced it
\* need not show.
THEOREM TabShowsNewestJobs == Spec => []JobsAreFresh
  <1>1. TabTypeOK /\ ListInv => JobsAreFresh
    BY DEF ListInv, JobsAreFresh, ListIsQuiet, TabTypeOK
  <1> QED BY <1>1, TabInvariance, PTL
=============================================================================
