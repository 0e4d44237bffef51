------------------------------ MODULE BrowserTab ------------------------------
(***************************************************************************)
(* What a browser tab shows: the event bus (core/events.py), the WebSocket  *)
(* endpoint (api/ws.py) and the tab (useEvents.ts, App.tsx), over the       *)
(* arbiter, which publishes its status, and over the job list, of which     *)
(* only the news that it has changed is published, and not of every change. *)
(* There is one tab: subscribers share nothing.  The connection is first    *)
(* in, first out, so a forwarded event and its handling are one step.       *)
(***************************************************************************)
EXTENDS GpuArbiter

CONSTANTS MaxQueue,   \* EventBus(max_queue)
          MaxChanges  \* bound: changes of the job list

ASSUME TabAssumption == MaxQueue \in Nat \ {0} /\ MaxChanges \in Nat

VARIABLES socket,     \* "closed", "greeted" (not yet subscribed) or "open"
          outbox,     \* the subscriber's queue in the bus
          shown,      \* the GPU status on the screen
          missed,     \* kinds of events the tab has lost, and not made up for
          unsaid,     \* a call failed since the last status was published
          jobsRev,    \* version of the job list in the database
          told,       \* the newest version that is announced, or is this tab's doing
          unannounced,\* changes whose event is yet to be published
          own,        \* changes made in this tab whose response is yet to come
          fetches,    \* GET /jobs in flight: the version read, or Unread
          jobsShown,  \* the version of the list on the screen
          raced,      \* whether the last request overlapped with one before it
          burst       \* the version when the first of the overlapping ones was sent

feedVars == <<socket, outbox, missed>>
jobVars == <<jobsRev, told, unannounced>>
listVars == <<own, fetches, jobsShown, raced, burst>>
tabVars == <<feedVars, shown, unsaid, jobVars, listVars>>
vars == <<arbiterVars, tabVars>>

Unread == -1
Kinds == {"status", "jobs", "other"}
Status == [kind |-> "status", model |-> current, warm |-> warmPool]
News(kind) == [kind |-> kind, model |-> NoBackend, warm |-> {}]

\* App mounts with no status, and with a first request for the job list.
Init ==
  /\ ArbiterInit
  /\ socket = "closed" /\ outbox = <<>> /\ missed = {}
  /\ shown = Status
  /\ unsaid = FALSE
  /\ jobsRev = 0 /\ told = 0 /\ unannounced = 0 /\ own = 0
  /\ fetches = <<Unread>> /\ jobsShown = 0 /\ raced = FALSE /\ burst = 0

------------------------------------------------------------------------------
(* The bus *)

\* publish: a full queue drops its oldest event for the new one.
Publish(event) ==
  \/ /\ socket = "open" /\ Len(outbox) < MaxQueue
     /\ outbox' = Append(outbox, event)
     /\ UNCHANGED <<socket, missed>>
  \/ /\ socket = "open" /\ Len(outbox) = MaxQueue
     /\ outbox' = Append(Tail(outbox), event)
     /\ missed' = missed \union ({Head(outbox).kind} \ {"other"})
     /\ UNCHANGED socket
  \/ /\ socket # "open"
     /\ missed' = missed \union ({event.kind} \ {"other"})
     /\ UNCHANGED <<socket, outbox>>

NewCall(c) == FreeCall(c) \/ \E b \in Backends : EnsureCall(c, b)

\* Mutant: the status is published before _current is set.
StatusTooEarly(c) ==
  /\ Progress(c)
  /\ \/ /\ call'[c].stage = "returned" /\ call[c].stage # "queued"
        /\ Publish(Status) /\ unsaid' = FALSE
     \/ /\ ~(call'[c].stage = "returned" /\ call[c].stage # "queued")
        /\ unsaid' = (unsaid \/ call'[c].stage = "failed")
        /\ UNCHANGED feedVars
  /\ UNCHANGED <<shown, jobVars, listVars>>

\* A step of the arbiter: ensure and free_all publish the status as their last
\* act, but not when there was nothing to do, and not when they raise.
ArbiterStep(c) ==
  /\ Progress(c)
  /\ \/ /\ call'[c].stage = "returned" /\ call[c].stage # "queued"
        /\ Publish(Status') /\ unsaid' = FALSE
     \/ /\ ~(call'[c].stage = "returned" /\ call[c].stage # "queued")
        /\ unsaid' = (unsaid \/ call'[c].stage = "failed")
        /\ UNCHANGED feedVars
  /\ UNCHANGED <<shown, jobVars, listVars>>

\* A commit to the job list.
Commit == jobsRev < MaxChanges /\ jobsRev' = jobsRev + 1

\* A job is created, picked, finished or cancelled: the commit ...
ChangeJobs ==
  /\ Commit /\ told' = jobsRev'
  /\ unannounced' = unannounced + 1
  /\ UNCHANGED <<arbiterVars, feedVars, shown, unsaid, listVars>>

\* ... and its event, which emit() publishes from a task of its own.
AnnounceJobs ==
  /\ unannounced > 0
  /\ unannounced' = unannounced - 1
  /\ Publish(News("jobs"))
  /\ UNCHANGED <<arbiterVars, shown, unsaid, jobsRev, told, listVars>>

\* A commit that nothing is published of: set_priority and clear_finished, called
\* from elsewhere, and the worker's _requeue and _requeue_orphans.
ChangeSilently ==
  /\ Commit
  /\ UNCHANGED <<arbiterVars, feedVars, shown, unsaid, told, unannounced, listVars>>

\* Progress, memory and log events, which crowd the queue.
OtherEvent ==
  /\ socket = "open"
  /\ Publish(News("other"))
  /\ UNCHANGED <<arbiterVars, shown, unsaid, jobVars, listVars>>

------------------------------------------------------------------------------
(* The connection *)

\* ws_events greets the tab with the status of the moment ...
Greet ==
  /\ socket = "closed"
  /\ socket' = "greeted"
  /\ shown' = Status
  /\ missed' = missed \ {"status"}
  /\ UNCHANGED <<arbiterVars, outbox, unsaid, jobVars, listVars>>

\* ... and subscribes when the greeting has been sent.
Subscribe ==
  /\ socket = "greeted"
  /\ socket' = "open"
  /\ UNCHANGED <<arbiterVars, outbox, missed, shown, unsaid, jobVars, listVars>>

\* The connection breaks; the tab keeps what it shows and connects again.
Disconnect ==
  /\ socket # "closed"
  /\ socket' = "closed"
  /\ outbox' = <<>>
  /\ missed' = missed \union ({outbox[i].kind : i \in DOMAIN outbox} \ {"other"})
  /\ UNCHANGED <<arbiterVars, shown, unsaid, jobVars, listVars>>

------------------------------------------------------------------------------
(* The tab *)

ShowStatus(event) == shown' = IF event.kind = "status" THEN event ELSE shown

\* refreshJobs: one more GET /jobs, whatever requests are in flight.
RequestJobs ==
  /\ fetches' = Append(fetches, Unread)
  /\ raced' = (fetches # <<>>)
  /\ burst' = IF fetches = <<>> THEN jobsRev ELSE burst

\* Mutant: no second request while one is in flight.
FetchOnce(event) ==
  IF event.kind = "jobs" /\ fetches = <<>>
  THEN RequestJobs
  ELSE UNCHANGED <<fetches, raced, burst>>

FetchJobs(event) ==
  IF event.kind = "jobs" THEN RequestJobs ELSE UNCHANGED <<fetches, raced, burst>>

\* onEvent: a status is shown, and news of the jobs make the tab fetch the list.
HandleEvent ==
  /\ socket = "open" /\ outbox # <<>>
  /\ ShowStatus(Head(outbox)) /\ FetchJobs(Head(outbox))
  /\ missed' = missed \ {Head(outbox).kind}
  /\ outbox' = Tail(outbox)
  /\ UNCHANGED <<arbiterVars, socket, unsaid, jobVars, own, jobsShown>>

\* A button of QueuePanel: a cancel, which is announced as well, or a new priority or
\* a clear, which are not.
OwnChange ==
  /\ Commit /\ told' = jobsRev'
  /\ own' = own + 1
  /\ unannounced' \in {unannounced, unannounced + 1}
  /\ UNCHANGED <<arbiterVars, feedVars, shown, unsaid, fetches, jobsShown, raced, burst>>

\* The response to it: onChanged fetches the list.
OwnAnswered ==
  /\ own > 0 /\ own' = own - 1
  /\ RequestJobs
  /\ missed' = missed \ {"jobs"}
  /\ UNCHANGED <<arbiterVars, socket, outbox, shown, unsaid, jobVars, jobsShown>>

\* The response is lost: nothing is fetched.
OwnFails ==
  /\ own > 0 /\ own' = own - 1
  /\ missed' = missed \union {"jobs"}
  /\ UNCHANGED <<arbiterVars, socket, outbox, shown, unsaid, jobVars, fetches, jobsShown,
                 raced, burst>>

\* GET /jobs reads the rows of the moment.
ServeJobs(i) ==
  /\ fetches[i] = Unread
  /\ fetches' = [fetches EXCEPT ![i] = jobsRev]
  /\ UNCHANGED <<arbiterVars, feedVars, shown, unsaid, jobVars, own, jobsShown, raced, burst>>

Answered(i) ==
  fetches' = SubSeq(fetches, 1, i - 1) \o SubSeq(fetches, i + 1, Len(fetches))

\* refreshJobs: responses are shown in the order in which they arrive.
ShowJobs(i) ==
  /\ fetches[i] # Unread
  /\ Answered(i)
  /\ jobsShown' = fetches[i]
  /\ UNCHANGED <<arbiterVars, feedVars, shown, unsaid, jobVars, own, raced, burst>>

\* A request that fails is dropped: catch(() => {}).
FetchFails(i) ==
  /\ Answered(i)
  /\ missed' = missed \union {"jobs"}
  /\ UNCHANGED <<arbiterVars, socket, outbox, shown, unsaid, jobVars, own, jobsShown, raced,
                 burst>>

Next ==
  \/ \E c \in Callers : ArbiterStep(c) \/ (NewCall(c) /\ UNCHANGED tabVars)
  \/ ChangeJobs \/ AnnounceJobs \/ ChangeSilently \/ OtherEvent
  \/ OwnChange \/ OwnAnswered \/ OwnFails
  \/ Greet \/ Subscribe \/ Disconnect \/ HandleEvent
  \/ \E i \in DOMAIN fetches : ServeJobs(i) \/ ShowJobs(i) \/ FetchFails(i)

Spec == Init /\ [][Next]_vars

------------------------------------------------------------------------------
(* Properties *)

Event == [kind : Kinds, model : Backends \union {NoBackend}, warm : SUBSET Backends]

TabTypeOK ==
  /\ TypeOK
  /\ socket \in {"closed", "greeted", "open"}
  /\ outbox \in Seq(Event) /\ Len(outbox) <= MaxQueue
  /\ socket # "open" => outbox = <<>>
  /\ shown \in Event /\ missed \subseteq {"status", "jobs"}
  /\ unsaid \in BOOLEAN
  /\ jobsRev \in 0 .. MaxChanges /\ told \in 0 .. jobsRev
  /\ unannounced \in 0 .. jobsRev /\ own \in 0 .. jobsRev
  /\ fetches \in Seq(Unread .. jobsRev)
  /\ jobsShown \in 0 .. jobsRev /\ raced \in BOOLEAN /\ burst \in 0 .. jobsRev

Awaits(kind) == \E i \in DOMAIN outbox : outbox[i].kind = kind
SwapUnderWay == \E c \in Callers : call[c].stage \in Inside

\* ws.py, line 3: an open tab is in sync.  It shows another status than the
\* arbiter's only while one is on its way, or because of one of two things: it lost
\* one (in the gap after the greeting, or to a full queue), or the arbiter said
\* nothing because its last call failed.
StatusIsFresh ==
  socket = "open" /\ ~Awaits("status") /\ ~SwapUnderWay /\ "status" \notin missed /\ ~unsaid
    => shown = Status

\* The connection of a tab: a bounded queue that loses the oldest events, and still a
\* status that is never silently stale.
TabIsSound == TabTypeOK /\ StatusIsFresh

\* No request, response or news of the list is on its way to the tab.
ListIsQuiet == unannounced = 0 /\ own = 0 /\ ~Awaits("jobs") /\ fetches = <<>>

\* A tab that waits for nothing, and lost no news since its last request (its socket
\* was closed, its queue full, a request failed), shows every change that was
\* announced or that it made itself, however changes, events, reads and responses
\* interleave.  Where requests overlapped, the response that came last may be the
\* older one: then the list is at least as new as when the first of them was sent.
JobsAreFresh ==
  ListIsQuiet /\ "jobs" \notin missed => jobsShown >= IF raced THEN burst ELSE told

\* queue_service.py, line 1: "routers handle event emission".  An open tab that waits
\* for nothing, lost nothing and sent no overlapping requests shows the list as it is.
JobsAreCurrent ==
  socket = "open" /\ ListIsQuiet /\ "jobs" \notin missed /\ ~raced => jobsShown = jobsRev
=============================================================================
