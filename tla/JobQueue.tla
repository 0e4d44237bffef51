------------------------------ MODULE JobQueue ------------------------------
(***************************************************************************)
(* The life of a job row: the worker of core/scheduler.py, the requests of  *)
(* api/jobs.py and api/chat.py that touch the same rows, and crashes.       *)
(*                                                                         *)
(* SQLite is shared by sessions of their own.  A session reads rows, and    *)
(* writes what it changed when it commits; between the two it holds no      *)
(* lock, so another session may commit.  An UPDATE of a row that is gone    *)
(* raises StaleDataError.  Each action below is a read or a commit.  Which  *)
(* of the queued rows is picked is the business of PhaseBatching, and what  *)
(* the GPU does of GpuLanes.                                               *)
(***************************************************************************)
EXTENDS Integers, FiniteSets

CONSTANTS Jobs,         \* rows, including those the worker creates
          ImageJobs,    \* the image jobs; the others are LLM jobs
          Messages,     \* assistant messages of conversations
          MessageOf,    \* MessageOf[j]: params.assistant_message_id, or NoMessage
          ChildOf,      \* ChildOf[j]: the job of j's tool call, or NoJob
          Clients,      \* tasks that serve requests
          MaxCrashes,   \* bound: crashes of the process
          MaxRequeues,  \* bound: jobs put back because a voice session went live
          NoMessage, NoJob

ASSUME QueueAssumption ==
  /\ ImageJobs \subseteq Jobs
  /\ MessageOf \in [Jobs -> Messages \union {NoMessage}]
  /\ ChildOf \in [Jobs -> Jobs \union {NoJob}]
  /\ \A j \in Jobs : ChildOf[j] # NoJob => MessageOf[ChildOf[j]] = MessageOf[j]
  /\ \A i, j \in Jobs : ChildOf[i] = ChildOf[j] /\ ChildOf[i] # NoJob => i = j  \* a new row
  /\ NoMessage \notin Messages /\ NoJob \notin Jobs
  /\ MaxCrashes \in Nat /\ MaxRequeues \in Nat

VARIABLES status,     \* status[j]: the status column; "new" and "deleted" rows do not exist
          reply,      \* reply[m]: what the assistant message says
          images,     \* images[j]: batches of image rows committed for j
          stage,      \* where the worker is
          job,        \* the job the worker holds
          cancelling, \* _cancel_current
          write,      \* the status the worker is about to commit, whether _run
                      \* catches a failure to, and whether it read a row to update
          handler,    \* handler[c]: a request between its read and its commit
          asked,      \* jobs that a client has asked to cancel
          accepted,   \* where the worker was when cancel_running returned True for the
                      \* job it holds or held last
          crashes, requeues

workerVars == <<stage, job, cancelling, write>>
dbVars == <<status, reply, images>>
boundVars == <<crashes, requeues>>
askVars == <<asked, accepted>>
vars == <<dbVars, workerVars, handler, askVars, boundVars>>

Terminal == {"done", "error", "cancelled"}
Statuses == Terminal \union {"new", "queued", "running", "deleted"}
Stages == {"boot", "idle", "picking", "picked", "requeue", "running", "writing", "ending", "dead"}
Replies == {"none", "pending", "interim", "final", "deleted"}
Children == {ChildOf[j] : j \in Jobs}

NoRequest == [op |-> "none", rows |-> {}, pics |-> {}]
NoWrite == [status |-> "none", guarded |-> FALSE, row |-> FALSE]

Init ==
  /\ status = [j \in Jobs |-> "new"]
  /\ reply = [m \in Messages |-> "none"]
  /\ images = [j \in Jobs |-> 0]
  /\ stage = "boot" /\ job = NoJob
  /\ cancelling = FALSE
  /\ write = NoWrite
  /\ handler = [c \in Clients |-> NoRequest]
  /\ asked = {} /\ accepted = {}
  /\ crashes = 0 /\ requeues = 0

------------------------------------------------------------------------------
(* The worker: _loop, _pick_next *)

\* Mutant: running rows are left as they are.
KeepOrphans ==
  /\ stage = "boot"
  /\ stage' = "idle"
  /\ UNCHANGED <<dbVars, job, cancelling, write, handler, askVars, boundVars>>

\* Mutant: failed jobs are put back as well.
RequeueFailed ==
  /\ stage = "boot"
  /\ status' = [j \in Jobs |->
                  IF status[j] \in {"running", "error"} THEN "queued" ELSE status[j]]
  /\ stage' = "idle"
  /\ UNCHANGED <<reply, images, job, cancelling, write, handler, askVars, boundVars>>

\* _requeue_orphans.
RequeueOrphans ==
  /\ stage = "boot"
  /\ status' = [j \in Jobs |-> IF status[j] = "running" THEN "queued" ELSE status[j]]
  /\ stage' = "idle"
  /\ UNCHANGED <<reply, images, job, cancelling, write, handler, askVars, boundVars>>

\* _pick_next reads the queued rows and chooses one...
PickRead(j) ==
  /\ stage = "idle" /\ status[j] = "queued"
  /\ job' = j
  /\ stage' = "picking"
  /\ accepted' = {}
  /\ UNCHANGED <<dbVars, cancelling, write, handler, asked, boundVars>>

\* The pending write: of a row that has been deleted since it was read, or not.
StaleRow == write.row /\ status[job] = "deleted"
Updated == IF write.row THEN [status EXCEPT ![job] = write.status] ELSE status

\* An exception that nobody catches ends the worker's task.
Die ==
  /\ stage' = "dead"
  /\ job' = NoJob

\* ... and commits it as running, whatever its status is by now.
PickCommit ==
  /\ stage = "picking"
  /\ \/ /\ status[job] # "deleted"
        /\ status' = [status EXCEPT ![job] = "running"]
        /\ stage' = "picked"
        /\ UNCHANGED job
     \/ /\ status[job] = "deleted"
        /\ Die
        /\ UNCHANGED status
  /\ UNCHANGED <<reply, images, cancelling, write, handler, askVars, boundVars>>

------------------------------------------------------------------------------
(* The worker: _run *)

\* Mutant: _cancel_current keeps what a requeued job left in it.
BeginKeepsFlag ==
  /\ stage = "picked"
  /\ stage' = "running"
  /\ UNCHANGED <<dbVars, job, cancelling, write, handler, askVars, boundVars>>

\* _current_job_id is set and _cancel_current reset before the job runs...
Begin ==
  /\ stage = "picked"
  /\ stage' = "running"
  /\ cancelling' = FALSE
  /\ UNCHANGED <<dbVars, job, write, handler, askVars, boundVars>>

\* ... or, with a voice session live, is put back: _requeue reads the row,
RequeueRead ==
  /\ stage = "picked" /\ requeues < MaxRequeues
  /\ stage' = "requeue"
  /\ cancelling' = FALSE
  /\ write' = [status |-> "queued", guarded |-> FALSE, row |-> status[job] = "running"]
  /\ requeues' = requeues + 1
  /\ UNCHANGED <<dbVars, job, handler, askVars, crashes>>

\* and commits it.
RequeueCommit ==
  /\ stage = "requeue"
  /\ \/ /\ StaleRow
        /\ Die
        /\ UNCHANGED status
     \/ /\ ~StaleRow
        /\ status' = Updated
        /\ stage' = "idle" /\ job' = NoJob
  /\ write' = NoWrite
  /\ UNCHANGED <<reply, images, cancelling, handler, askVars, boundVars>>

\* finalize_assistant_message on the job's message, if that still exists.
Answer(j, text) ==
  reply' = [m \in Messages |->
              IF m = MessageOf[j] /\ reply[m] # "deleted" THEN text ELSE reply[m]]

\* Mutant: the images and the job's status are committed one after the other.
FinishInTwo ==
  /\ stage = "running" /\ job \in ImageJobs /\ ~cancelling
  /\ images' = [images EXCEPT ![job] = @ + 1]
  /\ write' = [status |-> "done", guarded |-> TRUE, row |-> status[job] # "deleted"]
  /\ stage' = "writing"
  /\ UNCHANGED <<status, reply, job, cancelling, handler, askVars, boundVars>>

\* Mutant: _run does not look at _cancel_current when the images have been made.
FinishUnasked ==
  /\ stage = "running" /\ job \in ImageJobs
  /\ images' = [images EXCEPT ![job] = @ + 1]
  /\ status' = IF status[job] = "deleted" THEN status ELSE [status EXCEPT ![job] = "done"]
  /\ Answer(job, "final")
  /\ stage' = "ending"
  /\ UNCHANGED <<job, cancelling, write, handler, askVars, boundVars>>

\* _finish_image: inserting the images locks the database until the commit.
FinishImage ==
  /\ stage = "running" /\ job \in ImageJobs /\ ~cancelling
  /\ images' = [images EXCEPT ![job] = @ + 1]
  /\ status' = IF status[job] = "deleted" THEN status ELSE [status EXCEPT ![job] = "done"]
  /\ Answer(job, "final")
  /\ stage' = "ending"
  /\ UNCHANGED <<job, cancelling, write, handler, askVars, boundVars>>

\* The other ends of a job read the row first: _finish_llm, _mark_cancelled inside
\* the try block or in its handler of GenerationCancelled, and _fail.
ReadRow(end, caught) ==
  /\ stage = "running"
  /\ write' = [status |-> end, guarded |-> caught, row |-> status[job] # "deleted"]
  /\ stage' = "writing"
  /\ UNCHANGED <<dbVars, job, cancelling, handler, askVars, boundVars>>

FinishText == job \notin ImageJobs /\ ~cancelling /\ ReadRow("done", TRUE)
StopAfter == cancelling /\ ReadRow("cancelled", TRUE)
StopDuring == job \in ImageJobs /\ cancelling /\ ReadRow("cancelled", FALSE)
Fail == ReadRow("error", FALSE)

\* Mutant: a failed job says nothing in its conversation.
WriteNoError ==
  /\ stage = "writing" /\ ~StaleRow
  /\ status' = Updated
  /\ IF write.status = "error" THEN UNCHANGED reply ELSE Answer(job, "final")
  /\ write' = NoWrite
  /\ stage' = "ending"
  /\ UNCHANGED <<images, job, cancelling, handler, askVars, boundVars>>

\* The commit, which a tool call extends by a child job that takes over the reply.
Write ==
  /\ stage = "writing" /\ ~StaleRow
  /\ \/ /\ status' = Updated
        /\ Answer(job, "final")
     \/ /\ write.status = "done" /\ ChildOf[job] # NoJob
        /\ status' = [Updated EXCEPT ![ChildOf[job]] = "queued"]
        /\ Answer(job, "interim")
  /\ write' = NoWrite
  /\ stage' = "ending"
  /\ UNCHANGED <<images, job, cancelling, handler, askVars, boundVars>>

\* The row is gone: _run marks the job failed, unless it was past its try block.
WriteFails ==
  /\ stage = "writing" /\ StaleRow
  /\ \/ /\ write.guarded
        /\ write' = [status |-> "error", guarded |-> FALSE, row |-> FALSE]
        /\ UNCHANGED <<stage, job, cancelling>>
     \/ /\ ~write.guarded
        /\ Die
        /\ cancelling' = FALSE
        /\ write' = NoWrite
  /\ UNCHANGED <<dbVars, handler, askVars, boundVars>>

\* after_job has returned.
End ==
  /\ stage = "ending"
  /\ stage' = "idle" /\ job' = NoJob
  /\ cancelling' = FALSE
  /\ UNCHANGED <<dbVars, write, handler, askVars, boundVars>>

------------------------------------------------------------------------------
(* Requests *)

\* POST /jobs, /jobs/expand, /jobs/chat, and a chat turn with its placeholder.
Submit(j) ==
  /\ status[j] = "new" /\ j \notin Children
  /\ status' = [status EXCEPT ![j] = "queued"]
  /\ Answer(j, "pending")
  /\ UNCHANGED <<images, workerVars, handler, askVars, boundVars>>

\* DELETE /jobs/{id}, up to its read.
CancelRead(c, j) ==
  /\ handler[c].op = "none"
  /\ status[j] \in {"queued", "running"}
  /\ handler' = [handler EXCEPT ![c] = [op |-> status[j], rows |-> {j}, pics |-> {}]]
  /\ asked' = asked \union {j}
  /\ UNCHANGED <<dbVars, workerVars, accepted, boundVars>>

\* The worker's _current_job_id is j.
Holds(j) == job = j /\ stage \in {"requeue", "running", "writing", "ending"}

\* A row that was running: cancel_running, ignored unless it is _current_job_id.
CancelSignal(c) ==
  /\ handler[c].op = "running"
  /\ cancelling' = (cancelling \/ \E j \in handler[c].rows : Holds(j))
  /\ accepted' = accepted \union {<<j, stage>> : j \in {i \in handler[c].rows : Holds(i)}}
  /\ handler' = [handler EXCEPT ![c] = NoRequest]
  /\ UNCHANGED <<dbVars, stage, job, write, asked, boundVars>>

\* A row that was queued is committed as cancelled.
CancelCommit(c) ==
  /\ handler[c].op = "queued"
  /\ status' = [j \in Jobs |-> IF j \in handler[c].rows /\ status[j] # "deleted"
                               THEN "cancelled" ELSE status[j]]
  /\ handler' = [handler EXCEPT ![c] = NoRequest]
  /\ UNCHANGED <<reply, images, workerVars, askVars, boundVars>>

\* POST /jobs/clear: the finished rows, and the image rows they own (cascade).
ClearRead(c) ==
  /\ handler[c].op = "none"
  /\ LET finished == {j \in Jobs : status[j] \in Terminal} IN
       /\ finished # {}
       /\ handler' = [handler EXCEPT ![c] =
            [op |-> "clear", rows |-> finished, pics |-> {j \in finished : images[j] > 0}]]
  /\ UNCHANGED <<dbVars, workerVars, askVars, boundVars>>

ClearCommit(c) ==
  /\ handler[c].op = "clear"
  /\ status' = [j \in Jobs |-> IF j \in handler[c].rows THEN "deleted" ELSE status[j]]
  /\ images' = [j \in Jobs |-> IF j \in handler[c].pics THEN 0 ELSE images[j]]
  /\ handler' = [handler EXCEPT ![c] = NoRequest]
  /\ UNCHANGED <<reply, workerVars, askVars, boundVars>>

\* DELETE of a message or of its conversation.
DeleteMessage(m) ==
  /\ reply[m] \notin {"none", "deleted"}
  /\ reply' = [reply EXCEPT ![m] = "deleted"]
  /\ UNCHANGED <<status, images, workerVars, handler, askVars, boundVars>>

\* The process dies and is started again: the database is what is left.
Crash ==
  /\ crashes < MaxCrashes
  /\ crashes' = crashes + 1
  /\ stage' = "boot" /\ job' = NoJob
  /\ cancelling' = FALSE
  /\ handler' = [c \in Clients |-> NoRequest]
  /\ write' = NoWrite
  /\ accepted' = {}
  /\ UNCHANGED <<dbVars, asked, requeues>>

------------------------------------------------------------------------------
WorkerStep ==
  \/ RequeueOrphans \/ \E j \in Jobs : PickRead(j)
  \/ PickCommit \/ Begin \/ RequeueRead \/ RequeueCommit
  \/ FinishImage \/ FinishText \/ StopAfter \/ StopDuring \/ Fail
  \/ Write \/ WriteFails \/ End

Respond(c) == CancelSignal(c) \/ CancelCommit(c) \/ ClearCommit(c)

Next ==
  \/ WorkerStep
  \/ \E j \in Jobs : Submit(j)
  \/ \E c \in Clients : Respond(c) \/ ClearRead(c) \/ \E j \in Jobs : CancelRead(c, j)
  \/ \E m \in Messages : DeleteMessage(m)
  \/ Crash

Spec == Init /\ [][Next]_vars

\* The loop polls every 2 s, and runs and commits end.
FairSpec == Spec /\ WF_vars(WorkerStep) /\ \A c \in Clients : WF_vars(Respond(c))

------------------------------------------------------------------------------
(* Properties *)

TypeOK ==
  /\ status \in [Jobs -> Statuses]
  /\ reply \in [Messages -> Replies]
  /\ images \in [Jobs -> Nat]
  /\ stage \in Stages
  /\ job \in Jobs \union {NoJob}
  /\ cancelling \in BOOLEAN
  /\ write \in [status : Terminal \union {"none", "queued"}, guarded : BOOLEAN, row : BOOLEAN]
  /\ handler \in [Clients -> [op : {"none", "queued", "running", "clear"},
                              rows : SUBSET Jobs, pics : SUBSET Jobs]]
  /\ asked \subseteq Jobs /\ accepted \subseteq Jobs \X Stages

\* No job is lost as "running": such a row is the one the worker holds, or the
\* worker has yet to put it back after a restart.
RunningIsHeld ==
  \A j \in Jobs : status[j] = "running" =>
    stage = "boot" \/ (job = j /\ stage \in {"picked", "requeue", "running", "writing"})

\* Restarts and requeues run a job again, lost cancellations revive it, but its
\* images enter the gallery at most once.
ImagesOnce == \A j \in Jobs : images[j] <= 1

\* The rows of the queue stay consistent over crashes, requeues and requests that commit
\* on what they read before: none is stuck as running, none delivers its images twice.
RowsAreSound == TypeOK /\ RunningIsHeld /\ ImagesOnce

\* A job whose end has been committed, and that the worker is not about to commit.
Busy == {"picking", "picked", "requeue", "running", "writing"}
Finished(j) ==
  /\ status[j] \in Terminal \union {"deleted"}
  /\ ~(job = j /\ stage \in Busy)

\* A finished job stays finished: no restart, requeue or late commit of a request
\* makes the worker take it up again.  (A cancelled job that the worker had already
\* read as queued is not finished.)
FinishedIsFinal == [][\A j \in Jobs : Finished(j) => Finished(j)']_vars

\* No job is cancelled in another's place: the flag that cancel_running left for
\* one job never stops a later one.
OnlyAskedAreCancelled == \A j \in Jobs : status[j] = "cancelled" => j \in asked

Writers(m) == {j \in Jobs : MessageOf[j] = m}

\* Whatever crashes, fails or is deleted, a placeholder whose reply is outstanding
\* still has a job that will write it, unless a client cancelled that job.
ReplyHasWriter ==
  \A m \in Messages : reply[m] \in {"pending", "interim"} =>
    \E j \in Writers(m) : status[j] \in {"queued", "running"} \/ j \in asked

\* Every job comes to an end: it waits for a worker that is gone for good only if
\* the worker's task has died.
JobsSettle ==
  \A j \in Jobs :
    status[j] = "queued" ~> status[j] \in Terminal \union {"deleted"} \/ stage = "dead"

\* A signal that is accepted while the model is at work is obeyed: that run does not end
\* done, and no picture of it reaches the gallery, although the flag belongs to the worker
\* and not to the job, and whoever asked may have asked in an earlier run.  (One that comes
\* before or after that is not obeyed: see AcceptedIsCancelled.)
SignalsAreObeyed ==
  \A j \in Jobs : <<j, "running">> \in accepted => status[j] # "done" /\ images[j] = 0

\* core/scheduler.py, lines 135-136, the docstring of cancel_running: it "Returns True if
\* it is the one currently running (the worker then marks it cancelled as it unwinds)".
\* False while the job is put back for a voice session, and once its model has returned.
AcceptedIsCancelled ==
  \A j \in Jobs, s \in Stages : <<j, s>> \in accepted => status[j] # "done"
=============================================================================
