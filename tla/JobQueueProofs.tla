--------------------------- MODULE JobQueueProofs ---------------------------
(***************************************************************************)
(* The safety of job rows, images and replies, for any jobs, messages and   *)
(* clients, and any number of crashes and requeues.                         *)
(***************************************************************************)
EXTENDS JobQueue, TLAPS

\* What the worker holds is a row.
HeldInv == stage \in Busy \union {"ending"} => job \in Jobs /\ status[job] # "new"

\* What the pending write says, and that a row is missing only if it was deleted.
WriteInv ==
  /\ stage = "requeue" => /\ write.status = "queued"
                          /\ ~write.row => status[job] # "running"
  /\ stage = "writing" => /\ write.status \in Terminal
                          /\ ~write.row => status[job] = "deleted"

\* Whoever is about to cancel a job has been asked to.
CancelInv ==
  /\ cancelling /\ stage \in {"running", "writing", "ending"} => job \in asked
  /\ stage = "writing" /\ write.status = "cancelled" => job \in asked

\* What a request has read stays true until its commit.
HandlerInv ==
  \A c \in Clients : \A j \in handler[c].rows :
    /\ status[j] # "new"
    /\ handler[c].op \in {"queued", "running"} => j \in asked
    /\ handler[c].op = "clear" => Finished(j) \/ j \in asked

DoneInv == \A j \in Jobs : status[j] \in {"done", "error"} => Finished(j)

\* A job with a result has finished: images, or the job of its tool call.
ResultInv ==
  \A j \in Jobs :
    images[j] > 0 \/ (ChildOf[j] # NoJob /\ status[ChildOf[j]] # "new") => Finished(j)

\* A run whose signal was accepted in time is under way and will see the flag, or has
\* seen it, or is over.
ObeyInv ==
  \A j \in Jobs : <<j, "running">> \in accepted =>
    /\ images[j] = 0 /\ status[j] # "done"
    /\ stage \in {"idle", "dead"} \/ (job = j /\ stage \in {"running", "writing", "ending"})
    /\ stage = "running" => cancelling
    /\ stage = "writing" => write.status # "done"

QueueInv ==
  /\ TypeOK
  /\ RunningIsHeld /\ ImagesOnce /\ OnlyAskedAreCancelled /\ ReplyHasWriter
  /\ HeldInv /\ WriteInv /\ CancelInv /\ HandlerInv /\ DoneInv /\ ResultInv /\ ObeyInv

------------------------------------------------------------------------------
(* The steps *)

\* No step makes a row new again, or takes up a finished job.
Kept ==
  \A j \in Jobs : /\ status[j] # "new" => status'[j] # "new"
                  /\ Finished(j) => Finished(j)'

\* Rows that are not new are kept, so what the requests have read is still true.
LEMMA HandlerKept ==
  ASSUME TypeOK, HandlerInv, Kept, UNCHANGED handler, asked \subseteq asked'
  PROVE  HandlerInv'
  BY DEF TypeOK, HandlerInv, Kept

\* Startup: the rows a killed process left running are queued again, and nothing is held.
LEMMA RequeueOrphansStep ==
  ASSUME QueueInv, RequeueOrphans
  PROVE  QueueInv' /\ Kept
  <1> USE DEF RequeueOrphans, Terminal, Statuses, Stages, Busy, dbVars, workerVars, boundVars, askVars
  <1>1. TypeOK'
    BY DEF QueueInv, TypeOK
  <1>2. Kept
    BY DEF QueueInv, Kept, Finished
  <1>3. HeldInv'
    BY DEF QueueInv, HeldInv
  <1>4. WriteInv'
    BY DEF QueueInv, WriteInv
  <1>5. CancelInv'
    BY DEF QueueInv, CancelInv
  <1>6. HandlerInv'
    BY <1>2, HandlerKept DEF QueueInv
  <1>7. DoneInv'
    BY <1>2 DEF QueueInv, DoneInv, Kept
  <1>8. ResultInv' /\ ImagesOnce'
    BY <1>2, QueueAssumption DEF QueueInv, ResultInv, ImagesOnce, Kept
  <1>9. RunningIsHeld'
    BY DEF QueueInv, RunningIsHeld
  <1>10. OnlyAskedAreCancelled'
    BY DEF QueueInv, OnlyAskedAreCancelled
  <1>11. ReplyHasWriter'
    BY DEF QueueInv, ReplyHasWriter, Writers
  <1>12. ObeyInv'
    BY DEF QueueInv, ObeyInv
  <1> QED BY <1>1, <1>2, <1>3, <1>4, <1>5, <1>6, <1>7, <1>8, <1>9, <1>10, <1>11, <1>12 DEF QueueInv

\* The worker chooses a queued row; only its own memory changes.
LEMMA PickReadStep ==
  ASSUME QueueInv, NEW j \in Jobs, PickRead(j)
  PROVE  QueueInv' /\ Kept
  <1> USE DEF PickRead, Terminal, Statuses, Stages, Busy, dbVars, workerVars, boundVars, askVars
  <1>1. TypeOK'
    BY DEF QueueInv, TypeOK
  <1>2. Kept
    BY DEF QueueInv, Kept, Finished
  <1>3. HeldInv'
    BY DEF QueueInv, HeldInv
  <1>4. WriteInv'
    BY DEF QueueInv, WriteInv
  <1>5. CancelInv'
    BY DEF QueueInv, CancelInv
  <1>6. HandlerInv'
    BY <1>2, HandlerKept DEF QueueInv
  <1>7. DoneInv'
    BY <1>2 DEF QueueInv, DoneInv, Kept
  <1>8. ResultInv' /\ ImagesOnce'
    BY <1>2 DEF QueueInv, ResultInv, ImagesOnce, Kept
  <1>9. RunningIsHeld'
    BY DEF QueueInv, RunningIsHeld
  <1>10. OnlyAskedAreCancelled'
    BY DEF QueueInv, OnlyAskedAreCancelled
  <1>11. ReplyHasWriter'
    BY DEF QueueInv, ReplyHasWriter
  <1>12. ObeyInv'
    BY DEF QueueInv, ObeyInv
  <1> QED BY <1>1, <1>2, <1>3, <1>4, <1>5, <1>6, <1>7, <1>8, <1>9, <1>10, <1>11, <1>12 DEF QueueInv

\* The pick is committed, unless the row was deleted in between: then the worker dies.
LEMMA PickCommitStep ==
  ASSUME QueueInv, PickCommit
  PROVE  QueueInv' /\ Kept
  <1> USE DEF PickCommit, Die, Terminal, Statuses, Stages, Busy, dbVars, workerVars, boundVars, askVars
  <1>1. TypeOK'
    BY DEF QueueInv, TypeOK
  <1>2. Kept
    BY DEF QueueInv, TypeOK, Kept, Finished
  <1>3. HeldInv'
    BY DEF QueueInv, TypeOK, HeldInv
  <1>4. WriteInv'
    BY DEF QueueInv, WriteInv
  <1>5. CancelInv'
    BY DEF QueueInv, CancelInv
  <1>6. HandlerInv'
    BY <1>2, HandlerKept DEF QueueInv
  <1>7. DoneInv'
    BY <1>2 DEF QueueInv, TypeOK, DoneInv, Kept
  <1>8. ResultInv' /\ ImagesOnce'
    BY <1>2, QueueAssumption DEF QueueInv, TypeOK, ResultInv, ImagesOnce, Kept, HeldInv
  <1>9. RunningIsHeld'
    BY DEF QueueInv, TypeOK, RunningIsHeld
  <1>10. OnlyAskedAreCancelled'
    BY DEF QueueInv, TypeOK, OnlyAskedAreCancelled
  <1>11. ReplyHasWriter'
    BY DEF QueueInv, TypeOK, ReplyHasWriter, Writers
  <1>12. ObeyInv'
    BY DEF QueueInv, ObeyInv, TypeOK
  <1> QED BY <1>1, <1>2, <1>3, <1>4, <1>5, <1>6, <1>7, <1>8, <1>9, <1>10, <1>11, <1>12 DEF QueueInv

\* The worker starts the job it picked.
LEMMA BeginStep ==
  ASSUME QueueInv, Begin
  PROVE  QueueInv' /\ Kept
  <1> USE DEF Begin, Terminal, Statuses, Stages, Busy, dbVars, workerVars, boundVars, askVars
  <1>1. TypeOK'
    BY DEF QueueInv, TypeOK
  <1>2. Kept
    BY DEF QueueInv, Kept, Finished
  <1>3. HeldInv'
    BY DEF QueueInv, HeldInv
  <1>4. WriteInv'
    BY DEF QueueInv, WriteInv
  <1>5. CancelInv'
    BY DEF QueueInv, CancelInv
  <1>6. HandlerInv'
    BY <1>2, HandlerKept DEF QueueInv
  <1>7. DoneInv'
    BY <1>2 DEF QueueInv, DoneInv, Kept
  <1>8. ResultInv' /\ ImagesOnce'
    BY <1>2 DEF QueueInv, ResultInv, ImagesOnce, Kept
  <1>9. RunningIsHeld'
    BY DEF QueueInv, RunningIsHeld
  <1>10. OnlyAskedAreCancelled'
    BY DEF QueueInv, OnlyAskedAreCancelled
  <1>11. ReplyHasWriter'
    BY DEF QueueInv, ReplyHasWriter
  <1>12. ObeyInv'
    BY DEF QueueInv, ObeyInv
  <1> QED BY <1>1, <1>2, <1>3, <1>4, <1>5, <1>6, <1>7, <1>8, <1>9, <1>10, <1>11, <1>12 DEF QueueInv

\* A voice session is live: the worker reads the row to put it back.
LEMMA RequeueReadStep ==
  ASSUME QueueInv, RequeueRead
  PROVE  QueueInv' /\ Kept
  <1> USE DEF RequeueRead, Terminal, Statuses, Stages, Busy, dbVars, workerVars, boundVars, askVars
  <1>1. TypeOK'
    BY DEF QueueInv, TypeOK
  <1>2. Kept
    BY DEF QueueInv, Kept, Finished
  <1>3. HeldInv'
    BY DEF QueueInv, HeldInv
  <1>4. WriteInv'
    BY DEF QueueInv, WriteInv
  <1>5. CancelInv'
    BY DEF QueueInv, CancelInv
  <1>6. HandlerInv'
    BY <1>2, HandlerKept DEF QueueInv
  <1>7. DoneInv'
    BY <1>2 DEF QueueInv, DoneInv, Kept
  <1>8. ResultInv' /\ ImagesOnce'
    BY <1>2 DEF QueueInv, ResultInv, ImagesOnce, Kept
  <1>9. RunningIsHeld'
    BY DEF QueueInv, RunningIsHeld
  <1>10. OnlyAskedAreCancelled'
    BY DEF QueueInv, OnlyAskedAreCancelled
  <1>11. ReplyHasWriter'
    BY DEF QueueInv, ReplyHasWriter
  <1>12. ObeyInv'
    BY DEF QueueInv, ObeyInv, TypeOK
  <1> QED BY <1>1, <1>2, <1>3, <1>4, <1>5, <1>6, <1>7, <1>8, <1>9, <1>10, <1>11, <1>12 DEF QueueInv

\* The row is put back in the queue, or has been deleted.
LEMMA RequeueCommitStep ==
  ASSUME QueueInv, RequeueCommit
  PROVE  QueueInv' /\ Kept
  <1> USE DEF RequeueCommit, Die, StaleRow, Updated, NoWrite, Terminal, Statuses, Stages, Busy, dbVars, workerVars, boundVars, askVars
  <1>1. TypeOK'
    BY DEF QueueInv, TypeOK, WriteInv
  <1>2. Kept
    BY DEF QueueInv, TypeOK, Kept, Finished
  <1>3. HeldInv'
    BY DEF QueueInv, HeldInv
  <1>4. WriteInv'
    BY DEF QueueInv, WriteInv
  <1>5. CancelInv'
    BY DEF QueueInv, CancelInv
  <1>6. HandlerInv'
    BY <1>2, HandlerKept DEF QueueInv
  <1>7. DoneInv'
    BY DEF QueueInv, DoneInv, Finished
  <1>8. ResultInv' /\ ImagesOnce'
    BY <1>2, QueueAssumption DEF QueueInv, TypeOK, ResultInv, ImagesOnce, Kept, HeldInv
  <1>9. RunningIsHeld'
    BY DEF QueueInv, TypeOK, RunningIsHeld, WriteInv
  <1>10. OnlyAskedAreCancelled'
    BY DEF QueueInv, TypeOK, OnlyAskedAreCancelled, WriteInv
  <1>11. ReplyHasWriter'
    BY DEF QueueInv, TypeOK, ReplyHasWriter, Writers, WriteInv
  <1>12. ObeyInv'
    BY DEF QueueInv, ObeyInv, TypeOK, WriteInv
  <1> QED BY <1>1, <1>2, <1>3, <1>4, <1>5, <1>6, <1>7, <1>8, <1>9, <1>10, <1>11, <1>12 DEF QueueInv

\* An image job saves its images, and only then ends.
LEMMA FinishImageStep ==
  ASSUME QueueInv, FinishImage
  PROVE  QueueInv' /\ Kept
  <1> USE DEF FinishImage, Terminal, Statuses, Stages, Busy, dbVars, workerVars, boundVars, askVars
  <1>1. TypeOK'
    BY QueueAssumption DEF QueueInv, TypeOK, Replies, Answer
  <1>2. Kept
    BY DEF QueueInv, Kept, Finished
  <1>3. HeldInv'
    BY DEF QueueInv, HeldInv
  <1>4. WriteInv'
    BY DEF QueueInv, WriteInv
  <1>5. CancelInv'
    BY DEF QueueInv, CancelInv
  <1>6. HandlerInv'
    BY <1>2, HandlerKept DEF QueueInv
  <1>7. DoneInv'
    BY DEF QueueInv, DoneInv, Finished
  <1>8. ResultInv' /\ ImagesOnce'
    BY DEF QueueInv, TypeOK, ResultInv, ImagesOnce, Finished, HeldInv
  <1>9. RunningIsHeld'
    BY DEF QueueInv, TypeOK, RunningIsHeld
  <1>10. OnlyAskedAreCancelled'
    BY DEF QueueInv, OnlyAskedAreCancelled
  <1>11. ReplyHasWriter'
    BY DEF QueueInv, ReplyHasWriter, Writers, Answer
  <1>12. ObeyInv'
    BY DEF QueueInv, ObeyInv, TypeOK
  <1> QED BY <1>1, <1>2, <1>3, <1>4, <1>5, <1>6, <1>7, <1>8, <1>9, <1>10, <1>11, <1>12 DEF QueueInv

\* The worker reads the row it is about to close.
LEMMA ReadRowStep ==
  ASSUME QueueInv, NEW s, NEW g, ReadRow(s, g), s \in Terminal, g \in BOOLEAN,
         s = "cancelled" => cancelling, s = "done" => ~cancelling
  PROVE  QueueInv' /\ Kept
  <1> USE DEF ReadRow, Terminal, Statuses, Stages, Busy, dbVars, workerVars, boundVars, askVars
  <1>1. TypeOK'
    BY DEF QueueInv, TypeOK
  <1>2. Kept
    BY DEF QueueInv, Kept, Finished
  <1>3. HeldInv'
    BY DEF QueueInv, HeldInv
  <1>4. WriteInv'
    BY DEF QueueInv, WriteInv
  <1>5. CancelInv'
    BY DEF QueueInv, CancelInv
  <1>6. HandlerInv'
    BY <1>2, HandlerKept DEF QueueInv
  <1>7. DoneInv'
    BY <1>2 DEF QueueInv, DoneInv, Kept
  <1>8. ResultInv' /\ ImagesOnce'
    BY <1>2 DEF QueueInv, ResultInv, ImagesOnce, Kept
  <1>9. RunningIsHeld'
    BY DEF QueueInv, RunningIsHeld
  <1>10. OnlyAskedAreCancelled'
    BY DEF QueueInv, OnlyAskedAreCancelled
  <1>11. ReplyHasWriter'
    BY DEF QueueInv, ReplyHasWriter
  <1>12. ObeyInv'
    BY DEF QueueInv, ObeyInv
  <1> QED BY <1>1, <1>2, <1>3, <1>4, <1>5, <1>6, <1>7, <1>8, <1>9, <1>10, <1>11, <1>12 DEF QueueInv

\* The closing status is committed with what the job made.
LEMMA WriteStep ==
  ASSUME QueueInv, Write
  PROVE  QueueInv' /\ Kept
  <1> USE DEF Write, StaleRow, Updated, NoWrite, Terminal, Statuses, Stages, Busy, dbVars, workerVars, boundVars, askVars
  <1>1. TypeOK'
    BY DEF QueueInv, TypeOK, WriteInv, Replies, Answer
  <1>2. Kept
    BY DEF QueueInv, TypeOK, Kept, Finished, HeldInv, ResultInv
  <1>3. HeldInv'
    BY DEF QueueInv, TypeOK, HeldInv
  <1>4. WriteInv'
    BY DEF QueueInv, WriteInv
  <1>5. CancelInv'
    BY DEF QueueInv, CancelInv
  <1>6. HandlerInv'
    BY <1>2, HandlerKept DEF QueueInv
  <1>7. DoneInv'
    BY DEF QueueInv, DoneInv, Finished
  <1>8. ResultInv' /\ ImagesOnce'
    BY QueueAssumption DEF QueueInv, TypeOK, ResultInv, ImagesOnce, Finished, HeldInv, WriteInv
  <1>9. RunningIsHeld'
    BY DEF QueueInv, TypeOK, RunningIsHeld, WriteInv
  <1>10. OnlyAskedAreCancelled'
    BY DEF QueueInv, TypeOK, OnlyAskedAreCancelled, CancelInv
  <1>11. ReplyHasWriter'
    BY QueueAssumption DEF QueueInv, TypeOK, ReplyHasWriter, Writers, HeldInv, Answer
  <1>12. ObeyInv'
    BY QueueAssumption DEF QueueInv, ObeyInv, TypeOK, HeldInv, WriteInv
  <1> QED BY <1>1, <1>2, <1>3, <1>4, <1>5, <1>6, <1>7, <1>8, <1>9, <1>10, <1>11, <1>12 DEF QueueInv

\* The row was deleted under the write: it becomes a failed job, or the worker dies.
LEMMA WriteFailsStep ==
  ASSUME QueueInv, WriteFails
  PROVE  QueueInv' /\ Kept
  <1> USE DEF WriteFails, Die, StaleRow, NoWrite, Terminal, Statuses, Stages, Busy, dbVars, workerVars, boundVars, askVars
  <1>1. TypeOK'
    <2>1. \/ write' = [status |-> "error", guarded |-> FALSE, row |-> FALSE]
          \/ write' = NoWrite
      OBVIOUS
    <2>2. write' \in [status : Terminal \union {"none", "queued"}, guarded : BOOLEAN, row : BOOLEAN]
      <3>1. CASE write' = [status |-> "error", guarded |-> FALSE, row |-> FALSE]
        BY <3>1
      <3>2. CASE write' = NoWrite
        BY <3>2
      <3> QED BY <2>1, <3>1, <3>2
    <2>3. /\ UNCHANGED <<status, reply, images, handler, asked, accepted>>
          /\ UNCHANGED <<stage, job, cancelling>> \/ (Die /\ cancelling' = FALSE)
      OBVIOUS
    <2> QED BY <2>2, <2>3 DEF QueueInv, TypeOK
  <1>2. Kept
    BY DEF QueueInv, Kept, Finished
  <1>3. HeldInv'
    BY DEF QueueInv, HeldInv
  <1>4. WriteInv'
    BY DEF QueueInv, WriteInv
  <1>5. CancelInv'
    BY DEF QueueInv, CancelInv
  <1>6. HandlerInv'
    BY <1>2, HandlerKept DEF QueueInv
  <1>7. DoneInv'
    BY <1>2 DEF QueueInv, DoneInv, Kept
  <1>8. ResultInv' /\ ImagesOnce'
    BY <1>2 DEF QueueInv, ResultInv, ImagesOnce, Kept
  <1>9. RunningIsHeld'
    BY DEF QueueInv, RunningIsHeld
  <1>10. OnlyAskedAreCancelled'
    BY DEF QueueInv, OnlyAskedAreCancelled
  <1>11. ReplyHasWriter'
    BY DEF QueueInv, ReplyHasWriter
  <1>12. ObeyInv'
    BY DEF QueueInv, ObeyInv
  <1> QED BY <1>1, <1>2, <1>3, <1>4, <1>5, <1>6, <1>7, <1>8, <1>9, <1>10, <1>11, <1>12 DEF QueueInv

\* The worker lets go of the job it closed.
LEMMA EndStep ==
  ASSUME QueueInv, End
  PROVE  QueueInv' /\ Kept
  <1> USE DEF End, Terminal, Statuses, Stages, Busy, dbVars, workerVars, boundVars, askVars
  <1>1. TypeOK'
    BY DEF QueueInv, TypeOK
  <1>2. Kept
    BY DEF QueueInv, Kept, Finished
  <1>3. HeldInv'
    BY DEF QueueInv, HeldInv
  <1>4. WriteInv'
    BY DEF QueueInv, WriteInv
  <1>5. CancelInv'
    BY DEF QueueInv, CancelInv
  <1>6. HandlerInv'
    BY <1>2, HandlerKept DEF QueueInv
  <1>7. DoneInv'
    BY <1>2 DEF QueueInv, DoneInv, Kept
  <1>8. ResultInv' /\ ImagesOnce'
    BY <1>2 DEF QueueInv, ResultInv, ImagesOnce, Kept
  <1>9. RunningIsHeld'
    BY DEF QueueInv, RunningIsHeld
  <1>10. OnlyAskedAreCancelled'
    BY DEF QueueInv, OnlyAskedAreCancelled
  <1>11. ReplyHasWriter'
    BY DEF QueueInv, ReplyHasWriter
  <1>12. ObeyInv'
    BY DEF QueueInv, ObeyInv
  <1> QED BY <1>1, <1>2, <1>3, <1>4, <1>5, <1>6, <1>7, <1>8, <1>9, <1>10, <1>11, <1>12 DEF QueueInv

\* A client submits a job.
LEMMA SubmitStep ==
  ASSUME QueueInv, NEW j \in Jobs, Submit(j)
  PROVE  QueueInv' /\ Kept
  <1> USE DEF Submit, Terminal, Statuses, Stages, Busy, dbVars, workerVars, boundVars, askVars
  <1>1. TypeOK'
    BY DEF QueueInv, TypeOK, Replies, Answer
  <1>2. Kept
    BY DEF QueueInv, Kept, Finished
  <1>3. HeldInv'
    BY DEF QueueInv, HeldInv
  <1>4. WriteInv'
    BY DEF QueueInv, WriteInv
  <1>5. CancelInv'
    BY DEF QueueInv, CancelInv
  <1>6. HandlerInv'
    BY <1>2, HandlerKept DEF QueueInv
  <1>7. DoneInv'
    BY <1>2 DEF QueueInv, DoneInv, Kept
  <1>8. ResultInv' /\ ImagesOnce'
    BY <1>2 DEF QueueInv, ResultInv, ImagesOnce, Kept, Children
  <1>9. RunningIsHeld'
    BY DEF QueueInv, RunningIsHeld
  <1>10. OnlyAskedAreCancelled'
    BY DEF QueueInv, OnlyAskedAreCancelled
  <1>11. ReplyHasWriter'
    BY DEF QueueInv, TypeOK, ReplyHasWriter, Writers, Answer
  <1>12. ObeyInv'
    BY DEF QueueInv, ObeyInv, TypeOK
  <1> QED BY <1>1, <1>2, <1>3, <1>4, <1>5, <1>6, <1>7, <1>8, <1>9, <1>10, <1>11, <1>12 DEF QueueInv

\* A cancel request reads the row.
LEMMA CancelReadStep ==
  ASSUME QueueInv, NEW c \in Clients, NEW j \in Jobs, CancelRead(c, j)
  PROVE  QueueInv' /\ Kept
  <1> USE DEF CancelRead, Terminal, Statuses, Stages, Busy, dbVars, workerVars, boundVars, askVars
  <1>1. TypeOK'
    BY DEF QueueInv, TypeOK
  <1>2. Kept
    BY DEF QueueInv, Kept, Finished
  <1>3. HeldInv'
    BY DEF QueueInv, HeldInv
  <1>4. WriteInv'
    BY DEF QueueInv, WriteInv
  <1>5. CancelInv'
    BY DEF QueueInv, CancelInv
  <1>6. HandlerInv'
    BY <1>2 DEF QueueInv, TypeOK, HandlerInv, Kept
  <1>7. DoneInv'
    BY <1>2 DEF QueueInv, DoneInv, Kept
  <1>8. ResultInv' /\ ImagesOnce'
    BY <1>2 DEF QueueInv, ResultInv, ImagesOnce, Kept
  <1>9. RunningIsHeld'
    BY DEF QueueInv, RunningIsHeld
  <1>10. OnlyAskedAreCancelled'
    BY DEF QueueInv, OnlyAskedAreCancelled
  <1>11. ReplyHasWriter'
    BY DEF QueueInv, ReplyHasWriter
  <1>12. ObeyInv'
    BY DEF QueueInv, ObeyInv
  <1> QED BY <1>1, <1>2, <1>3, <1>4, <1>5, <1>6, <1>7, <1>8, <1>9, <1>10, <1>11, <1>12 DEF QueueInv

\* A cancel request of a running job sets the signal.
LEMMA CancelSignalStep ==
  ASSUME QueueInv, NEW c \in Clients, CancelSignal(c)
  PROVE  QueueInv' /\ Kept
  <1> USE DEF CancelSignal, NoRequest, Holds, Terminal, Statuses, Stages, Busy, dbVars, workerVars, boundVars, askVars
  <1>1. TypeOK'
    BY DEF QueueInv, TypeOK
  <1>2. Kept
    BY DEF QueueInv, Kept, Finished
  <1>3. HeldInv'
    BY DEF QueueInv, HeldInv
  <1>4. WriteInv'
    BY DEF QueueInv, WriteInv
  <1>5. CancelInv'
    BY DEF QueueInv, CancelInv, HandlerInv
  <1>6. HandlerInv'
    BY <1>2 DEF QueueInv, TypeOK, HandlerInv, Kept
  <1>7. DoneInv'
    BY <1>2 DEF QueueInv, DoneInv, Kept
  <1>8. ResultInv' /\ ImagesOnce'
    BY <1>2 DEF QueueInv, ResultInv, ImagesOnce, Kept
  <1>9. RunningIsHeld'
    BY DEF QueueInv, RunningIsHeld
  <1>10. OnlyAskedAreCancelled'
    BY DEF QueueInv, OnlyAskedAreCancelled
  <1>11. ReplyHasWriter'
    BY DEF QueueInv, ReplyHasWriter
  <1>12. ObeyInv'
    <2>1. ASSUME NEW j \in Jobs, <<j, "running">> \in accepted', <<j, "running">> \notin accepted
          PROVE  job = j /\ stage = "running" /\ cancelling'
      BY <2>1 DEF QueueInv, TypeOK
    <2>2. ASSUME NEW j \in Jobs, job = j, stage = "running" PROVE images[j] = 0 /\ status[j] # "done"
      BY <2>2 DEF QueueInv, TypeOK, ImagesOnce, ResultInv, DoneInv, Finished
    <2>3. cancelling => cancelling'
      OBVIOUS
    <2> QED BY <2>1, <2>2, <2>3 DEF QueueInv, ObeyInv
  <1> QED BY <1>1, <1>2, <1>3, <1>4, <1>5, <1>6, <1>7, <1>8, <1>9, <1>10, <1>11, <1>12 DEF QueueInv

\* A cancel request of a queued job commits what it read.
LEMMA CancelCommitStep ==
  ASSUME QueueInv, NEW c \in Clients, CancelCommit(c)
  PROVE  QueueInv' /\ Kept
  <1> USE DEF CancelCommit, NoRequest, Terminal, Statuses, Stages, Busy, dbVars, workerVars, boundVars, askVars
  <1>1. TypeOK'
    BY DEF QueueInv, TypeOK
  <1>2. Kept
    BY DEF QueueInv, Kept, Finished
  <1>3. HeldInv'
    BY DEF QueueInv, HeldInv
  <1>4. WriteInv'
    BY DEF QueueInv, HeldInv, WriteInv
  <1>5. CancelInv'
    BY DEF QueueInv, CancelInv
  <1>6. HandlerInv'
    BY <1>2 DEF QueueInv, TypeOK, HandlerInv, Kept
  <1>7. DoneInv'
    BY <1>2 DEF QueueInv, DoneInv, Kept
  <1>8. ResultInv' /\ ImagesOnce'
    BY <1>2, QueueAssumption DEF QueueInv, ResultInv, ImagesOnce, Kept, HandlerInv
  <1>9. RunningIsHeld'
    BY DEF QueueInv, RunningIsHeld
  <1>10. OnlyAskedAreCancelled'
    BY DEF QueueInv, OnlyAskedAreCancelled, HandlerInv
  <1>11. ReplyHasWriter'
    BY DEF QueueInv, ReplyHasWriter, Writers, HandlerInv
  <1>12. ObeyInv'
    BY DEF QueueInv, ObeyInv, TypeOK
  <1> QED BY <1>1, <1>2, <1>3, <1>4, <1>5, <1>6, <1>7, <1>8, <1>9, <1>10, <1>11, <1>12 DEF QueueInv

\* A clear request reads the rows it will delete.
LEMMA ClearReadStep ==
  ASSUME QueueInv, NEW c \in Clients, ClearRead(c)
  PROVE  QueueInv' /\ Kept
  <1> USE DEF ClearRead, Terminal, Statuses, Stages, Busy, dbVars, workerVars, boundVars, askVars
  <1>1. TypeOK'
    BY DEF QueueInv, TypeOK
  <1>2. Kept
    BY DEF QueueInv, Kept, Finished
  <1>3. HeldInv'
    BY DEF QueueInv, HeldInv
  <1>4. WriteInv'
    BY DEF QueueInv, WriteInv
  <1>5. CancelInv'
    BY DEF QueueInv, CancelInv
  <1>6. HandlerInv'
    BY <1>2 DEF QueueInv, TypeOK, HandlerInv, Kept, DoneInv, OnlyAskedAreCancelled
  <1>7. DoneInv'
    BY <1>2 DEF QueueInv, DoneInv, Kept
  <1>8. ResultInv' /\ ImagesOnce'
    BY <1>2 DEF QueueInv, ResultInv, ImagesOnce, Kept
  <1>9. RunningIsHeld'
    BY DEF QueueInv, RunningIsHeld
  <1>10. OnlyAskedAreCancelled'
    BY DEF QueueInv, OnlyAskedAreCancelled
  <1>11. ReplyHasWriter'
    BY DEF QueueInv, ReplyHasWriter
  <1>12. ObeyInv'
    BY DEF QueueInv, ObeyInv
  <1> QED BY <1>1, <1>2, <1>3, <1>4, <1>5, <1>6, <1>7, <1>8, <1>9, <1>10, <1>11, <1>12 DEF QueueInv

\* A clear request deletes the rows it read.
LEMMA ClearCommitStep ==
  ASSUME QueueInv, NEW c \in Clients, ClearCommit(c)
  PROVE  QueueInv' /\ Kept
  <1> USE DEF ClearCommit, NoRequest, Terminal, Statuses, Stages, Busy, dbVars, workerVars, boundVars, askVars
  <1>1. TypeOK'
    BY DEF QueueInv, TypeOK
  <1>2. Kept
    BY DEF QueueInv, Kept, Finished
  <1>3. HeldInv'
    BY DEF QueueInv, HeldInv
  <1>4. WriteInv'
    BY DEF QueueInv, HeldInv, WriteInv
  <1>5. CancelInv'
    BY DEF QueueInv, CancelInv
  <1>6. HandlerInv'
    BY <1>2 DEF QueueInv, TypeOK, HandlerInv, Kept
  <1>7. DoneInv'
    BY <1>2 DEF QueueInv, DoneInv, Kept
  <1>8. ResultInv' /\ ImagesOnce'
    BY <1>2, QueueAssumption DEF QueueInv, ResultInv, ImagesOnce, Kept, HandlerInv
  <1>9. RunningIsHeld'
    BY DEF QueueInv, RunningIsHeld
  <1>10. OnlyAskedAreCancelled'
    BY DEF QueueInv, OnlyAskedAreCancelled
  <1>11. ReplyHasWriter'
    BY DEF QueueInv, ReplyHasWriter, Writers, Finished, HandlerInv
  <1>12. ObeyInv'
    BY DEF QueueInv, ObeyInv
  <1> QED BY <1>1, <1>2, <1>3, <1>4, <1>5, <1>6, <1>7, <1>8, <1>9, <1>10, <1>11, <1>12 DEF QueueInv

\* A message is deleted.
LEMMA DeleteMessageStep ==
  ASSUME QueueInv, NEW m \in Messages, DeleteMessage(m)
  PROVE  QueueInv' /\ Kept
  <1> USE DEF DeleteMessage, Terminal, Statuses, Stages, Busy, dbVars, workerVars, boundVars, askVars
  <1>1. TypeOK'
    BY DEF QueueInv, TypeOK, Replies
  <1>2. Kept
    BY DEF QueueInv, Kept, Finished
  <1>3. HeldInv'
    BY DEF QueueInv, HeldInv
  <1>4. WriteInv'
    BY DEF QueueInv, WriteInv
  <1>5. CancelInv'
    BY DEF QueueInv, CancelInv
  <1>6. HandlerInv'
    BY <1>2, HandlerKept DEF QueueInv
  <1>7. DoneInv'
    BY <1>2 DEF QueueInv, DoneInv, Kept
  <1>8. ResultInv' /\ ImagesOnce'
    BY <1>2 DEF QueueInv, ResultInv, ImagesOnce, Kept
  <1>9. RunningIsHeld'
    BY DEF QueueInv, RunningIsHeld
  <1>10. OnlyAskedAreCancelled'
    BY DEF QueueInv, OnlyAskedAreCancelled
  <1>11. ReplyHasWriter'
    BY DEF QueueInv, ReplyHasWriter
  <1>12. ObeyInv'
    BY DEF QueueInv, ObeyInv
  <1> QED BY <1>1, <1>2, <1>3, <1>4, <1>5, <1>6, <1>7, <1>8, <1>9, <1>10, <1>11, <1>12 DEF QueueInv

\* The process dies: what is not committed is lost.
LEMMA CrashStep ==
  ASSUME QueueInv, Crash
  PROVE  QueueInv' /\ Kept
  <1> USE DEF Crash, NoRequest, NoWrite, Terminal, Statuses, Stages, Busy, dbVars, workerVars, boundVars, askVars
  <1>1. TypeOK'
    BY DEF QueueInv, TypeOK
  <1>2. Kept
    BY DEF QueueInv, Kept, Finished
  <1>3. HeldInv'
    BY DEF QueueInv, HeldInv
  <1>4. WriteInv'
    BY DEF QueueInv, WriteInv
  <1>5. CancelInv'
    BY DEF QueueInv, CancelInv
  <1>6. HandlerInv'
    BY DEF QueueInv, HandlerInv
  <1>7. DoneInv'
    BY <1>2 DEF QueueInv, DoneInv, Kept
  <1>8. ResultInv' /\ ImagesOnce'
    BY <1>2 DEF QueueInv, ResultInv, ImagesOnce, Kept
  <1>9. RunningIsHeld'
    BY DEF QueueInv, RunningIsHeld
  <1>10. OnlyAskedAreCancelled'
    BY DEF QueueInv, OnlyAskedAreCancelled
  <1>11. ReplyHasWriter'
    BY DEF QueueInv, ReplyHasWriter
  <1>12. ObeyInv'
    BY DEF QueueInv, ObeyInv
  <1> QED BY <1>1, <1>2, <1>3, <1>4, <1>5, <1>6, <1>7, <1>8, <1>9, <1>10, <1>11, <1>12 DEF QueueInv

------------------------------------------------------------------------------
(* The theorems *)

\* The empty database satisfies the invariant.
LEMMA InitInv == Init => QueueInv
  <1> SUFFICES ASSUME Init PROVE QueueInv
    OBVIOUS
  <1> USE DEF Init, NoWrite, NoRequest, Terminal, Statuses, Stages, Replies, Busy
  <1>1. TypeOK
    BY DEF TypeOK
  <1>2. RunningIsHeld /\ ImagesOnce /\ OnlyAskedAreCancelled /\ ReplyHasWriter
    BY DEF RunningIsHeld, ImagesOnce, OnlyAskedAreCancelled, ReplyHasWriter
  <1>3. HeldInv /\ WriteInv /\ CancelInv /\ HandlerInv /\ DoneInv
    BY DEF HeldInv, WriteInv, CancelInv, HandlerInv, DoneInv
  <1>4. ResultInv /\ ObeyInv
    BY QueueAssumption DEF ResultInv, ObeyInv
  <1> QED BY <1>1, <1>2, <1>3, <1>4 DEF QueueInv

\* The invariant is inductive, and rows are kept by every step.
LEMMA NextInv == QueueInv /\ [Next]_vars => QueueInv' /\ Kept
  <1> SUFFICES ASSUME QueueInv, [Next]_vars PROVE QueueInv' /\ Kept
    OBVIOUS
  <1>1. CASE WorkerStep
    <2>1. CASE FinishText
      BY <2>1, ReadRowStep DEF FinishText, Terminal
    <2>2. CASE StopAfter
      BY <2>2, ReadRowStep DEF StopAfter, Terminal
    <2>3. CASE StopDuring
      BY <2>3, ReadRowStep DEF StopDuring, Terminal
    <2>4. CASE Fail
      BY <2>4, ReadRowStep DEF Fail, Terminal
    <2> QED BY <1>1, <2>1, <2>2, <2>3, <2>4, RequeueOrphansStep, PickReadStep, PickCommitStep,
               BeginStep, RequeueReadStep, RequeueCommitStep, FinishImageStep, WriteStep,
               WriteFailsStep, EndStep DEF WorkerStep
  <1>2. CASE UNCHANGED vars
    BY <1>2 DEF vars, dbVars, workerVars, boundVars, askVars, QueueInv, TypeOK, RunningIsHeld, ImagesOnce,
       OnlyAskedAreCancelled, ReplyHasWriter, Writers, HeldInv, WriteInv, CancelInv, HandlerInv,
       DoneInv, ResultInv, ObeyInv, Finished, Kept
  <1> QED BY <1>1, <1>2, SubmitStep, CancelReadStep, CancelSignalStep, CancelCommitStep,
             ClearReadStep, ClearCommitStep, DeleteMessageStep, CrashStep DEF Next, Respond

\* The invariant holds in every reachable state.
LEMMA Invariance == Spec => []QueueInv
  BY InitInv, NextInv, PTL DEF Spec

\* The types of the queue's state.
THEOREM TypeCorrect == Spec => []TypeOK
  BY Invariance, PTL DEF QueueInv

\* No row is left running without a worker that holds it (_requeue_orphans).
THEOREM RunningRowsAreHeld == Spec => []RunningIsHeld
  BY Invariance, PTL DEF QueueInv

\* The images of a job are committed at most once, however often it is run.
THEOREM ImagesEnterOnce == Spec => []ImagesOnce
  BY Invariance, PTL DEF QueueInv

\* _cancel_current never stops a job that nobody asked to cancel.
THEOREM CancelsAreAsked == Spec => []OnlyAskedAreCancelled
  BY Invariance, PTL DEF QueueInv

\* Every outstanding reply has a job that will write it, or was cancelled.
THEOREM RepliesHaveWriters == Spec => []ReplyHasWriter
  BY Invariance, PTL DEF QueueInv

\* A job that has finished is not taken up again.
THEOREM FinishedJobsStay == Spec => FinishedIsFinal
  <1>1. QueueInv /\ [Next]_vars => [\A j \in Jobs : Finished(j) => Finished(j)']_vars
    BY NextInv DEF Kept
  <1> QED BY <1>1, Invariance, PTL DEF Spec, FinishedIsFinal

\* A signal accepted while the model is at work is obeyed, whatever happens to the row:
\* between the signal and the look at the flag nothing but a crash resets it.
THEOREM SignalsStopTheirJob == Spec => []SignalsAreObeyed
  <1>1. QueueInv => SignalsAreObeyed
    BY DEF QueueInv, ObeyInv, SignalsAreObeyed
  <1> QED BY <1>1, Invariance, PTL

\* Types, no row stuck as running, and no images twice (scheduler.py, jobs.py).
THEOREM RowsStaySound == Spec => []RowsAreSound
  BY TypeCorrect, RunningRowsAreHeld, ImagesEnterOnce, PTL DEF RowsAreSound
=============================================================================
