----------------------------- MODULE ExportPage -----------------------------
(***************************************************************************)
(* The export of a recording: the dialog that asks for it and polls its    *)
(* state (components/playback/ExportModal.tsx), the record of the job in   *)
(* Redis, its task and ffmpeg (services/export_service.py and the routes   *)
(* of api/v1/recordings.py).                                               *)
(***************************************************************************)
EXTENDS Integers

CONSTANTS
  Restarts   \* bound: restarts of the backend while a job runs

VARIABLES
  modal,    \* closed, form, creating, job
  told,     \* job.status as the dialog last heard it, or none
  poll,     \* the status query: idle, asked, answered, over (no interval), wait
  record,   \* the job in Redis: its status, or none
  task,     \* run_job: none, begun, fetched, encoding, written, over
  ffmpeg,   \* none, running, failed, ended
  file,     \* the output: none, partial, whole
  restarts

export == <<modal, told, poll, record, task, ffmpeg, file, restarts>>

Running == {"queued", "running"}

Init ==
  /\ modal = "closed" /\ told = "none" /\ poll = "over"
  /\ record = "none" /\ task = "none" /\ ffmpeg = "none" /\ file = "none"
  /\ restarts = 0

-----------------------------------------------------------------------------
(* The dialog.                                                             *)

OpenModal ==
  /\ modal = "closed" /\ record = "none"
  /\ modal' = "form"
  /\ UNCHANGED <<told, poll, record, task, ffmpeg, file, restarts>>

(* handleSubmit, of a range of at most a day that is not empty.            *)
Submit ==
  /\ modal = "form"
  /\ modal' = "creating"
  /\ UNCHANGED <<told, poll, record, task, ffmpeg, file, restarts>>

(* Closing it: nothing asks for the state any more, the task goes on.      *)
CloseModal ==
  /\ modal # "closed"
  /\ modal' = "closed" /\ poll' = "over"
  /\ UNCHANGED <<told, record, task, ffmpeg, file, restarts>>

(* create_export: the record, the task, and the answer with the id.        *)
Create ==
  /\ modal = "creating" /\ record = "none"
  /\ modal' = "job" /\ poll' = "asked" /\ told' = "none"
  /\ record' = "queued" /\ task' = "begun"
  /\ UNCHANGED <<ffmpeg, file, restarts>>

(* Unknown camera, backend away: submitErr.                                *)
CreateFails ==
  /\ modal = "creating"
  /\ modal' = "form"
  /\ UNCHANGED <<told, poll, record, task, ffmpeg, file, restarts>>

(* Variant: polls only while the job runs, not while it waits to.          *)
PolledRunning == {"running"}

(* refetchInterval: while the last status heard is queued or running.      *)
Polled == {"queued", "running"}

(* The status of the record; a record that is gone is an error, which      *)
(* leaves the last one standing.                                           *)
StatusTold ==
  /\ poll = "asked" /\ record # "none"
  /\ told' = record
  /\ poll' = IF record \in Polled THEN "wait" ELSE "over"
  /\ UNCHANGED <<modal, record, task, ffmpeg, file, restarts>>

StatusFails ==
  /\ poll = "asked"
  /\ poll' = IF told \in Polled THEN "wait" ELSE "over"
  /\ UNCHANGED <<modal, told, record, task, ffmpeg, file, restarts>>

(* Two seconds later, or when the window gets the focus.                   *)
PollAgain ==
  /\ modal = "job" /\ poll = "wait"
  /\ poll' = "asked"
  /\ UNCHANGED <<modal, told, record, task, ffmpeg, file, restarts>>

Focus ==
  /\ modal = "job" /\ poll = "over"
  /\ poll' = "asked"
  /\ UNCHANGED <<modal, told, record, task, ffmpeg, file, restarts>>

(* handleDownload: what a job that is done has written.                    *)
Download ==
  /\ modal = "job" /\ told = "done"
  /\ UNCHANGED export

-----------------------------------------------------------------------------
(* The task.                                                               *)

Fail == record' = "failed" /\ task' = "over"

Start ==
  /\ task = "begun"
  /\ record' = "running" /\ task' = "fetched"
  /\ UNCHANGED <<modal, told, poll, ffmpeg, file, restarts>>

(* The server and its recordings: any of it may fail, or be empty.         *)
Fetch(ok) ==
  /\ task = "fetched"
  /\ IF ok THEN task' = "encoding" /\ ffmpeg' = "running" /\ file' = "partial" /\ UNCHANGED record
     ELSE Fail /\ UNCHANGED <<ffmpeg, file>>
  /\ UNCHANGED <<modal, told, poll, restarts>>

(* ffmpeg works without end if a server does not answer.                   *)
Encode(ok) ==
  /\ ffmpeg = "running"
  /\ ffmpeg' = IF ok THEN "ended" ELSE "failed"
  /\ file' = IF ok THEN "whole" ELSE file
  /\ UNCHANGED <<modal, told, poll, record, task, restarts>>

(* _try_ffmpeg returns; done only if the process ended well.               *)
Encoded ==
  /\ task = "encoding" /\ ffmpeg \in {"ended", "failed"}
  /\ IF ffmpeg = "ended" THEN record' = "done" /\ task' = "over" ELSE Fail
  /\ UNCHANGED <<modal, told, poll, ffmpeg, file, restarts>>

(* Variant: the process has not ended, but there is a file.                *)
TimeoutKeeps ==
  /\ task = "encoding" /\ ffmpeg = "running"
  /\ record' = "done" /\ task' = "over"
  /\ UNCHANGED <<modal, told, poll, ffmpeg, file, restarts>>

(* After 300 s; the process is left alone.                                 *)
Timeout ==
  /\ task = "encoding" /\ ffmpeg = "running"
  /\ Fail
  /\ UNCHANGED <<modal, told, poll, ffmpeg, file, restarts>>

(* The record expires an hour after its last change: no task is at work.   *)
Expire ==
  /\ record # "none" /\ task = "over"
  /\ record' = "none"
  /\ UNCHANGED <<modal, told, poll, task, ffmpeg, file, restarts>>

(* The backend stops: the record is in Redis, the task was in memory.      *)
Restart ==
  /\ restarts < Restarts /\ task \notin {"none", "over"}
  /\ restarts' = restarts + 1
  /\ task' = "over" /\ ffmpeg' = IF ffmpeg = "running" THEN "failed" ELSE ffmpeg
  /\ UNCHANGED <<modal, told, poll, record, file>>

Task == Start \/ Fetch(TRUE) \/ Fetch(FALSE) \/ Encoded \/ Timeout

Next ==
  \/ OpenModal \/ Submit \/ CloseModal \/ Create \/ CreateFails
  \/ StatusTold \/ StatusFails \/ PollAgain \/ Focus \/ Download
  \/ Task \/ Encode(TRUE) \/ Encode(FALSE) \/ Expire \/ Restart

Spec == Init /\ [][Next]_export

(* The task runs, the dialog's timer too, and one of the requests for the  *)
(* status is answered sometimes.                                           *)
Fairness ==
  /\ WF_export(Task)
  /\ WF_export(PollAgain) /\ WF_export(StatusTold \/ StatusFails) /\ SF_export(StatusTold)

FairSpec == Spec /\ Fairness

-----------------------------------------------------------------------------
(* An operator who keeps the dialog open is told how the export ended,     *)
(* whichever of its steps fails, runs into the limit of ffmpeg or is not   *)
(* heard of for a while, unless it is so late that the record has expired, *)
(* the first status was lost or the backend has stopped (run_job,          *)
(* _try_ffmpeg, refetchInterval).                                          *)
ExportEnds ==
  (modal = "job" /\ told \in Running)
    ~> (told \in {"done", "failed"} \/ modal # "job" \/ record = "none" \/ restarts > 0)

(* What is told to be done is there to be downloaded, as a whole.          *)
DoneIsWhole == told = "done" \/ record = "done" => file = "whole"

(* What the code does not do; each is refuted by a demonstration.          *)

(* Nothing writes a file whose job has failed.                             *)
FailedIsOver == record = "failed" => ffmpeg # "running"

(* The dialog hears of the end also if the backend restarts or the first   *)
(* request for the status fails.                                           *)
AlwaysEnds == modal = "job" ~> (told \in {"done", "failed"} \/ modal # "job")
=============================================================================
