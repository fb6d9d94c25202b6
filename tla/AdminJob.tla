------------------------------ MODULE AdminJob -------------------------------
(***************************************************************************)
(* The bulk live verification as the admin's orders page shows it          *)
(* (admin/src/pages/Orders.jsx): started, cancelled and polled by the      *)
(* page, run by the server (LockedJobs).  Answers come in any order.       *)
(***************************************************************************)
EXTENDS Integers

CONSTANTS MaxStarts,   \* bound on the starts of the job
          MaxLost      \* bound on requests that fail or whose answer is lost

VARIABLES
  job,        \* the server's job: "none", "running" or "ended"
  starts,     \* how often it was started
  jobs,       \* answers about the job on their way
  starting,   \* isStartingBulkVerify: "no", or the request "sent", or its answer
  shownJob,   \* shiprocketBulkVerifyJob
  lost

vars == <<job, starts, jobs, starting, shownJob, lost>>

JobStates == {"none", "running", "ended"}

Init ==
  /\ job = "none" /\ starts = 0
  /\ jobs = {} /\ starting = "no" /\ shownJob = "none"
  /\ lost = 0

Lose == lost < MaxLost /\ lost' = lost + 1

-----------------------------------------------------------------------------
\* The job comes to its end.
JobEnds ==
  /\ job = "running"
  /\ job' = "ended"
  /\ UNCHANGED <<starts, jobs, starting, shownJob, lost>>

\* getShiprocketBulkLiveVerificationJob, for the page that was opened.
ReadJob ==
  /\ jobs' = jobs \cup {job}
  /\ UNCHANGED <<job, starts, starting, shownJob, lost>>

\* The interval of 4 s while the page shows a running job.
PollJob == shownJob = "running" /\ ReadJob

\* handleStartShiprocketBulkVerify: disabled while a start is under way or a job is shown
\* to be running.
StartJob ==
  /\ starting = "no" /\ shownJob # "running"
  /\ starting' = "sent"
  /\ UNCHANGED <<job, starts, jobs, shownJob, lost>>

\* startShiprocketBulkLiveVerification: a running job is answered, not started again; so is
\* the last one, if no order needs the verification.
TakeStart ==
  /\ starting = "sent"
  /\ \/ job # "running" /\ starts < MaxStarts /\ job' = "running" /\ starts' = starts + 1
     \/ UNCHANGED <<job, starts>>
  /\ starting' = job'
  /\ UNCHANGED <<jobs, shownJob, lost>>

StartAnswer ==
  /\ starting \in JobStates
  /\ starting' = "no"
  /\ shownJob' = starting
  /\ UNCHANGED <<job, starts, jobs, lost>>

\* The request fails, before or after the server took it.
StartFails ==
  /\ starting # "no" /\ Lose
  /\ starting' = "no"
  /\ UNCHANGED <<job, starts, jobs, shownJob>>

\* handleCancelShiprocketBulkVerify and the server's cancel: a stalled job ends at once,
\* another one when its run sees the request; the job is the answer.
CancelJob ==
  /\ shownJob = "running"
  /\ job' \in IF job = "running" THEN {"running", "ended"} ELSE {job}
  /\ jobs' = jobs \cup {job'}
  /\ UNCHANGED <<starts, starting, shownJob, lost>>

\* fetchShiprocketBulkVerifyJob (or a cancel), when its answer comes, whatever came before.
JobAnswer(answer) ==
  /\ answer \in jobs
  /\ jobs' = jobs \ {answer}
  /\ shownJob' = answer
  /\ UNCHANGED <<job, starts, starting, lost>>

JobLost(answer) ==
  /\ answer \in jobs /\ Lose
  /\ jobs' = jobs \ {answer}
  /\ UNCHANGED <<job, starts, starting, shownJob>>

Next ==
  \/ JobEnds \/ ReadJob \/ PollJob
  \/ StartJob \/ TakeStart \/ StartAnswer \/ StartFails \/ CancelJob
  \/ \E answer \in jobs : JobAnswer(answer) \/ JobLost(answer)

Spec == Init /\ [][Next]_vars

\* A job that the page shows as running is not shown so for good when it is over: answers
\* may be lost or come late, but the polls go on until one says that it ended.
EndIsSeen == []<>(shownJob = "running" => job = "running")
=============================================================================
