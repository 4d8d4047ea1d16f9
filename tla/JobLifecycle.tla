---------------------------- MODULE JobLifecycle ----------------------------
(***************************************************************************)
(* The life of a document processing job: the API handlers that create and *)
(* dispatch it, the Cloud Tasks queue that delivers it at least once, the  *)
(* worker passes that run it, and the Firestore mirror the browser watches.*)
(*                                                                         *)
(* A handler is one StartProcessing, ResumeProcessing or auto-resume call; *)
(* a worker is one delivery being served.  Each action is one access to    *)
(* state the others share: a database statement, a Firestore write, a call *)
(* to the queue.  Job identities count up in creation order, so the newest *)
(* job of a document (ORDER BY created_at DESC LIMIT 1) is its greatest.   *)
(***************************************************************************)
EXTENDS Naturals

CONSTANTS
  Documents,            \* uploaded documents
  NoDocument,           \* what a handler or a job row holds before it has one
  Handlers,             \* API calls in progress at once, over all replicas
  Workers,              \* deliveries being served at once, over all instances
  MaxJobs,              \* bound: rows of document_processing_jobs
  MaxAttempts,          \* deliveries the queue makes of one task
  MaxBudgetRetries,     \* maxBudgetRetries, the cap on requeues of one job
  AutoResumeMaxRetries, \* autoResumeMaxRetries
  MaxFaults,            \* bound: crashes, failed statements, lost writes
  ApprovalJobs          \* jobs for which an approval has been requested

JobIds == 1..MaxJobs

ASSUME DocumentsAssumption == NoDocument \notin Documents
ASSUME BoundsAssumption ==
  /\ MaxJobs \in Nat
  /\ MaxAttempts \in Nat \ {0}
  /\ MaxBudgetRetries \in Nat
  /\ AutoResumeMaxRetries \in Nat
  /\ MaxFaults \in Nat
  /\ ApprovalJobs \subseteq JobIds

VARIABLES
  created,   \* how many job rows exist
  job,       \* the rows: document, status, retry_count; and, for the
             \* properties, who created the row, whether that call could read
             \* the newest job, which it was and what status it had
  mirror,    \* workspaces/{w}/jobs/{j}.status in Firestore
  task,      \* the named ExecuteApprovedPlan task: "none", "live" or "done"
  attempts,  \* how often the queue has delivered it
  rejected,  \* jobs with a rejected approval request
  api,       \* the handlers
  pass,      \* the worker passes
  faults,    \* how many faults have happened
  blame      \* history: what has gone wrong around each job

vars == <<created, job, mirror, task, attempts, rejected, api, pass, faults, blame>>

-----------------------------------------------------------------------------
(* The states of rows, mirrors, handlers and passes.                       *)

Statuses == {"none", "queued", "running", "retryable", "succeeded", "failed"}
Origins == {"none", "start", "force", "resume", "auto"}
Checks == {"none", "read", "unread"}
Blames == {"crash", "write", "mirror", "race", "rejected"}

NoRow == [doc |-> NoDocument, status |-> "none", retry |-> 0,
          origin |-> "none", check |-> "none", basis |-> 0, over |-> "none"]

NoCall == [pc |-> "idle", kind |-> "none", doc |-> NoDocument,
           check |-> "none", basis |-> 0, over |-> "none", job |-> 0, retry |-> 0]

NoPass == [pc |-> "idle", job |-> 0, retry |-> 0]

Row == [doc : Documents \cup {NoDocument}, status : Statuses, retry : Nat,
        origin : Origins, check : Checks, basis : 0..MaxJobs, over : Statuses]

CallSteps == {"idle", "recheck", "create", "setRetry", "notify", "plan", "execute",
              "fail", "failMirror"}

Call == [pc : CallSteps,
         kind : Origins, doc : Documents \cup {NoDocument}, check : Checks,
         basis : 0..MaxJobs, over : Statuses, job : 0..MaxJobs, retry : Nat]

PassSteps == {"idle", "read", "approvals", "mark", "markMirror", "agent", "requeue",
              "complete", "completeMirror", "fail", "failMirror"}

Pass == [pc : PassSteps, job : 0..MaxJobs, retry : Nat]

TypeOK ==
  /\ created \in 0..MaxJobs
  /\ job \in [JobIds -> Row]
  /\ mirror \in [JobIds -> {"none", "queued", "running", "succeeded", "failed"}]
  /\ task \in [JobIds -> {"none", "live", "done"}]
  /\ attempts \in [JobIds -> Nat]
  /\ rejected \in SUBSET JobIds
  /\ api \in [Handlers -> Call]
  /\ pass \in [Workers -> Pass]
  /\ faults \in Nat
  /\ blame \in [JobIds -> SUBSET Blames]

Init ==
  /\ created = 0
  /\ job = [j \in JobIds |-> NoRow]
  /\ mirror = [j \in JobIds |-> "none"]
  /\ task = [j \in JobIds |-> "none"]
  /\ attempts = [j \in JobIds |-> 0]
  /\ rejected = {}
  /\ api = [h \in Handlers |-> NoCall]
  /\ pass = [w \in Workers |-> NoPass]
  /\ faults = 0
  /\ blame = [j \in JobIds |-> {}]

-----------------------------------------------------------------------------
(* Reading the rows.                                                       *)

JobsOf(d) == {j \in JobIds : job[j].doc = d}

\* GetLatestProcessingJob finds j; 0 stands for ErrNotFound.
IsLatest(d, j) ==
  \/ j = 0 /\ JobsOf(d) = {}
  \/ j \in JobsOf(d) /\ \A k \in JobsOf(d) : k <= j

StatusOf(j) == IF j = 0 THEN "none" ELSE job[j].status

Active(j) == job[j].status \in {"queued", "running"}

\* Broken variant: a job nobody has claimed yet is not handed back.
ReturnedByStartUnlessQueued == {"succeeded", "running"}

\* The statuses for which StartProcessing hands back the newest job, and those
\* for which a resume does.
ReturnedByStart == {"succeeded", "running", "queued"}
ReturnedByResume == {"running", "queued"}

-----------------------------------------------------------------------------
(* Faults.  Each uses up one of MaxFaults and is remembered against the    *)
(* job it hit.                                                             *)

Fault(j, what) ==
  /\ faults < MaxFaults
  /\ faults' = faults + 1
  /\ blame' = [i \in JobIds |-> IF i = j THEN blame[i] \cup {what} ELSE blame[i]]

NoFault == UNCHANGED <<faults, blame>>

\* A Firestore write lands, or is lost and only logged.
MirrorWrite(j, state) ==
  \/ mirror' = [mirror EXCEPT ![j] = state] /\ NoFault
  \/ UNCHANGED mirror /\ Fault(j, "mirror")

SetStatus(j, state) == job' = [job EXCEPT ![j].status = state]

-----------------------------------------------------------------------------
(* The API.                                                                *)

\* A call has authorised the caller, confirmed the upload, and goes on to make
\* a new job; the newest one was j.  A resumed failure counts one retry more
\* than the job it resumes, if the call could read that job.
MustCreate(h, d, kind, j, check) ==
  api' = [api EXCEPT ![h] =
    [NoCall EXCEPT !.pc = "create", !.kind = kind, !.doc = d,
                   !.check = check, !.basis = j, !.over = StatusOf(j),
                   !.retry = IF kind \in {"resume", "auto"} /\ check = "read"
                                /\ StatusOf(j) = "failed"
                             THEN job[j].retry + 1 ELSE 0]]

\* The newest job of d is read.  Unless its status has the call hand it back, a
\* new one will be made; and so it will, whatever the newest job does, when the
\* read fails: only err == nil is looked at.
CheckNewest(h, d, kind, returned) ==
  \E j \in 0..MaxJobs :
    /\ IsLatest(d, j)
    /\ \/ /\ StatusOf(j) \notin returned
          /\ MustCreate(h, d, kind, j, "read")
          /\ NoFault
       \/ MustCreate(h, d, kind, j, "unread") /\ Fault(0, "write")

\* StartProcessing without force.  The check and the INSERT are separate
\* statements.
StartProcessing(h, d) ==
  /\ api[h].pc = "idle"
  /\ CheckNewest(h, d, "start", ReturnedByStart)
  /\ UNCHANGED <<created, job, mirror, task, attempts, rejected, pass>>

\* StartProcessing with force does not look at the existing jobs.
ForceReprocess(h, d) ==
  /\ api[h].pc = "idle"
  /\ MustCreate(h, d, "force", 0, "none")
  /\ UNCHANGED <<created, job, mirror, task, attempts, rejected, pass, faults, blame>>

\* A user's ResumeProcessing.
ResumeProcessing(h, d) ==
  /\ api[h].pc = "idle"
  /\ CheckNewest(h, d, "resume", ReturnedByResume)
  /\ UNCHANGED <<created, job, mirror, task, attempts, rejected, pass>>

\* The scan a fresh API replica runs: the newest job of a document has failed
\* and has retries left.  ResumeProcessing is called later, and reads again.
AutoResumeScan(h, d) ==
  /\ api[h].pc = "idle"
  /\ \E j \in JobIds :
       /\ IsLatest(d, j)
       /\ job[j].status = "failed"
       /\ job[j].retry < AutoResumeMaxRetries
  /\ api' = [api EXCEPT ![h] = [NoCall EXCEPT !.pc = "recheck", !.kind = "auto", !.doc = d]]
  /\ UNCHANGED <<created, job, mirror, task, attempts, rejected, pass, faults, blame>>

AutoResumeRecheck(h) ==
  /\ api[h].pc = "recheck"
  /\ \/ CheckNewest(h, api[h].doc, "auto", ReturnedByResume)
     \/ /\ \E j \in JobIds : IsLatest(api[h].doc, j) /\ job[j].status \in ReturnedByResume
        /\ api' = [api EXCEPT ![h] = NoCall]
        /\ NoFault
  /\ UNCHANGED <<created, job, mirror, task, attempts, rejected, pass>>

\* Broken variant: the retry count of a resumed job is never stamped.
CreateProcessingJobUncounted(h) ==
  /\ api[h].pc = "create"
  /\ created < MaxJobs
  /\ created' = created + 1
  /\ job' = [job EXCEPT ![created + 1] =
       [NoRow EXCEPT !.doc = api[h].doc, !.status = "queued", !.origin = api[h].kind,
                     !.check = api[h].check, !.basis = api[h].basis,
                     !.over = api[h].over]]
  /\ api' = [api EXCEPT ![h] = [NoCall EXCEPT !.job = created + 1, !.pc = "notify"]]
  /\ UNCHANGED <<mirror, task, attempts, rejected, pass, faults, blame>>

\* The transaction that inserts the job and its capability.
CreateProcessingJob(h) ==
  /\ api[h].pc = "create"
  /\ created < MaxJobs
  /\ created' = created + 1
  /\ job' = [job EXCEPT ![created + 1] =
       [NoRow EXCEPT !.doc = api[h].doc, !.status = "queued", !.origin = api[h].kind,
                     !.check = api[h].check, !.basis = api[h].basis,
                     !.over = api[h].over]]
  /\ api' = [api EXCEPT ![h] =
       [NoCall EXCEPT !.job = created + 1, !.retry = api[h].retry,
                      !.pc = IF api[h].retry > 0 THEN "setRetry" ELSE "notify"]]
  /\ UNCHANGED <<mirror, task, attempts, rejected, pass, faults, blame>>

\* SetProcessingJobRetryCount; when it fails the caller gets the error and the
\* job stays QUEUED, never dispatched.
SetProcessingJobRetryCount(h) ==
  /\ api[h].pc = "setRetry"
  /\ \/ /\ job' = [job EXCEPT ![api[h].job].retry = api[h].retry]
        /\ api' = [api EXCEPT ![h].pc = "notify"]
        /\ NoFault
     \/ /\ api' = [api EXCEPT ![h] = NoCall]
        /\ Fault(api[h].job, "write")
        /\ UNCHANGED job
  /\ UNCHANGED <<created, mirror, task, attempts, rejected, pass>>

NotifyQueued(h) ==
  /\ api[h].pc = "notify"
  /\ MirrorWrite(api[h].job, "queued")
  /\ api' = [api EXCEPT ![h].pc = "plan"]
  /\ UNCHANGED <<created, job, task, attempts, rejected, pass>>

\* The planning task is enqueued, or the dispatch fails and so does the job.
\* (The plan itself does not touch the job row.)
GenerateExecutionPlan(h) ==
  /\ api[h].pc = "plan"
  /\ \/ api' = [api EXCEPT ![h].pc = "execute"] /\ NoFault
     \/ api' = [api EXCEPT ![h].pc = "fail"] /\ Fault(0, "write")
  /\ UNCHANGED <<created, job, mirror, task, attempts, rejected, pass>>

\* CreateTask succeeds, fails, or times out after the queue has taken the task.
ExecuteApprovedPlan(h) ==
  /\ api[h].pc = "execute"
  /\ \/ /\ task' = [task EXCEPT ![api[h].job] = "live"]
        /\ api' = [api EXCEPT ![h] = NoCall]
        /\ NoFault
     \/ /\ task' \in {task, [task EXCEPT ![api[h].job] = "live"]}
        /\ api' = [api EXCEPT ![h].pc = "fail"]
        /\ Fault(0, "write")
  /\ UNCHANGED <<created, job, mirror, attempts, rejected, pass>>

\* handleDispatchFailure: TryFail writes the row and then the mirror, and goes
\* on to the mirror even when the row could not be written.
TryFail(h) ==
  /\ api[h].pc = "fail"
  /\ \/ SetStatus(api[h].job, "failed") /\ NoFault
     \/ UNCHANGED job /\ Fault(api[h].job, "write")
  /\ api' = [api EXCEPT ![h].pc = "failMirror"]
  /\ UNCHANGED <<created, mirror, task, attempts, rejected, pass>>

TryFailNotify(h) ==
  /\ api[h].pc = "failMirror"
  /\ MirrorWrite(api[h].job, "failed")
  /\ api' = [api EXCEPT ![h] = NoCall]
  /\ UNCHANGED <<created, job, task, attempts, rejected, pass>>

\* The replica dies, or the client goes away and cancels the request.
HandlerCrash(h) ==
  /\ api[h].pc # "idle"
  /\ Fault(api[h].job, "crash")
  /\ api' = [api EXCEPT ![h] = NoCall]
  /\ UNCHANGED <<created, job, mirror, task, attempts, rejected, pass>>

\* A reviewer rejects an approval request, or approves it: neither statement
\* looks at what has been decided before.
RejectJobApproval(j) ==
  /\ j \in ApprovalJobs \ rejected
  /\ j <= created
  /\ rejected' = rejected \cup {j}
  /\ UNCHANGED <<created, job, mirror, task, attempts, api, pass, faults, blame>>

ApproveJobApproval(j) ==
  /\ j \in rejected
  /\ rejected' = rejected \ {j}
  /\ UNCHANGED <<created, job, mirror, task, attempts, api, pass, faults, blame>>

-----------------------------------------------------------------------------
(* The worker.                                                             *)

\* Broken variants: a delivery skips every job it knows; the claim has no WHERE
\* clause on the status; the claim does not match a job nobody has claimed.
ShouldSkipEveryJob == {"succeeded", "failed", "running", "queued"}
MarkableAlways == Statuses
MarkableOnlyRunning == {"running"}

\* The statuses a delivery skips with a 200 (shouldSkipJobStatus), and those
\* MarkProcessingJobRunning's WHERE clause accepts.
ShouldSkipJobStatus == {"succeeded", "failed", "running"}
Markable == {"queued", "running"}

\* The queue delivers the task: again if no earlier delivery has been answered
\* with a 200, and possibly while one is still being served.
Deliver(w, j) ==
  /\ pass[w].pc = "idle"
  /\ task[j] = "live"
  /\ attempts[j] < MaxAttempts
  /\ attempts' = [attempts EXCEPT ![j] = @ + 1]
  /\ pass' = [pass EXCEPT ![w] = [NoPass EXCEPT !.pc = "read", !.job = j]]
  /\ UNCHANGED <<created, job, mirror, task, rejected, api, faults, blame>>

\* The pass answers: a 200 settles the task, any other leaves it to the queue.
Answer(w, ok) ==
  /\ pass' = [pass EXCEPT ![w] = NoPass]
  /\ task' = IF ok THEN [task EXCEPT ![pass[w].job] = "done"] ELSE task

\* Process reads the job once, and works from that copy.
ReadJob(w) ==
  LET j == pass[w].job IN
  /\ pass[w].pc = "read"
  /\ \/ job[j].status \in ShouldSkipJobStatus /\ Answer(w, TRUE) /\ NoFault
     \/ /\ job[j].status \notin ShouldSkipJobStatus
        /\ pass' = [pass EXCEPT ![w].pc = "approvals", ![w].retry = job[j].retry]
        /\ UNCHANGED task
        /\ NoFault
     \/ Answer(w, FALSE) /\ Fault(j, "write")
  /\ UNCHANGED <<created, job, mirror, attempts, rejected, api>>

\* A rejected approval ends the pass with a 4xx; the queue may or may not take
\* that as final.  When the list cannot be read the pass goes on.
CheckApprovals(w) ==
  LET j == pass[w].job IN
  /\ pass[w].pc = "approvals"
  /\ \/ /\ j \notin rejected
        /\ pass' = [pass EXCEPT ![w].pc = "mark"]
        /\ UNCHANGED task
        /\ NoFault
     \/ /\ j \in rejected
        /\ \E final \in BOOLEAN : Answer(w, final)
        /\ blame' = [blame EXCEPT ![j] = @ \cup {"rejected"}]
        /\ UNCHANGED faults
     \/ /\ j \in rejected
        /\ pass' = [pass EXCEPT ![w].pc = "mark"]
        /\ UNCHANGED task
        /\ Fault(0, "write")
  /\ UNCHANGED <<created, job, mirror, attempts, rejected, api>>

\* Somebody other than pass w will still write this job's row or mirror.
HasOtherWriter(w, j) ==
  \/ \E h \in Handlers : api[h].job = j
  \/ \E v \in Workers \ {w} : pass[v].job = j
                              /\ pass[v].pc \notin {"read", "approvals", "mark"}

\* MarkProcessingJobRunning: no row matches a settled job, and the pass answers
\* 500 without failing it.
MarkRunning(w) ==
  LET j == pass[w].job IN
  /\ pass[w].pc = "mark"
  /\ \/ /\ job[j].status \in Markable
        /\ SetStatus(j, "running")
        /\ pass' = [pass EXCEPT ![w].pc = "markMirror"]
        /\ blame' = IF HasOtherWriter(w, j)
                    THEN [blame EXCEPT ![j] = @ \cup {"race"}] ELSE blame
        /\ UNCHANGED <<task, faults>>
     \/ job[j].status \notin Markable /\ Answer(w, FALSE) /\ NoFault /\ UNCHANGED job
     \/ Answer(w, FALSE) /\ Fault(j, "write") /\ UNCHANGED job
  /\ UNCHANGED <<created, mirror, attempts, rejected, api>>

MarkRunningNotify(w) ==
  /\ pass[w].pc = "markMirror"
  /\ MirrorWrite(pass[w].job, "running")
  /\ pass' = [pass EXCEPT ![w].pc = "agent"]
  /\ UNCHANGED <<created, job, task, attempts, rejected, api>>

\* The agent finishes, fails, or runs out of its own budget: then the retry
\* count read at the start decides between a requeue and a failure.
ProcessDocument(w) ==
  /\ pass[w].pc = "agent"
  /\ \E next \in {"complete", "fail"} \cup
                 (IF pass[w].retry < MaxBudgetRetries THEN {"requeue"} ELSE {}) :
       pass' = [pass EXCEPT ![w].pc = next]
  /\ UNCHANGED <<created, job, mirror, task, attempts, rejected, api, faults, blame>>

\* Broken variant: the mirror is shown a status it has no word for.
RequeueProcessingJobMirrored(w) ==
  LET j == pass[w].job IN
  /\ pass[w].pc = "requeue"
  /\ job' = [job EXCEPT ![j].status = "retryable", ![j].retry = @ + 1]
  /\ mirror' = [mirror EXCEPT ![j] = "retryable"]
  /\ Answer(w, FALSE)
  /\ NoFault
  /\ UNCHANGED <<created, attempts, rejected, api>>

\* The row becomes RETRYABLE and the delivery is answered 500; the mirror is
\* not told.  When the statement fails, the job is failed instead.
RequeueProcessingJobForRetry(w) ==
  LET j == pass[w].job IN
  /\ pass[w].pc = "requeue"
  /\ \/ /\ job' = [job EXCEPT ![j].status = "retryable", ![j].retry = @ + 1]
        /\ Answer(w, FALSE)
        /\ NoFault
     \/ /\ pass' = [pass EXCEPT ![w].pc = "fail"]
        /\ UNCHANGED <<job, task>>
        /\ Fault(0, "write")
  /\ UNCHANGED <<created, mirror, attempts, rejected, api>>

\* Broken variant: the mirror is told before the row.
CompleteMirrorFirst(w) ==
  /\ pass[w].pc = "complete"
  /\ MirrorWrite(pass[w].job, "succeeded")
  /\ pass' = [pass EXCEPT ![w].pc = "completeMirror"]
  /\ UNCHANGED <<created, job, task, attempts, rejected, api>>

CompleteProcessingJob(w) ==
  /\ pass[w].pc = "complete"
  /\ \/ /\ SetStatus(pass[w].job, "succeeded")
        /\ pass' = [pass EXCEPT ![w].pc = "completeMirror"]
        /\ NoFault
     \/ /\ pass' = [pass EXCEPT ![w].pc = "fail"]
        /\ UNCHANGED job
        /\ Fault(0, "write")
  /\ UNCHANGED <<created, mirror, task, attempts, rejected, api>>

CompleteNotify(w) ==
  /\ pass[w].pc = "completeMirror"
  /\ MirrorWrite(pass[w].job, "succeeded")
  /\ Answer(w, TRUE)
  /\ UNCHANGED <<created, job, attempts, rejected, api>>

\* failJob: the row, then the mirror even if the row could not be written.
FailProcessingJob(w) ==
  /\ pass[w].pc = "fail"
  /\ \/ SetStatus(pass[w].job, "failed") /\ NoFault
     \/ UNCHANGED job /\ Fault(pass[w].job, "write")
  /\ pass' = [pass EXCEPT ![w].pc = "failMirror"]
  /\ UNCHANGED <<created, mirror, task, attempts, rejected, api>>

\* Broken variant: a failure is not told to the mirror.
FailSilently(w) ==
  /\ pass[w].pc = "failMirror"
  /\ Answer(w, FALSE)
  /\ UNCHANGED <<created, job, mirror, attempts, rejected, api, faults, blame>>

FailNotify(w) ==
  /\ pass[w].pc = "failMirror"
  /\ MirrorWrite(pass[w].job, "failed")
  /\ Answer(w, FALSE)
  /\ UNCHANGED <<created, job, attempts, rejected, api>>

\* The instance dies, or Cloud Run cuts the request off; the queue sees no
\* answer.
WorkerCrash(w) ==
  /\ pass[w].pc # "idle"
  /\ Fault(pass[w].job, "crash")
  /\ Answer(w, FALSE)
  /\ UNCHANGED <<created, job, mirror, attempts, rejected, api>>

-----------------------------------------------------------------------------
(* The specification.                                                      *)

HandlerStep(h) ==
  \/ AutoResumeRecheck(h) \/ CreateProcessingJob(h)
  \/ SetProcessingJobRetryCount(h) \/ NotifyQueued(h)
  \/ GenerateExecutionPlan(h) \/ ExecuteApprovedPlan(h)
  \/ TryFail(h) \/ TryFailNotify(h)

WorkerStep(w) ==
  \/ ReadJob(w) \/ CheckApprovals(w) \/ MarkRunning(w) \/ MarkRunningNotify(w)
  \/ ProcessDocument(w) \/ RequeueProcessingJobForRetry(w)
  \/ CompleteProcessingJob(w) \/ CompleteNotify(w)
  \/ FailProcessingJob(w) \/ FailNotify(w)

Next ==
  \/ \E h \in Handlers, d \in Documents :
       \/ StartProcessing(h, d) \/ ForceReprocess(h, d)
       \/ ResumeProcessing(h, d) \/ AutoResumeScan(h, d)
  \/ \E h \in Handlers : HandlerStep(h) \/ HandlerCrash(h)
  \/ \E j \in JobIds : RejectJobApproval(j) \/ ApproveJobApproval(j)
  \/ \E w \in Workers, j \in JobIds : Deliver(w, j)
  \/ \E w \in Workers : WorkerStep(w) \/ WorkerCrash(w)

Spec == Init /\ [][Next]_vars

\* Requests and passes run on unless their process dies; the agent is bounded
\* by its budget; the queue delivers a live task while it has attempts left.
FairSpec ==
  /\ Spec
  /\ \A h \in Handlers : WF_vars(HandlerStep(h))
  /\ \A w \in Workers : WF_vars(WorkerStep(w))
  /\ \A j \in JobIds : SF_vars(\E w \in Workers : Deliver(w, j))

-----------------------------------------------------------------------------
(* Properties.                                                             *)

\* The row of a job keeps the contract of JobContract: what the API, the queue
\* and the passes do to it maps to a step of the contract or to none.
Contract == INSTANCE JobContract WITH
  Jobs <- JobIds,
  status <- [j \in JobIds |-> job[j].status],
  retry <- [j \in JobIds |-> job[j].retry]

RowKeepsContract == Contract!ContractSpec

\* Somebody is still bound to move the job on: the handler that is making it,
\* a delivery the queue still owes, or a pass that has claimed it.
HasOwner(j) ==
  \/ \E h \in Handlers : api[h].job = j
  \/ task[j] = "live" /\ attempts[j] < MaxAttempts
  \/ \E w \in Workers : pass[w].job = j

\* A job in flight that nobody is bound to move on has been hit by a crash, by
\* a statement that failed, or by a rejection: nothing else, no order of
\* deliveries and no dispatch error, leaves a job hanging.
InFlightHasOwner ==
  \A j \in JobIds :
    Active(j) /\ blame[j] \cap {"crash", "write", "rejected"} = {} => HasOwner(j)

\* When a job is still in flight, a newer job of its document was forced, or
\* made by a call that could not read the newest job (the call goes on as if
\* there were none), or whose check came before the job existed, or follows such
\* a one: StartProcessing and ResumeProcessing never start a second run knowingly.
OverlapNeedsStaleCheck ==
  \A a, b \in JobIds :
    a < b /\ Active(a) /\ job[b].doc = job[a].doc =>
      \E c \in (a + 1)..b :
        /\ job[c].doc = job[a].doc
        /\ job[c].origin = "force" \/ job[c].check = "unread" \/ job[c].basis < a

\* A job the auto-resume made when the newest job had failed has its retry count
\* by the time it can fail itself, so that a document is not resumed for ever,
\* unless the count could not be stamped or the failed job could not be read
\* again: then the count starts anew.
AutoResumeIsCounted ==
  \A j \in JobIds :
    job[j].origin = "auto" /\ job[j].over = "failed" /\ job[j].status # "queued"
      => job[j].retry > 0 \/ job[j].check = "unread" \/ "write" \in blame[j]

\* The retry count a pass read at its start is still the row's when it decides
\* between a requeue and a failure, unless two passes have claimed the job: only
\* then is the cap on requeues compared with a stale count, and exceeded.
StaleCountNeedsOverlap ==
  \A w \in Workers :
    pass[w].pc = "agent" /\ pass[w].retry # job[pass[w].job].retry
      => "race" \in blame[pass[w].job]

\* The mirror says a job has ended only when its row has, unless the statement
\* that should have ended it failed: the browser never stops watching a job
\* that is still in flight.
MirrorEndIsReal ==
  \A j \in JobIds :
    mirror[j] \in {"succeeded", "failed"} /\ "write" \notin blame[j] => ~Active(j)

\* The status the mirror should show.  RETRYABLE has no mirror of its own.
MirrorOf(status) == IF status = "retryable" THEN "running" ELSE status

\* Once nobody is writing a job, the mirror shows what the row says, unless a
\* write was lost, its writer died, a statement failed, or two wrote at once.
MirrorAgrees ==
  \A j \in JobIds :
    \/ blame[j] \cap {"crash", "write", "mirror", "race"} # {}
    \/ \E h \in Handlers : api[h].job = j
    \/ \E w \in Workers : pass[w].job = j
    \/ mirror[j] = MirrorOf(job[j].status)

\* A job that is in flight leaves it, unless a crash, a failed statement or a
\* rejection has hit it.
EverySubmissionSettles ==
  \A j \in JobIds :
    Active(j) ~> ~Active(j) \/ blame[j] \cap {"crash", "write", "rejected"} # {}

\* db/queries/documents.sql:136: a RETRYABLE job is let through, so a
\* redelivery re-runs it and resumes from its checkpoints.
RetryableIsResumed ==
  \A j \in JobIds : job[j].status = "retryable" ~> job[j].status # "retryable"

\* worker.go:121: a delivery of a running job is skipped, because a parallel
\* second pass would race the first against the same document.
NoParallelPass ==
  \A v, w \in Workers :
    pass[v].pc = "agent" /\ pass[w].pc = "agent" /\ pass[v].job = pass[w].job
      => v = w

=============================================================================
