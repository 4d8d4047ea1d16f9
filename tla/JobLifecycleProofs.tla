------------------------- MODULE JobLifecycleProofs -------------------------
(***************************************************************************)
(* What JobLifecycle guarantees for any number of documents, API calls,    *)
(* workers, jobs, deliveries, retries and faults.  One inductive           *)
(* invariant, Inv, carries nearly all: the types; where a row, a task and  *)
(* their handler and passes stand with each other; and, for each property  *)
(* of JobLifecycle, what has to hold in between for it to hold.  The retry *)
(* counts have two more of their own, and the mirror has one.              *)
(***************************************************************************)
EXTENDS JobLifecycle, TLAPS

\* The steps of a handler that has a job, and those before it gives the job
\* to the queue.
Making == {"setRetry", "notify", "plan", "execute"}
Holding == Making \cup {"fail", "failMirror"}

\* A row exists exactly when its identity has been given out.
RowsExist ==
  \A j \in JobIds :
    IF j <= created
    THEN job[j].status # "none" /\ job[j].doc \in Documents
    ELSE /\ job[j].status = "none" /\ job[j].doc = NoDocument /\ job[j].retry = 0
         /\ mirror[j] = "none"

\* A handler has a job exactly while it is at work on one, and alone.
CallsHaveJobs ==
  \A h \in Handlers :
    /\ IF api[h].pc \in Holding
       THEN api[h].job \in 1..created
       ELSE api[h].job = 0
    /\ api[h].pc \in {"recheck", "create"} => api[h].doc \in Documents

OneCallPerJob ==
  \A g, h \in Handlers : api[g].job = api[h].job /\ api[h].job # 0 => g = h

\* A task is for a job that exists, and it exists before its first delivery; it
\* does not exist while the handler is still making the job.
TasksHaveJobs ==
  \A j \in JobIds :
    /\ task[j] # "none" => j <= created
    /\ task[j] = "none" => attempts[j] = 0

PassesHaveTasks ==
  \A w \in Workers :
    IF pass[w].pc = "idle"
    THEN pass[w].job = 0
    ELSE pass[w].job \in 1..created /\ task[pass[w].job] # "none"

MadeBeforeTask ==
  \A h \in Handlers :
    api[h].pc \in Making =>
      task[api[h].job] = "none" /\ job[api[h].job].status = "queued"

\* A pass that has claimed its job finds it claimed.
PassesClaim ==
  \A w \in Workers :
    pass[w].pc \notin {"idle", "read", "approvals", "mark"} =>
      job[pass[w].job].status \notin {"none", "queued"}

\* A call about to create a job, unless it is forced or could not read the
\* newest job, saw a newest job that was not in flight, and still is not.
ChecksWereTrue ==
  \A h \in Handlers :
    /\ api[h].pc = "create" /\ api[h].kind # "force" /\ api[h].check # "unread"
    /\ api[h].basis # 0
    =>
      /\ api[h].basis \in 1..created
      /\ job[api[h].basis].doc = api[h].doc
      /\ ~ Active(api[h].basis)

\* An auto-resume over a failure will count it, is counting it, or has.
CountsAreKept ==
  /\ \A h \in Handlers :
       /\ /\ api[h].pc = "create" /\ api[h].kind = "auto" /\ api[h].over = "failed"
          /\ api[h].check # "unread"
          => api[h].retry > 0
       /\ api[h].pc = "setRetry" => api[h].retry > 0
  /\ \A j \in JobIds :
       job[j].origin = "auto" /\ job[j].over = "failed" /\ job[j].check # "unread" =>
         \/ job[j].retry > 0
         \/ "write" \in blame[j]
         \/ /\ job[j].status = "queued"
            /\ task[j] = "none"
            /\ \A h \in Handlers : api[h].job = j => api[h].pc = "setRetry"

\* The mirror is about to be told of an end only if the row has one.
EndsAreWritten ==
  /\ \A w \in Workers :
       /\ pass[w].pc = "completeMirror" => ~ Active(pass[w].job)
       /\ pass[w].pc = "failMirror" =>
            ~ Active(pass[w].job) \/ "write" \in blame[pass[w].job]
  /\ \A h \in Handlers :
       api[h].pc = "failMirror" =>
         ~ Active(api[h].job) \/ "write" \in blame[api[h].job]

\* Who will move on a job that nothing has gone wrong with.
Unharmed(j) == blame[j] \cap {"crash", "write", "rejected"} = {}

QueuedHasOwner ==
  \A j \in JobIds : job[j].status = "queued" /\ Unharmed(j) => HasOwner(j)

RunningHasPass ==
  \A j \in JobIds :
    job[j].status = "running" /\ Unharmed(j) =>
      \E w \in Workers :
        /\ pass[w].job = j
        /\ pass[w].pc \in {"markMirror", "agent", "requeue", "complete", "fail"}

Placed ==
  /\ RowsExist
  /\ CallsHaveJobs
  /\ OneCallPerJob
  /\ TasksHaveJobs
  /\ PassesHaveTasks
  /\ MadeBeforeTask
  /\ PassesClaim

Shape == TypeOK /\ Placed

Inv ==
  /\ Shape
  /\ ChecksWereTrue
  /\ OverlapNeedsStaleCheck
  /\ CountsAreKept
  /\ EndsAreWritten
  /\ MirrorEndIsReal
  /\ QueuedHasOwner
  /\ RunningHasPass

-----------------------------------------------------------------------------
(* Types.                                                                  *)

\* A handler at work on a job has one of the jobs.
LEMMA ActiveCalls ==
  ASSUME Shape, NEW h \in Handlers, api[h].pc \in Holding
  PROVE  api[h].job \in JobIds
BY BoundsAssumption DEF Shape, Placed, CallsHaveJobs, TypeOK, JobIds

\* So has a pass at work.
LEMMA ActivePasses ==
  ASSUME Shape, NEW w \in Workers, pass[w].pc # "idle"
  PROVE  pass[w].job \in JobIds
BY BoundsAssumption DEF Shape, Placed, PassesHaveTasks, TypeOK, JobIds

\* The empty row, call and pass have the types of a row, a call and a pass.
LEMMA Blanks == NoRow \in Row /\ NoCall \in Call /\ NoPass \in Pass
BY BoundsAssumption DEF NoRow, NoCall, NoPass, Row, Call, CallSteps, Pass, PassSteps,
   Statuses, Origins, Checks

\* The initial state is well typed.
LEMMA TypeInit == Init => TypeOK
BY BoundsAssumption, Blanks DEF Init, TypeOK

\* What the helpers of the actions do to the types.
LEMMA SetStatusType ==
  ASSUME TypeOK, NEW j \in JobIds, NEW s \in Statuses, SetStatus(j, s)
  PROVE  job' \in [JobIds -> Row]
BY SMTT(30) DEF SetStatus, TypeOK, Row

\* Nor does stamping a retry count change the type of the rows.
LEMMA SetRetryType ==
  ASSUME TypeOK, NEW j \in JobIds, NEW n \in Nat
  PROVE  [job EXCEPT ![j].retry = n] \in [JobIds -> Row]
BY DEF TypeOK, Row

\* Nor does a requeue.
LEMMA RequeueType ==
  ASSUME TypeOK, NEW j \in JobIds
  PROVE  [job EXCEPT ![j].status = "retryable", ![j].retry = @ + 1] \in [JobIds -> Row]
<1>1. job[j] \in Row /\ job[j].retry + 1 \in Nat
  BY DEF TypeOK, Row
<1>2. ASSUME NEW row \in Row, NEW n \in Nat
      PROVE  [row EXCEPT !.status = "retryable", !.retry = n] \in Row
  BY DEF Row, Statuses
<1>3. [job[j] EXCEPT !.status = "retryable", !.retry = job[j].retry + 1] \in Row
  BY <1>1, <1>2
<1>4. QED
  BY <1>3 DEF TypeOK

\* A handler that moves on, or ends, stays a handler.
LEMMA CallMoves ==
  ASSUME TypeOK, NEW h \in Handlers, NEW pc \in CallSteps
  PROVE  /\ [api EXCEPT ![h].pc = pc] \in [Handlers -> Call]
         /\ [api EXCEPT ![h] = NoCall] \in [Handlers -> Call]
BY Blanks DEF TypeOK, Call

\* A pass that moves on stays a pass.
LEMMA PassMoves ==
  ASSUME TypeOK, NEW w \in Workers, NEW pc \in PassSteps
  PROVE  [pass EXCEPT ![w].pc = pc] \in [Workers -> Pass]
BY DEF TypeOK, Pass

\* So does a pass that has read its job.
LEMMA PassReads ==
  ASSUME TypeOK, NEW w \in Workers, NEW n \in Nat
  PROVE  [pass EXCEPT ![w].pc = "approvals", ![w].retry = n] \in [Workers -> Pass]
BY DEF TypeOK, Pass, PassSteps

\* A fault is counted and remembered with the right types.
LEMMA FaultType ==
  ASSUME TypeOK, NEW j, NEW what \in Blames, NoFault \/ Fault(j, what)
  PROVE  faults' \in Nat /\ blame' \in [JobIds -> SUBSET Blames]
BY DEF Fault, NoFault, TypeOK

\* So is an answer to the queue.
LEMMA AnswerType ==
  ASSUME TypeOK, NEW w \in Workers, NEW ok \in BOOLEAN, Answer(w, ok)
  PROVE  pass' \in [Workers -> Pass] /\ task' \in [JobIds -> {"none", "live", "done"}]
BY Blanks DEF Answer, TypeOK

\* A write to the mirror, landed or lost, leaves it well typed.
LEMMA MirrorWriteType ==
  ASSUME TypeOK, NEW j, NEW s \in {"queued", "running", "succeeded", "failed"},
         MirrorWrite(j, s)
  PROVE  /\ mirror' \in [JobIds -> {"none", "queued", "running", "succeeded", "failed"}]
         /\ faults' \in Nat /\ blame' \in [JobIds -> SUBSET Blames]
BY FaultType DEF MirrorWrite, TypeOK, Blames

\* Every step keeps every variable's type.
LEMMA TypeStep == Shape /\ [Next]_vars => TypeOK'
<1> SUFFICES ASSUME Shape, [Next]_vars PROVE TypeOK'
  OBVIOUS
<1> USE BoundsAssumption, Blanks
<1>0. /\ TypeOK
      /\ \A h \in Handlers : api[h].pc \in Holding => api[h].job \in JobIds
      /\ \A w \in Workers : pass[w].pc # "idle" => pass[w].job \in JobIds
  BY ActiveCalls, ActivePasses DEF Shape
<1>1. ASSUME NEW h \in Handlers, NEW d \in Documents, NEW kind \in Origins,
             NEW j \in 0..MaxJobs, NEW check \in Checks, MustCreate(h, d, kind, j, check)
      PROVE  api' \in [Handlers -> Call]
  <2>1. StatusOf(j) \in Statuses /\ (StatusOf(j) = "failed" => job[j].retry + 1 \in Nat)
    BY <1>0 DEF StatusOf, TypeOK, Row, JobIds, Statuses
  <2> DEFINE retry == IF kind \in {"resume", "auto"} /\ check = "read"
                           /\ StatusOf(j) = "failed"
                      THEN job[j].retry + 1 ELSE 0
  <2>2. retry \in Nat
    BY <2>1
  <2>3. [NoCall EXCEPT !.pc = "create", !.kind = kind, !.doc = d, !.check = check,
                       !.basis = j, !.over = StatusOf(j), !.retry = retry] \in Call
    BY <2>1, <2>2 DEF Call, CallSteps
  <2>4. QED
    BY <1>0, <1>1, <2>3 DEF MustCreate, TypeOK
<1>2. ASSUME NEW h \in Handlers, NEW d \in Documents,
             StartProcessing(h, d) \/ ForceReprocess(h, d) \/ ResumeProcessing(h, d)
      PROVE  TypeOK'
  <2>1. api' \in [Handlers -> Call]
    BY <1>1, <1>2
    DEF StartProcessing, ForceReprocess, ResumeProcessing, CheckNewest, Origins, Checks
  <2>2. NoFault \/ Fault(0, "write")
    BY <1>2 DEF StartProcessing, ForceReprocess, ResumeProcessing, CheckNewest, NoFault
  <2>3. faults' \in Nat /\ blame' \in [JobIds -> SUBSET Blames]
    BY <1>0, <2>2, FaultType DEF Blames
  <2>4. QED
    BY <1>0, <1>2, <2>1, <2>3 DEF StartProcessing, ForceReprocess, ResumeProcessing, TypeOK
<1>3. ASSUME NEW h \in Handlers, NEW d \in Documents, AutoResumeScan(h, d)
      PROVE  TypeOK'
  BY <1>0, <1>3 DEF AutoResumeScan, TypeOK, Call, CallSteps, Statuses, Origins
<1>4. ASSUME NEW h \in Handlers, AutoResumeRecheck(h)
      PROVE  TypeOK'
  <2>1. api[h].doc \in Documents
    BY <1>4 DEF AutoResumeRecheck, Shape, Placed, CallsHaveJobs
  <2>2. api' \in [Handlers -> Call]
    BY <1>0, <1>1, <1>4, <2>1
    DEF AutoResumeRecheck, CheckNewest, TypeOK, Call, CallSteps, Statuses, Origins, Checks
  <2>3. NoFault \/ Fault(0, "write")
    BY <1>4 DEF AutoResumeRecheck, CheckNewest
  <2>4. faults' \in Nat /\ blame' \in [JobIds -> SUBSET Blames]
    BY <1>0, <2>3, FaultType DEF Blames
  <2>5. QED
    BY <1>0, <1>4, <2>2, <2>4 DEF AutoResumeRecheck, TypeOK
<1>5. ASSUME NEW h \in Handlers, CreateProcessingJob(h)
      PROVE  TypeOK'
  <2>1. job' \in [JobIds -> Row]
    BY <1>0, <1>5 DEF CreateProcessingJob, TypeOK, Row, Call, Statuses, Origins, JobIds
  <2> DEFINE pc == IF api[h].retry > 0 THEN "setRetry" ELSE "notify"
  <2>2. [NoCall EXCEPT !.job = created + 1, !.retry = api[h].retry, !.pc = pc] \in Call
    <3>1. pc \in {"setRetry", "notify"} /\ created + 1 \in 0..MaxJobs /\ api[h].retry \in Nat
      BY <1>0, <1>5 DEF CreateProcessingJob, TypeOK, Call
    <3> HIDE DEF pc
    <3>2. QED
      BY <3>1 DEF Call, CallSteps
  <2>3. api' \in [Handlers -> Call]
    BY <1>0, <1>5, <2>2 DEF CreateProcessingJob, TypeOK
  <2>4. QED
    BY <1>0, <1>5, <2>1, <2>3 DEF CreateProcessingJob, TypeOK
<1>6. ASSUME NEW h \in Handlers, SetProcessingJobRetryCount(h)
      PROVE  TypeOK'
  <2>1. api[h].job \in JobIds /\ api[h].retry \in Nat
    BY <1>0, <1>6 DEF SetProcessingJobRetryCount, TypeOK, Call, Holding, Making
  <2>2. job' \in [JobIds -> Row]
    BY <1>0, <1>6, <2>1, SetRetryType DEF SetProcessingJobRetryCount, TypeOK
  <2>3. api' \in [Handlers -> Call]
    <3>1. CASE api' = [api EXCEPT ![h].pc = "notify"]
      BY <1>0, <3>1, CallMoves DEF CallSteps
    <3>2. CASE api' = [api EXCEPT ![h] = NoCall]
      BY <1>0, <3>2, CallMoves DEF CallSteps
    <3>3. QED
      BY <1>6, <3>1, <3>2 DEF SetProcessingJobRetryCount
  <2>4. faults' \in Nat /\ blame' \in [JobIds -> SUBSET Blames]
    BY <1>0, <1>6, FaultType DEF SetProcessingJobRetryCount, Blames
  <2>5. QED
    BY <1>0, <1>6, <2>2, <2>3, <2>4 DEF SetProcessingJobRetryCount, TypeOK
<1>7. ASSUME NEW h \in Handlers,
             NotifyQueued(h) \/ GenerateExecutionPlan(h) \/ ExecuteApprovedPlan(h)
               \/ TryFail(h) \/ TryFailNotify(h) \/ HandlerCrash(h)
      PROVE  TypeOK'
  <2>1. api' \in [Handlers -> Call]
    <3>1. CASE \E pc \in CallSteps : api' = [api EXCEPT ![h].pc = pc]
      BY <1>0, <3>1, CallMoves
    <3>2. CASE api' = [api EXCEPT ![h] = NoCall]
      BY <1>0, <3>2, CallMoves DEF CallSteps
    <3>3. QED
      BY <1>7, <3>1, <3>2 DEF NotifyQueued, GenerateExecutionPlan, ExecuteApprovedPlan,
         TryFail, TryFailNotify, HandlerCrash, CallSteps
  <2>2. job' \in [JobIds -> Row]
    BY <1>0, <1>7, SetStatusType DEF NotifyQueued, GenerateExecutionPlan,
       ExecuteApprovedPlan, TryFail, TryFailNotify, HandlerCrash, TypeOK, Statuses, Holding
  <2>3. faults' \in Nat /\ blame' \in [JobIds -> SUBSET Blames]
    BY <1>0, <1>7, FaultType, MirrorWriteType DEF NotifyQueued, GenerateExecutionPlan,
       ExecuteApprovedPlan, TryFail, TryFailNotify, HandlerCrash, Blames
  <2>4. mirror' \in [JobIds -> {"none", "queued", "running", "succeeded", "failed"}]
    BY <1>0, <1>7, MirrorWriteType DEF NotifyQueued, GenerateExecutionPlan,
       ExecuteApprovedPlan, TryFail, TryFailNotify, HandlerCrash, TypeOK
  <2>5. task' \in [JobIds -> {"none", "live", "done"}]
    BY <1>0, <1>7 DEF NotifyQueued, GenerateExecutionPlan, ExecuteApprovedPlan, TryFail,
       TryFailNotify, HandlerCrash, TypeOK
  <2>6. QED
    BY <1>0, <1>7, <2>1, <2>2, <2>3, <2>4, <2>5 DEF NotifyQueued, GenerateExecutionPlan,
       ExecuteApprovedPlan, TryFail, TryFailNotify, HandlerCrash, TypeOK
<1>8. ASSUME NEW j \in JobIds, RejectJobApproval(j) \/ ApproveJobApproval(j)
      PROVE  TypeOK'
  BY <1>0, <1>8 DEF RejectJobApproval, ApproveJobApproval, TypeOK
<1>9. ASSUME NEW w \in Workers, NEW j \in JobIds, Deliver(w, j)
      PROVE  TypeOK'
  <2>1. [NoPass EXCEPT !.pc = "read", !.job = j] \in Pass
    <3>1. j \in 0..MaxJobs
      BY DEF JobIds
    <3>2. QED
      BY <3>1 DEF Pass, PassSteps
  <2>2. QED
    BY <1>0, <1>9, <2>1 DEF Deliver, TypeOK
<1>10. ASSUME NEW w \in Workers, ReadJob(w)
       PROVE  TypeOK'
  <2>1. job[pass[w].job].retry \in Nat
    BY <1>0, <1>10 DEF ReadJob, TypeOK, Row
  <2>2. pass' \in [Workers -> Pass] /\ task' \in [JobIds -> {"none", "live", "done"}]
    <3>1. CASE Answer(w, TRUE) \/ Answer(w, FALSE)
      BY <1>0, <3>1, AnswerType
    <3>2. CASE pass' = [pass EXCEPT ![w].pc = "approvals", ![w].retry = job[pass[w].job].retry]
               /\ task' = task
      BY <1>0, <2>1, <3>2, PassReads DEF TypeOK
    <3>3. QED
      BY <1>10, <3>1, <3>2 DEF ReadJob
  <2>3. faults' \in Nat /\ blame' \in [JobIds -> SUBSET Blames]
    BY <1>0, <1>10, FaultType DEF ReadJob, Blames
  <2>4. QED
    BY <1>0, <1>10, <2>2, <2>3 DEF ReadJob, TypeOK
<1>11. ASSUME NEW w \in Workers, CheckApprovals(w) \/ MarkRunning(w)
       PROVE  TypeOK'
  <2>1. pass[w].job \in JobIds
    BY <1>0, <1>11 DEF CheckApprovals, MarkRunning
  <2>2. pass' \in [Workers -> Pass] /\ task' \in [JobIds -> {"none", "live", "done"}]
    <3>1. CASE \E final \in BOOLEAN : Answer(w, final)
      BY <1>0, <3>1, AnswerType
    <3>2. CASE /\ \E pc \in PassSteps : pass' = [pass EXCEPT ![w].pc = pc]
               /\ task' = task
      BY <1>0, <3>2, PassMoves DEF TypeOK
    <3>3. QED
      BY <1>11, <3>1, <3>2 DEF CheckApprovals, MarkRunning, PassSteps
  <2>3. job' \in [JobIds -> Row]
    BY <1>0, <1>11, <2>1, SetStatusType DEF CheckApprovals, MarkRunning, TypeOK, Statuses
  <2>4. faults' \in Nat /\ blame' \in [JobIds -> SUBSET Blames]
    <3>1. CASE NoFault \/ Fault(0, "write") \/ Fault(pass[w].job, "write")
      BY <1>0, <3>1, FaultType DEF Blames
    <3>2. CASE \E what \in Blames : /\ blame' = [blame EXCEPT ![pass[w].job] = @ \cup {what}]
                                   /\ faults' = faults
      BY <1>0, <2>1, <3>2 DEF TypeOK
    <3>3. QED
      <4>1. "race" \in Blames /\ "rejected" \in Blames
        BY DEF Blames
      <4>2. QED
        BY <1>11, <3>1, <3>2, <4>1 DEF CheckApprovals, MarkRunning, NoFault
  <2>5. QED
    BY <1>0, <1>11, <2>2, <2>3, <2>4 DEF CheckApprovals, MarkRunning, TypeOK
<1>12. ASSUME NEW w \in Workers,
              RequeueProcessingJobForRetry(w) \/ CompleteProcessingJob(w)
                \/ FailProcessingJob(w)
       PROVE  TypeOK'
  <2>1. pass[w].job \in JobIds
    BY <1>0, <1>12
    DEF RequeueProcessingJobForRetry, CompleteProcessingJob, FailProcessingJob
  <2>2. pass' \in [Workers -> Pass] /\ task' \in [JobIds -> {"none", "live", "done"}]
    <3>1. CASE Answer(w, FALSE)
      BY <1>0, <3>1, AnswerType
    <3>2. CASE /\ \E pc \in PassSteps : pass' = [pass EXCEPT ![w].pc = pc]
               /\ task' = task
      BY <1>0, <3>2, PassMoves DEF TypeOK
    <3>3. QED
      BY <1>12, <3>1, <3>2
      DEF RequeueProcessingJobForRetry, CompleteProcessingJob, FailProcessingJob, PassSteps
  <2>3. job' \in [JobIds -> Row]
    <3>1. CASE SetStatus(pass[w].job, "succeeded") \/ SetStatus(pass[w].job, "failed")
      BY <1>0, <2>1, <3>1, SetStatusType DEF Statuses
    <3>2. CASE job' = [job EXCEPT ![pass[w].job].status = "retryable",
                                  ![pass[w].job].retry = @ + 1]
      BY <1>0, <2>1, <3>2, RequeueType
    <3>3. CASE job' = job
      BY <1>0, <3>3 DEF TypeOK
    <3>4. QED
      BY <1>12, <3>1, <3>2, <3>3
      DEF RequeueProcessingJobForRetry, CompleteProcessingJob, FailProcessingJob
  <2>4. faults' \in Nat /\ blame' \in [JobIds -> SUBSET Blames]
    BY <1>0, <1>12, FaultType
    DEF RequeueProcessingJobForRetry, CompleteProcessingJob, FailProcessingJob, Blames
  <2>5. QED
    BY <1>0, <1>12, <2>2, <2>3, <2>4
    DEF RequeueProcessingJobForRetry, CompleteProcessingJob, FailProcessingJob, TypeOK
<1>13. ASSUME NEW w \in Workers,
              MarkRunningNotify(w) \/ ProcessDocument(w) \/ CompleteNotify(w)
                \/ FailNotify(w) \/ WorkerCrash(w)
       PROVE  TypeOK'
  <2>1. pass' \in [Workers -> Pass] /\ task' \in [JobIds -> {"none", "live", "done"}]
    <3>1. CASE Answer(w, TRUE) \/ Answer(w, FALSE)
      BY <1>0, <3>1, AnswerType
    <3>2. CASE /\ \E pc \in PassSteps : pass' = [pass EXCEPT ![w].pc = pc]
               /\ task' = task
      BY <1>0, <3>2, PassMoves DEF TypeOK
    <3>3. QED
      BY <1>13, <3>1, <3>2
      DEF MarkRunningNotify, ProcessDocument, CompleteNotify, FailNotify, WorkerCrash,
          PassSteps
  <2>2. mirror' \in [JobIds -> {"none", "queued", "running", "succeeded", "failed"}]
    BY <1>0, <1>13, MirrorWriteType
    DEF MarkRunningNotify, ProcessDocument, CompleteNotify, FailNotify, WorkerCrash, TypeOK
  <2>3. faults' \in Nat /\ blame' \in [JobIds -> SUBSET Blames]
    BY <1>0, <1>13, FaultType, MirrorWriteType
    DEF MarkRunningNotify, ProcessDocument, CompleteNotify, FailNotify, WorkerCrash, TypeOK,
        Blames
  <2>4. QED
    BY <1>0, <1>13, <2>1, <2>2, <2>3
    DEF MarkRunningNotify, ProcessDocument, CompleteNotify, FailNotify, WorkerCrash, TypeOK
<1>14. CASE UNCHANGED vars
  BY <1>0, <1>14 DEF vars, TypeOK
<1>15. QED
  BY <1>2, <1>3, <1>4, <1>5, <1>6, <1>7, <1>8, <1>9, <1>10, <1>11, <1>12, <1>13, <1>14
  DEF Next, HandlerStep, WorkerStep

-----------------------------------------------------------------------------
(* Effects, field by field: what an assignment to a call, a row or a pass  *)
(* changes, and that it changes nothing else.                              *)

\* Actions that are alike in what the proofs need of them.
Begin(h, d) == StartProcessing(h, d) \/ ForceReprocess(h, d) \/ ResumeProcessing(h, d)
Late(h) == NotifyQueued(h) \/ GenerateExecutionPlan(h) \/ TryFailNotify(h) \/ HandlerCrash(h)
Quiet(w) ==
  \/ ReadJob(w) \/ CheckApprovals(w) \/ MarkRunningNotify(w) \/ ProcessDocument(w)
  \/ CompleteNotify(w) \/ FailNotify(w) \/ WorkerCrash(w)
Settle(w) ==
  RequeueProcessingJobForRetry(w) \/ CompleteProcessingJob(w) \/ FailProcessingJob(w)
Decide(j) == RejectJobApproval(j) \/ ApproveJobApproval(j)

CallKept(g) ==
  /\ api'[g].pc = api[g].pc /\ api'[g].kind = api[g].kind /\ api'[g].doc = api[g].doc
  /\ api'[g].job = api[g].job /\ api'[g].check = api[g].check
  /\ api'[g].basis = api[g].basis
  /\ api'[g].over = api[g].over /\ api'[g].retry = api[g].retry

CallMoved(h, pc) ==
  /\ \A g \in Handlers \ {h} : CallKept(g)
  /\ api'[h].pc = pc /\ api'[h].job = api[h].job /\ api'[h].retry = api[h].retry

CallEnded(h) ==
  /\ \A g \in Handlers \ {h} : CallKept(g)
  /\ api'[h].pc = "idle" /\ api'[h].job = 0

RowKept(i) ==
  /\ job'[i].doc = job[i].doc /\ job'[i].status = job[i].status
  /\ job'[i].retry = job[i].retry /\ job'[i].origin = job[i].origin
  /\ job'[i].basis = job[i].basis /\ job'[i].over = job[i].over
  /\ job'[i].check = job[i].check

RowSet(j, state, n) ==
  /\ \A i \in JobIds \ {j} : RowKept(i)
  /\ job'[j].status = state /\ job'[j].retry = n
  /\ job'[j].doc = job[j].doc /\ job'[j].origin = job[j].origin
  /\ job'[j].basis = job[j].basis /\ job'[j].over = job[j].over
  /\ job'[j].check = job[j].check

PassKept(v) ==
  pass'[v].pc = pass[v].pc /\ pass'[v].job = pass[v].job

PassMoved(w, pc) ==
  /\ \A v \in Workers \ {w} : PassKept(v)
  /\ pass'[w].pc = pc /\ pass'[w].job = pass[w].job

PassEnded(w) ==
  /\ \A v \in Workers \ {w} : PassKept(v)
  /\ pass'[w].pc = "idle" /\ pass'[w].job = 0

\* What has gone wrong with a job is not forgotten.
BlameKept == \A j \in JobIds : blame[j] \subseteq blame'[j]

\* Moving a handler on changes its step alone.
LEMMA CallMovedBy ==
  ASSUME TypeOK, NEW h \in Handlers, NEW pc, api' = [api EXCEPT ![h].pc = pc]
  PROVE  CallMoved(h, pc)
BY DEF TypeOK, Call, CallMoved, CallKept

\* Ending a handler leaves the others as they are.
LEMMA CallEnds ==
  ASSUME TypeOK, NEW h \in Handlers, api' = [api EXCEPT ![h] = NoCall]
  PROVE  CallEnded(h)
BY DEF TypeOK, Call, CallEnded, CallKept, NoCall

\* Writing a status changes that status alone.
LEMMA RowSets ==
  ASSUME TypeOK, NEW j \in JobIds, NEW s, job' = [job EXCEPT ![j].status = s]
  PROVE  RowSet(j, s, job[j].retry)
BY DEF TypeOK, Row, RowSet, RowKept

\* Stamping a retry count changes that count alone.
LEMMA RowStamps ==
  ASSUME TypeOK, NEW j \in JobIds, NEW n, job' = [job EXCEPT ![j].retry = n]
  PROVE  RowSet(j, job[j].status, n)
BY DEF TypeOK, Row, RowSet, RowKept

\* A requeue changes the status and counts one.
LEMMA RowRequeues ==
  ASSUME TypeOK, NEW j \in JobIds,
         job' = [job EXCEPT ![j].status = "retryable", ![j].retry = @ + 1]
  PROVE  RowSet(j, "retryable", job[j].retry + 1)
BY DEF TypeOK, Row, RowSet, RowKept

\* Moving a pass on changes its step alone.
LEMMA PassMovedBy ==
  ASSUME TypeOK, NEW w \in Workers, NEW pc, pass' = [pass EXCEPT ![w].pc = pc]
  PROVE  PassMoved(w, pc)
BY DEF TypeOK, Pass, PassMoved, PassKept

\* Reading the job moves the pass on.
LEMMA PassReadsBy ==
  ASSUME TypeOK, NEW w \in Workers, NEW n,
         pass' = [pass EXCEPT ![w].pc = "approvals", ![w].retry = n]
  PROVE  PassMoved(w, "approvals")
BY DEF TypeOK, Pass, PassMoved, PassKept

\* An answered pass is free again.
LEMMA PassEnds ==
  ASSUME TypeOK, NEW w \in Workers, NEW ok, Answer(w, ok)
  PROVE  PassEnded(w)
BY DEF TypeOK, Pass, PassEnded, PassKept, NoPass, Answer

\* The mirror of one job shows a state, unless the write is lost.
MirrorTold(j, state) ==
  \A i \in JobIds : mirror'[i] = mirror[i] \/ (i = j /\ mirror'[i] = state)

\* A write to the mirror reaches no other job's.
LEMMA MirrorWrites ==
  ASSUME TypeOK, NEW j, NEW state, MirrorWrite(j, state)
  PROVE  MirrorTold(j, state) /\ BlameKept
BY DEF MirrorWrite, MirrorTold, TypeOK, Fault, NoFault, BlameKept

\* A fault adds to what has gone wrong.
LEMMA FaultKept ==
  ASSUME TypeOK, NEW j, NEW what, NoFault \/ Fault(j, what)
  PROVE  BlameKept
BY DEF Fault, NoFault, BlameKept, TypeOK

\* A fault is remembered against its job.
LEMMA FaultBlames ==
  ASSUME TypeOK, NEW j \in JobIds, NEW what, Fault(j, what)
  PROVE  what \in blame'[j]
BY DEF Fault, TypeOK

\* A fault that hits no job blames none.
LEMMA FaultNowhere ==
  ASSUME TypeOK, NEW what, Fault(0, what)
  PROVE  blame' = blame
<1>1. 0 \notin JobIds
  BY BoundsAssumption DEF JobIds
<1>2. QED
  BY <1>1 DEF Fault, TypeOK

\* A call that must create a job has found nothing in flight, unless it is
\* forced or could not look, and will count a resumed failure it has read.
CallBegun(h, d) ==
  /\ \A g \in Handlers \ {h} : CallKept(g)
  /\ api'[h].pc = "create" /\ api'[h].job = 0 /\ api'[h].doc = d
  /\ api'[h].kind # "force" /\ api'[h].check # "unread" /\ api'[h].basis # 0 =>
       api'[h].basis \in JobsOf(d) /\ ~ Active(api'[h].basis)
  /\ api'[h].kind = "auto" /\ api'[h].over = "failed" /\ api'[h].check # "unread" =>
       api'[h].retry > 0

\* MustCreate begins a call as described, given the check its caller made.
LEMMA Begins ==
  ASSUME TypeOK, NEW h \in Handlers, NEW d \in Documents, NEW kind \in Origins,
         NEW j \in 0..MaxJobs, NEW check \in Checks, MustCreate(h, d, kind, j, check),
         kind # "force" /\ check # "unread" =>
           /\ check = "read"
           /\ IsLatest(d, j) /\ StatusOf(j) \notin {"queued", "running"},
         kind = "force" => j = 0
  PROVE  CallBegun(h, d)
<1>1. /\ \A g \in Handlers \ {h} : api'[g] = api[g]
      /\ api'[h].pc = "create" /\ api'[h].job = 0 /\ api'[h].doc = d
      /\ api'[h].kind = kind /\ api'[h].basis = j /\ api'[h].over = StatusOf(j)
      /\ api'[h].check = check
      /\ api'[h].retry = IF kind \in {"resume", "auto"} /\ check = "read"
                            /\ StatusOf(j) = "failed"
                         THEN job[j].retry + 1 ELSE 0
  BY Blanks DEF MustCreate, TypeOK, Call, NoCall
<1>2. StatusOf(j) = "failed" => job[j].retry \in Nat
  BY DEF StatusOf, TypeOK, Row, JobIds
<1>3. kind # "force" /\ check # "unread" /\ j # 0 => j \in JobsOf(d) /\ ~ Active(j)
  BY DEF IsLatest, Active, StatusOf
<1>4. QED
  BY <1>1, <1>2, <1>3 DEF CallBegun, CallKept

\* The check of a call that is not forced ends in such a beginning.
LEMMA CheckBegins ==
  ASSUME TypeOK, NEW h \in Handlers, NEW d \in Documents,
         NEW kind \in Origins \ {"force"}, NEW returned,
         {"queued", "running"} \subseteq returned,
         CheckNewest(h, d, kind, returned)
  PROVE  CallBegun(h, d) /\ blame' = blame
<1>1. PICK j \in 0..MaxJobs :
        /\ IsLatest(d, j)
        /\ \/ /\ StatusOf(j) \notin returned
              /\ MustCreate(h, d, kind, j, "read")
              /\ NoFault
           \/ MustCreate(h, d, kind, j, "unread") /\ Fault(0, "write")
  BY DEF CheckNewest
<1>2. blame' = blame
  BY <1>1, FaultNowhere DEF NoFault
<1>3. CASE StatusOf(j) \notin returned /\ MustCreate(h, d, kind, j, "read")
  <2>1. "read" \in Checks /\ StatusOf(j) \notin {"queued", "running"}
    BY <1>3 DEF Checks
  <2>2. CallBegun(h, d)
    BY <1>1, <1>3, <2>1, Begins
  <2>3. QED
    BY <1>2, <2>2
<1>4. CASE MustCreate(h, d, kind, j, "unread")
  <2>1. "unread" \in Checks
    BY DEF Checks
  <2>2. CallBegun(h, d)
    BY <1>4, <2>1, Begins
  <2>3. QED
    BY <1>2, <2>2
<1>5. QED
  BY <1>1, <1>3, <1>4

\* A call of StartProcessing or ResumeProcessing that goes on to create a job.
LEMMA BeginEffect ==
  ASSUME Shape, NEW h \in Handlers, NEW d \in Documents, Begin(h, d)
  PROVE  /\ api[h].pc = "idle" /\ CallBegun(h, d)
         /\ UNCHANGED <<created, job, mirror, task, attempts, pass, blame>>
<1>0. TypeOK
  BY DEF Shape
<1>1. CASE StartProcessing(h, d)
  <2>1. "start" \in Origins \ {"force"} /\ {"queued", "running"} \subseteq ReturnedByStart
    BY DEF Origins, ReturnedByStart
  <2>2. QED
    BY <1>0, <1>1, <2>1, CheckBegins DEF StartProcessing
<1>2. CASE ForceReprocess(h, d)
  <2>1. "force" \in Origins /\ "none" \in Checks /\ 0 \in 0..MaxJobs
    BY BoundsAssumption DEF Origins, Checks
  <2>2. QED
    BY <1>0, <1>2, <2>1, Begins DEF ForceReprocess
<1>3. CASE ResumeProcessing(h, d)
  <2>1. /\ "resume" \in Origins \ {"force"}
        /\ {"queued", "running"} \subseteq ReturnedByResume
    BY DEF Origins, ReturnedByResume
  <2>2. QED
    BY <1>0, <1>3, <2>1, CheckBegins DEF ResumeProcessing
<1>4. QED
  BY <1>1, <1>2, <1>3 DEF Begin, StartProcessing, ForceReprocess, ResumeProcessing

\* The scan of the auto-resume.
LEMMA ScanEffect ==
  ASSUME Shape, NEW h \in Handlers, NEW d \in Documents, AutoResumeScan(h, d)
  PROVE  /\ api[h].pc = "idle"
         /\ \A g \in Handlers \ {h} : CallKept(g)
         /\ api'[h].pc = "recheck" /\ api'[h].job = 0 /\ api'[h].doc = d
         /\ UNCHANGED <<created, job, mirror, task, attempts, pass, blame>>
BY DEF AutoResumeScan, Shape, TypeOK, Call, NoCall, CallKept

\* The ResumeProcessing the auto-resume calls.
LEMMA RecheckEffect ==
  ASSUME Shape, NEW h \in Handlers, AutoResumeRecheck(h)
  PROVE  /\ CallEnded(h) \/ CallBegun(h, api[h].doc)
         /\ api[h].pc = "recheck" /\ api[h].doc \in Documents
         /\ UNCHANGED <<created, job, mirror, task, attempts, pass, blame>>
<1>1. TypeOK /\ api[h].doc \in Documents
  BY DEF Shape, Placed, CallsHaveJobs, AutoResumeRecheck
<1>2. CASE CheckNewest(h, api[h].doc, "auto", ReturnedByResume)
  <2>1. /\ "auto" \in Origins \ {"force"}
        /\ {"queued", "running"} \subseteq ReturnedByResume
    BY DEF Origins, ReturnedByResume
  <2>2. CallBegun(h, api[h].doc) /\ blame' = blame
    BY <1>1, <1>2, <2>1, CheckBegins
  <2>3. QED
    BY <1>1, <2>2 DEF AutoResumeRecheck
<1>3. CASE api' = [api EXCEPT ![h] = NoCall] /\ NoFault
  BY <1>1, <1>3, CallEnds DEF AutoResumeRecheck, NoFault
<1>4. QED
  BY <1>2, <1>3 DEF AutoResumeRecheck

\* The INSERT of a job.
LEMMA CreateEffect ==
  ASSUME Shape, NEW h \in Handlers, CreateProcessingJob(h)
  PROVE  /\ created + 1 \in JobIds
         /\ \A i \in JobIds \ {created + 1} : job'[i] = job[i]
         /\ job'[created + 1].status = "queued" /\ job'[created + 1].retry = 0
         /\ job'[created + 1].doc = api[h].doc /\ job'[created + 1].origin = api[h].kind
         /\ job'[created + 1].basis = api[h].basis /\ job'[created + 1].over = api[h].over
         /\ job'[created + 1].check = api[h].check
         /\ \A g \in Handlers \ {h} : CallKept(g)
         /\ api'[h].job = created + 1 /\ api'[h].retry = api[h].retry
         /\ api'[h].pc = IF api[h].retry > 0 THEN "setRetry" ELSE "notify"
         /\ api[h].pc = "create" /\ created' = created + 1 /\ created < MaxJobs
         /\ UNCHANGED <<mirror, task, attempts, pass, blame>>
<1>1. created + 1 \in JobIds
  BY BoundsAssumption DEF CreateProcessingJob, Shape, TypeOK, JobIds
<1>2. QED
  BY <1>1 DEF CreateProcessingJob, Shape, TypeOK, NoRow, NoCall, Call, Row, CallKept

\* The retry count is stamped, or its failure is remembered.
LEMMA SetRetryEffect ==
  ASSUME Shape, NEW h \in Handlers, SetProcessingJobRetryCount(h)
  PROVE  /\ api[h].job \in JobIds
         /\ BlameKept
         /\ api[h].pc = "setRetry"
         /\ UNCHANGED <<created, mirror, task, attempts, pass>>
         /\ \/ /\ RowSet(api[h].job, job[api[h].job].status, api[h].retry)
               /\ CallMoved(h, "notify")
            \/ /\ CallEnded(h)
               /\ job' = job
               /\ "write" \in blame'[api[h].job]
<1>1. TypeOK /\ api[h].job \in JobIds
  BY ActiveCalls DEF Shape, SetProcessingJobRetryCount, Holding, Making
<1>2. CASE job' = [job EXCEPT ![api[h].job].retry = api[h].retry]
           /\ api' = [api EXCEPT ![h].pc = "notify"] /\ NoFault
  BY <1>1, <1>2, RowStamps, CallMovedBy, FaultKept DEF SetProcessingJobRetryCount
<1>3. CASE api' = [api EXCEPT ![h] = NoCall] /\ Fault(api[h].job, "write") /\ job' = job
  BY <1>1, <1>3, CallEnds, FaultKept, FaultBlames DEF SetProcessingJobRetryCount
<1>4. QED
  BY <1>1, <1>2, <1>3 DEF SetProcessingJobRetryCount

\* The steps of a handler that leave the rows alone.
LEMMA LateCallEffect ==
  ASSUME Shape, NEW h \in Handlers, Late(h)
  PROVE  /\ BlameKept
         /\ UNCHANGED <<created, job, task, attempts, pass>>
         /\ MirrorTold(api[h].job, IF api[h].pc = "failMirror" THEN "failed" ELSE "queued")
         /\ \/ api[h].pc = "notify" /\ CallMoved(h, "plan")
            \/ api[h].pc = "plan" /\ CallMoved(h, "execute")
            \/ api[h].pc = "plan" /\ CallMoved(h, "fail")
            \/ api[h].pc = "failMirror" /\ CallEnded(h)
            \/ /\ CallEnded(h)
               /\ api[h].job \in JobIds => "crash" \in blame'[api[h].job]
<1>1. TypeOK
  BY DEF Shape
<1>2. CASE NotifyQueued(h)
  BY <1>1, <1>2, CallMovedBy, MirrorWrites DEF NotifyQueued
<1>3. CASE GenerateExecutionPlan(h)
  BY <1>1, <1>3, CallMovedBy, FaultKept DEF GenerateExecutionPlan, MirrorTold
<1>4. CASE TryFailNotify(h)
  BY <1>1, <1>4, CallEnds, MirrorWrites DEF TryFailNotify
<1>5. CASE HandlerCrash(h)
  BY <1>1, <1>5, CallEnds, FaultKept, FaultBlames DEF HandlerCrash, MirrorTold
<1>6. QED
  BY <1>2, <1>3, <1>4, <1>5
  DEF Late, NotifyQueued, GenerateExecutionPlan, TryFailNotify, HandlerCrash

\* The task is enqueued, or the handler turns to failing the job.
LEMMA ExecuteEffect ==
  ASSUME Shape, NEW h \in Handlers, ExecuteApprovedPlan(h)
  PROVE  /\ api[h].job \in JobIds
         /\ BlameKept
         /\ api[h].pc = "execute"
         /\ UNCHANGED <<created, job, mirror, attempts, pass>>
         /\ \A j \in JobIds \ {api[h].job} : task'[j] = task[j]
         /\ \/ CallMoved(h, "fail") /\ task'[api[h].job] \in {task[api[h].job], "live"}
            \/ CallEnded(h) /\ task'[api[h].job] = "live"
<1>1. TypeOK /\ api[h].job \in JobIds
  BY ActiveCalls DEF Shape, ExecuteApprovedPlan, Holding, Making
<1>2. CASE /\ task' = [task EXCEPT ![api[h].job] = "live"]
           /\ api' = [api EXCEPT ![h] = NoCall]
           /\ NoFault
  BY <1>1, <1>2, CallEnds, FaultKept DEF ExecuteApprovedPlan, TypeOK
<1>3. CASE /\ task' \in {task, [task EXCEPT ![api[h].job] = "live"]}
           /\ api' = [api EXCEPT ![h].pc = "fail"]
           /\ Fault(0, "write")
  BY <1>1, <1>3, CallMovedBy, FaultKept DEF ExecuteApprovedPlan, TypeOK
<1>4. QED
  BY <1>1, <1>2, <1>3 DEF ExecuteApprovedPlan

\* The handler fails the job, or the failure to do so is remembered.
LEMMA TryFailEffect ==
  ASSUME Shape, NEW h \in Handlers, TryFail(h)
  PROVE  /\ api[h].job \in JobIds
         /\ BlameKept
         /\ api[h].pc = "fail" /\ CallMoved(h, "failMirror")
         /\ UNCHANGED <<created, mirror, task, attempts, pass>>
         /\ \/ RowSet(api[h].job, "failed", job[api[h].job].retry)
            \/ job' = job /\ "write" \in blame'[api[h].job]
<1>1. TypeOK /\ api[h].job \in JobIds
  BY ActiveCalls DEF Shape, TryFail, Holding, Making
<1>2. CallMoved(h, "failMirror") /\ BlameKept
  BY <1>1, CallMovedBy, FaultKept DEF TryFail
<1>3. CASE SetStatus(api[h].job, "failed")
  BY <1>1, <1>2, <1>3, RowSets DEF TryFail, SetStatus
<1>4. CASE job' = job /\ Fault(api[h].job, "write")
  BY <1>1, <1>2, <1>4, FaultBlames DEF TryFail
<1>5. QED
  BY <1>1, <1>2, <1>3, <1>4 DEF TryFail

\* A decision on an approval touches nothing else.
LEMMA ApprovalEffect ==
  ASSUME NEW j \in JobIds, Decide(j)
  PROVE  UNCHANGED <<created, job, mirror, task, attempts, api, pass, faults, blame>>
BY DEF Decide, RejectJobApproval, ApproveJobApproval

\* A delivery begins a pass.
LEMMA DeliverEffect ==
  ASSUME Shape, NEW w \in Workers, NEW j \in JobIds, Deliver(w, j)
  PROVE  /\ \A v \in Workers \ {w} : PassKept(v)
         /\ pass'[w].pc = "read" /\ pass'[w].job = j
         /\ pass[w].pc = "idle" /\ task[j] = "live"
         /\ \A i \in JobIds \ {j} : attempts'[i] = attempts[i]
         /\ UNCHANGED <<created, job, mirror, task, api, blame>>
BY DEF Deliver, Shape, TypeOK, Pass, NoPass, PassKept

\* The steps of a pass that leave the rows alone: it ends, in one of these
\* ways, or it moves on.
TaskSettled(w, settled) ==
  \A j \in JobIds : task'[j] = IF settled /\ j = pass[w].job THEN "done" ELSE task[j]

\* The steps of a pass that leave the rows alone: it moves on, or it ends because
\* the job needs nothing, because its end has been told, or because of a fault.
LEMMA QuietPassEffect ==
  ASSUME Shape, NEW w \in Workers, Quiet(w)
  PROVE  /\ pass[w].job \in JobIds
         /\ pass[w].pc # "idle"
         /\ BlameKept
         /\ UNCHANGED <<created, job, attempts, api>>
         /\ MirrorTold(pass[w].job, CASE pass[w].pc = "completeMirror" -> "succeeded"
                                     [] pass[w].pc = "failMirror" -> "failed"
                                     [] OTHER -> "running")
         /\ \/ /\ task' = task
               /\ \/ pass[w].pc = "read" /\ PassMoved(w, "approvals")
                  \/ pass[w].pc = "approvals" /\ PassMoved(w, "mark")
                  \/ pass[w].pc = "markMirror" /\ PassMoved(w, "agent")
                  \/ /\ pass[w].pc = "agent"
                     /\ \E pc \in {"complete", "fail", "requeue"} : PassMoved(w, pc)
            \/ /\ PassEnded(w)
               /\ \E settled \in BOOLEAN : TaskSettled(w, settled)
               /\ \/ /\ pass[w].pc = "read"
                     /\ job[pass[w].job].status \in {"succeeded", "failed", "running"}
                  \/ pass[w].pc \in {"completeMirror", "failMirror"}
                  \/ blame'[pass[w].job] \cap {"crash", "write", "rejected"} # {}
<1> DEFINE Goes ==
      \/ /\ task' = task
         /\ \/ pass[w].pc = "read" /\ PassMoved(w, "approvals")
            \/ pass[w].pc = "approvals" /\ PassMoved(w, "mark")
            \/ pass[w].pc = "markMirror" /\ PassMoved(w, "agent")
            \/ /\ pass[w].pc = "agent"
               /\ \E pc \in {"complete", "fail", "requeue"} : PassMoved(w, pc)
      \/ /\ PassEnded(w)
         /\ \E settled \in BOOLEAN : TaskSettled(w, settled)
         /\ \/ /\ pass[w].pc = "read"
               /\ job[pass[w].job].status \in {"succeeded", "failed", "running"}
            \/ pass[w].pc \in {"completeMirror", "failMirror"}
            \/ blame'[pass[w].job] \cap {"crash", "write", "rejected"} # {}
<1>1. TypeOK /\ pass[w].job \in JobIds
  BY ActivePasses
  DEF Shape, Quiet, ReadJob, CheckApprovals, MarkRunningNotify, ProcessDocument,
     CompleteNotify, FailNotify, WorkerCrash
<1>2. ASSUME NEW ok \in BOOLEAN, Answer(w, ok)
      PROVE  PassEnded(w) /\ \E settled \in BOOLEAN : TaskSettled(w, settled)
  BY <1>1, <1>2, PassEnds DEF Answer, TaskSettled, TypeOK
<1>3. ASSUME ReadJob(w) PROVE BlameKept /\ Goes
  <2>1. CASE /\ job[pass[w].job].status \in ShouldSkipJobStatus
             /\ Answer(w, TRUE) /\ NoFault
    BY <1>1, <1>2, <1>3, <2>1, FaultKept DEF ReadJob, ShouldSkipJobStatus
  <2>2. CASE /\ pass' = [pass EXCEPT ![w].pc = "approvals",
                                     ![w].retry = job[pass[w].job].retry]
             /\ task' = task /\ NoFault
    BY <1>1, <1>3, <2>2, PassReadsBy, FaultKept DEF ReadJob
  <2>3. CASE Answer(w, FALSE) /\ Fault(pass[w].job, "write")
    BY <1>1, <1>2, <1>3, <2>3, FaultKept, FaultBlames DEF ReadJob
  <2>4. QED
    BY <1>3, <2>1, <2>2, <2>3 DEF ReadJob
<1>4. ASSUME CheckApprovals(w) PROVE BlameKept /\ Goes
  <2>1. CASE /\ pass' = [pass EXCEPT ![w].pc = "mark"] /\ task' = task
             /\ NoFault \/ Fault(0, "write")
    BY <1>1, <1>4, <2>1, PassMovedBy, FaultKept DEF CheckApprovals
  <2>2. CASE /\ \E final \in BOOLEAN : Answer(w, final)
             /\ blame' = [blame EXCEPT ![pass[w].job] = @ \cup {"rejected"}]
    <3>1. "rejected" \in blame'[pass[w].job] /\ BlameKept
      BY <1>1, <2>2 DEF TypeOK, BlameKept
    <3>2. QED
      BY <1>1, <1>2, <1>4, <2>2, <3>1 DEF CheckApprovals
  <2>3. QED
    BY <1>4, <2>1, <2>2 DEF CheckApprovals
<1>5. ASSUME MarkRunningNotify(w) PROVE BlameKept /\ Goes
  BY <1>1, <1>5, PassMovedBy, MirrorWrites DEF MarkRunningNotify
<1>6. ASSUME ProcessDocument(w) PROVE BlameKept /\ Goes
  <2>1. PICK next \in {"complete", "fail", "requeue"} :
          pass' = [pass EXCEPT ![w].pc = next]
    BY <1>6 DEF ProcessDocument
  <2>2. BlameKept
    BY <1>6 DEF ProcessDocument, BlameKept
  <2>3. QED
    BY <1>1, <1>6, <2>1, <2>2, PassMovedBy DEF ProcessDocument
<1>7. ASSUME CompleteNotify(w) \/ FailNotify(w) PROVE BlameKept /\ Goes
  BY <1>1, <1>2, <1>7, MirrorWrites DEF CompleteNotify, FailNotify
<1>8. ASSUME WorkerCrash(w) PROVE BlameKept /\ Goes
  BY <1>1, <1>2, <1>8, FaultKept, FaultBlames DEF WorkerCrash
<1>9. UNCHANGED <<created, job, attempts, api>>
  BY DEF Quiet, ReadJob, CheckApprovals, MarkRunningNotify, ProcessDocument, CompleteNotify,
     FailNotify, WorkerCrash
<1>10. pass[w].pc # "idle"
  BY DEF Quiet, ReadJob, CheckApprovals, MarkRunningNotify, ProcessDocument, CompleteNotify,
     FailNotify, WorkerCrash
<1>11. MirrorTold(pass[w].job, CASE pass[w].pc = "completeMirror" -> "succeeded"
                                   [] pass[w].pc = "failMirror" -> "failed"
                                   [] OTHER -> "running")
  <2>1. CASE ReadJob(w) \/ CheckApprovals(w) \/ ProcessDocument(w) \/ WorkerCrash(w)
    BY <2>1 DEF ReadJob, CheckApprovals, ProcessDocument, WorkerCrash, MirrorTold
  <2>2. CASE MarkRunningNotify(w) \/ CompleteNotify(w) \/ FailNotify(w)
    BY <1>1, <2>2, MirrorWrites DEF MarkRunningNotify, CompleteNotify, FailNotify
  <2>3. QED
    BY <2>1, <2>2 DEF Quiet
<1>12. QED
  BY <1>1, <1>3, <1>4, <1>5, <1>6, <1>7, <1>8, <1>9, <1>10, <1>11
  DEF Quiet

\* A pass claims its job, or ends because it cannot.
LEMMA MarkRunningEffect ==
  ASSUME Shape, NEW w \in Workers, MarkRunning(w)
  PROVE  /\ pass[w].job \in JobIds
         /\ pass[w].pc = "mark"
         /\ BlameKept
         /\ UNCHANGED <<created, mirror, attempts, api>>
         /\ task' = task
         /\ \/ /\ RowSet(pass[w].job, "running", job[pass[w].job].retry)
               /\ job[pass[w].job].status \in {"queued", "running"}
               /\ PassMoved(w, "markMirror")
            \/ /\ job' = job
               /\ PassEnded(w)
               /\ \/ job[pass[w].job].status \notin {"queued", "running"}
                  \/ "write" \in blame'[pass[w].job]
<1>1. TypeOK /\ pass[w].job \in JobIds
  BY ActivePasses DEF Shape, MarkRunning
<1>2. CASE /\ job[pass[w].job].status \in Markable
           /\ SetStatus(pass[w].job, "running")
           /\ pass' = [pass EXCEPT ![w].pc = "markMirror"]
           /\ blame' \in {blame, [blame EXCEPT ![pass[w].job] = @ \cup {"race"}]}
           /\ task' = task
  <2>1. BlameKept
    BY <1>1, <1>2 DEF TypeOK, BlameKept
  <2>2. RowSet(pass[w].job, "running", job[pass[w].job].retry) /\ PassMoved(w, "markMirror")
    BY <1>1, <1>2, RowSets, PassMovedBy DEF SetStatus
  <2>3. QED
    BY <1>1, <1>2, <2>1, <2>2 DEF MarkRunning, Markable
<1>3. CASE /\ job[pass[w].job].status \notin Markable
           /\ Answer(w, FALSE) /\ NoFault /\ job' = job
  BY <1>1, <1>3, PassEnds, FaultKept DEF MarkRunning, Markable, Answer
<1>4. CASE Answer(w, FALSE) /\ Fault(pass[w].job, "write") /\ job' = job
  BY <1>1, <1>4, PassEnds, FaultKept, FaultBlames DEF MarkRunning, Answer
<1>5. QED
  BY <1>1, <1>2, <1>3, <1>4 DEF MarkRunning

\* A pass writes the end of its job, or goes on to fail it, or fails to write.
LEMMA SettleEffect ==
  ASSUME Shape, NEW w \in Workers, Settle(w)
  PROVE  /\ pass[w].job \in JobIds
         /\ pass[w].pc \in {"requeue", "complete", "fail"}
         /\ BlameKept
         /\ UNCHANGED <<created, mirror, task, attempts, api>>
         /\ \/ /\ pass[w].pc = "requeue"
               /\ RowSet(pass[w].job, "retryable", job[pass[w].job].retry + 1)
               /\ PassEnded(w)
            \/ /\ pass[w].pc = "complete"
               /\ RowSet(pass[w].job, "succeeded", job[pass[w].job].retry)
               /\ PassMoved(w, "completeMirror")
            \/ /\ pass[w].pc = "fail"
               /\ RowSet(pass[w].job, "failed", job[pass[w].job].retry)
               /\ PassMoved(w, "failMirror")
            \/ job' = job /\ pass[w].pc # "fail" /\ PassMoved(w, "fail")
            \/ job' = job /\ PassMoved(w, "failMirror") /\ "write" \in blame'[pass[w].job]
<1>1. TypeOK /\ pass[w].job \in JobIds
  BY ActivePasses DEF Shape, Settle, RequeueProcessingJobForRetry, CompleteProcessingJob,
     FailProcessingJob
<1>2. CASE RequeueProcessingJobForRetry(w)
  BY <1>1, <1>2, RowRequeues, PassEnds, PassMovedBy, FaultKept
  DEF RequeueProcessingJobForRetry, Answer
<1>3. CASE CompleteProcessingJob(w)
  BY <1>1, <1>3, RowSets, PassMovedBy, FaultKept DEF CompleteProcessingJob, SetStatus
<1>4. CASE FailProcessingJob(w)
  BY <1>1, <1>4, RowSets, PassMovedBy, FaultKept, FaultBlames DEF FailProcessingJob, SetStatus
<1>5. QED
  BY <1>1, <1>2, <1>3, <1>4
  DEF Settle, RequeueProcessingJobForRetry, CompleteProcessingJob, FailProcessingJob

-----------------------------------------------------------------------------
(* The shape of the state.                                                 *)

\* Rows, tasks, handlers and passes keep their places.
LEMMA PlacedStep == Shape /\ [Next]_vars => Placed'
<1> SUFFICES ASSUME Shape, [Next]_vars PROVE Placed'
  OBVIOUS
<1>0. Placed /\ JobIds = 1..MaxJobs /\ MaxJobs \in Nat /\ created \in 0..MaxJobs
  BY BoundsAssumption DEF Shape, TypeOK, JobIds
<1> USE DEF CallBegun, CallMoved, CallEnded, CallKept, RowSet, RowKept, PassMoved,
      PassEnded, PassKept, TaskSettled, MirrorTold, Placed, RowsExist, CallsHaveJobs,
      OneCallPerJob, TasksHaveJobs, PassesHaveTasks, MadeBeforeTask, PassesClaim, Holding,
      Making
<1>1. ASSUME NEW h \in Handlers, NEW d \in Documents, Begin(h, d) PROVE Placed'
  BY <1>0, <1>1, BeginEffect
<1>2. ASSUME NEW h \in Handlers, NEW d \in Documents, AutoResumeScan(h, d)
      PROVE  Placed'
  BY <1>0, <1>2, ScanEffect
<1>3. ASSUME NEW h \in Handlers, AutoResumeRecheck(h) PROVE Placed'
  BY <1>0, <1>3, RecheckEffect
<1>4. ASSUME NEW h \in Handlers, CreateProcessingJob(h) PROVE Placed'
  BY <1>0, <1>4, CreateEffect
<1>5. ASSUME NEW h \in Handlers, SetProcessingJobRetryCount(h) PROVE Placed'
  BY <1>0, <1>5, SetRetryEffect, SMTT(30)
<1>6. ASSUME NEW h \in Handlers, Late(h) PROVE Placed'
  BY <1>0, <1>6, LateCallEffect
<1>7. ASSUME NEW h \in Handlers, ExecuteApprovedPlan(h) PROVE Placed'
  BY <1>0, <1>7, ExecuteEffect
<1>8. ASSUME NEW h \in Handlers, TryFail(h) PROVE Placed'
  BY <1>0, <1>8, TryFailEffect, SMTT(30)
<1>9. ASSUME NEW w \in Workers, NEW j \in JobIds, Deliver(w, j) PROVE Placed'
  BY <1>0, <1>9, DeliverEffect
<1>10. ASSUME NEW w \in Workers, Quiet(w) PROVE Placed'
  BY <1>0, <1>10, QuietPassEffect
<1>11. ASSUME NEW w \in Workers, MarkRunning(w) PROVE Placed'
  BY <1>0, <1>11, MarkRunningEffect, SMTT(30)
<1>12. ASSUME NEW w \in Workers, Settle(w) PROVE Placed'
  BY <1>0, <1>12, SettleEffect, SMTT(30)
<1>13. ASSUME NEW j \in JobIds, Decide(j) PROVE Placed'
  BY <1>0, <1>13, ApprovalEffect
<1>14. CASE UNCHANGED vars
  BY <1>0, <1>14 DEF vars
<1>15. QED
  BY <1>1, <1>2, <1>3, <1>4, <1>5, <1>6, <1>7, <1>8, <1>9, <1>10, <1>11, <1>12, <1>13, <1>14
  DEF Next, HandlerStep, WorkerStep, Begin, Late, Quiet, Settle, Decide

\* The fields of the empty records that matter.
LEMMA BlankFields ==
  /\ NoRow.status = "none" /\ NoRow.doc = NoDocument /\ NoRow.retry = 0
  /\ NoCall.pc = "idle" /\ NoCall.job = 0
  /\ NoPass.pc = "idle" /\ NoPass.job = 0
BY DEF NoRow, NoCall, NoPass

\* The shape holds initially.
LEMMA ShapeInit == Init => Shape
BY TypeInit, BlankFields, BoundsAssumption
DEF Init, Shape, Placed, RowsExist, CallsHaveJobs, OneCallPerJob, TasksHaveJobs,
    PassesHaveTasks, MadeBeforeTask, PassesClaim, Holding, Making, JobIds

\* And is kept.
LEMMA ShapeStep == Shape /\ [Next]_vars => Shape'
BY TypeStep, PlacedStep DEF Shape

-----------------------------------------------------------------------------
(* One property at a time.                                                 *)

\* What a call's check found stays true until it creates its job.
LEMMA ChecksStep == Shape /\ ChecksWereTrue /\ [Next]_vars => ChecksWereTrue'
<1> SUFFICES ASSUME Shape /\ ChecksWereTrue, [Next]_vars PROVE ChecksWereTrue'
  OBVIOUS
<1>0. /\ Shape /\ Placed
      /\ JobIds = 1..MaxJobs /\ MaxJobs \in Nat /\ MaxAttempts \in Nat \ {0}
      /\ created \in 0..MaxJobs
      /\ \A j \in JobIds : job[j].retry \in Nat
      /\ \A j \in JobIds : job[j].doc \in Documents => j \in 1..created
  BY BoundsAssumption, DocumentsAssumption DEF Shape, Placed, RowsExist, TypeOK, JobIds, Row
<1> USE DEF CallBegun, CallMoved, CallEnded, CallKept, RowSet, RowKept, PassMoved,
      PassEnded, PassKept, ChecksWereTrue, JobsOf, Active, Placed, RowsExist, CallsHaveJobs,
      PassesHaveTasks, Holding, Making
<1>1. ASSUME NEW h \in Handlers, NEW d \in Documents, Begin(h, d)
      PROVE  ChecksWereTrue'
  BY <1>0, <1>1, BeginEffect
<1>2. ASSUME NEW h \in Handlers, NEW d \in Documents, AutoResumeScan(h, d)
      PROVE  ChecksWereTrue'
  BY <1>0, <1>2, ScanEffect
<1>3. ASSUME NEW h \in Handlers, AutoResumeRecheck(h) PROVE ChecksWereTrue'
  BY <1>0, <1>3, RecheckEffect
<1>4. ASSUME NEW h \in Handlers, CreateProcessingJob(h) PROVE ChecksWereTrue'
  BY <1>0, <1>4, CreateEffect
<1>5. ASSUME NEW h \in Handlers, SetProcessingJobRetryCount(h) PROVE ChecksWereTrue'
  BY <1>0, <1>5, SetRetryEffect
<1>6. ASSUME NEW h \in Handlers, Late(h) PROVE ChecksWereTrue'
  BY <1>0, <1>6, LateCallEffect
<1>7. ASSUME NEW h \in Handlers, ExecuteApprovedPlan(h) PROVE ChecksWereTrue'
  BY <1>0, <1>7, ExecuteEffect
<1>8. ASSUME NEW h \in Handlers, TryFail(h) PROVE ChecksWereTrue'
  BY <1>0, <1>8, TryFailEffect, SMTT(30)
<1>9. ASSUME NEW w \in Workers, NEW j \in JobIds, Deliver(w, j) PROVE ChecksWereTrue'
  BY <1>0, <1>9, DeliverEffect
<1>10. ASSUME NEW w \in Workers, Quiet(w) PROVE ChecksWereTrue'
  BY <1>0, <1>10, QuietPassEffect
<1>11. ASSUME NEW w \in Workers, MarkRunning(w) PROVE ChecksWereTrue'
  BY <1>0, <1>11, MarkRunningEffect, SMTT(30)
<1>12. ASSUME NEW w \in Workers, Settle(w) PROVE ChecksWereTrue'
  <2> HIDE DEF CallBegun, CallMoved, CallEnded, CallKept, RowSet, RowKept, PassMoved,
      PassEnded, PassKept, ChecksWereTrue, JobsOf, Active, Placed, RowsExist, CallsHaveJobs,
      PassesHaveTasks, Holding, Making
  <2>1. \A j \in JobIds : job'[j].doc = job[j].doc /\ (Active(j)' => Active(j))
    BY <1>12, <1>0, SettleEffect DEF Active, RowSet, RowKept
  <2>2. UNCHANGED <<api, created>>
    BY <1>12, <1>0, SettleEffect
  <2>3. QED
    BY <1>0, <2>1, <2>2 DEF ChecksWereTrue
<1>13. ASSUME NEW j \in JobIds, Decide(j) PROVE ChecksWereTrue'
  BY <1>0, <1>13, ApprovalEffect
<1>14. CASE UNCHANGED vars
  BY <1>0, <1>14 DEF vars
<1>15. QED
  BY <1>1, <1>2, <1>3, <1>4, <1>5, <1>6, <1>7, <1>8, <1>9, <1>10, <1>11, <1>12, <1>13, <1>14
  DEF Next, HandlerStep, WorkerStep, Begin, Late, Quiet, Settle, Decide

\* The explanation of an overlap survives any step that puts no row back in flight.
LEMMA OverlapKept ==
  ASSUME OverlapNeedsStaleCheck,
         \A j \in JobIds :
           /\ job'[j].doc = job[j].doc /\ job'[j].origin = job[j].origin
           /\ job'[j].basis = job[j].basis /\ job'[j].check = job[j].check
           /\ Active(j)' => Active(j)
  PROVE  OverlapNeedsStaleCheck'
<1> SUFFICES ASSUME NEW a \in JobIds, NEW b \in JobIds,
                    a < b, Active(a)', job'[b].doc = job'[a].doc
             PROVE  \E c \in (a + 1)..b :
                      /\ job'[c].doc = job'[a].doc
                      /\ job'[c].origin = "force" \/ job'[c].check = "unread"
                         \/ job'[c].basis < a
  BY DEF OverlapNeedsStaleCheck
<1>1. PICK c \in (a + 1)..b :
        /\ job[c].doc = job[a].doc
        /\ job[c].origin = "force" \/ job[c].check = "unread" \/ job[c].basis < a
  BY DEF OverlapNeedsStaleCheck
<1>2. c \in JobIds
  BY BoundsAssumption DEF JobIds
<1>3. QED
  BY <1>1, <1>2

\* A new job over one in flight brings its own explanation: it is forced, its
\* check came before the job in flight, or the newest job its check saw was newer
\* than the one in flight and has an explanation of its own.
LEMMA OverlapStep ==
  Shape /\ ChecksWereTrue /\ OverlapNeedsStaleCheck /\ [Next]_vars
    => OverlapNeedsStaleCheck'
<1> SUFFICES ASSUME Shape /\ ChecksWereTrue /\ OverlapNeedsStaleCheck, [Next]_vars
             PROVE  OverlapNeedsStaleCheck'
  OBVIOUS
<1>0. /\ Shape /\ Placed
      /\ JobIds = 1..MaxJobs /\ MaxJobs \in Nat /\ MaxAttempts \in Nat \ {0}
      /\ created \in 0..MaxJobs
      /\ \A j \in JobIds : job[j].retry \in Nat
      /\ \A j \in JobIds : job[j].doc \in Documents => j \in 1..created
  BY BoundsAssumption, DocumentsAssumption DEF Shape, Placed, RowsExist, TypeOK, JobIds, Row
<1>1. ASSUME NEW h \in Handlers, NEW d \in Documents, Begin(h, d)
      PROVE  OverlapNeedsStaleCheck'
  BY <1>0, <1>1, BeginEffect, OverlapKept DEF Active
<1>2. ASSUME NEW h \in Handlers, NEW d \in Documents, AutoResumeScan(h, d)
      PROVE  OverlapNeedsStaleCheck'
  BY <1>0, <1>2, ScanEffect, OverlapKept DEF Active
<1>3. ASSUME NEW h \in Handlers, AutoResumeRecheck(h) PROVE OverlapNeedsStaleCheck'
  BY <1>0, <1>3, RecheckEffect, OverlapKept DEF Active
<1>4. ASSUME NEW h \in Handlers, CreateProcessingJob(h) PROVE OverlapNeedsStaleCheck'
  <2> SUFFICES ASSUME NEW a \in JobIds, NEW b \in JobIds,
                      a < b, Active(a)', job'[b].doc = job'[a].doc
               PROVE  \E c \in (a + 1)..b :
                        /\ job'[c].doc = job'[a].doc
                        /\ job'[c].origin = "force" \/ job'[c].check = "unread"
                         \/ job'[c].basis < a
    BY DEF OverlapNeedsStaleCheck
  <2> DEFINE new == created + 1
  <2>1. /\ new \in JobIds /\ \A i \in JobIds \ {new} : job'[i] = job[i]
        /\ job'[new].doc = api[h].doc /\ api[h].doc \in Documents
        /\ job'[new].origin = api[h].kind /\ job'[new].check = api[h].check
        /\ job'[new].basis = api[h].basis
        /\ api[h].pc = "create"
    BY <1>0, <1>4, CreateEffect DEF Placed, CallsHaveJobs
  <2>2. \A i \in JobIds : job[i].doc \in Documents => i < new
    BY <1>0
  <2>3. \A i \in JobIds : i < new => job[i].doc \in Documents
    BY <1>0 DEF Placed, RowsExist
  <2>4. \A i \in JobIds : i > new => job[i].doc = NoDocument
    BY <1>0 DEF Placed, RowsExist
  <2>5. a < new /\ b <= new /\ Active(a) /\ job[a].doc \in Documents
    <3>1. b <= new
      <4>1. job'[a].doc \in Documents
        <5>1. CASE a = new
          BY <2>1, <5>1
        <5>2. CASE a # new
          <6>1. Active(a)
            BY <2>1, <5>2 DEF Active
          <6>2. QED
            BY <1>0, <2>1, <5>2, <6>1 DEF Placed, RowsExist, Active
        <5>3. QED
          BY <5>1, <5>2
      <4>2. QED
        BY <1>0, <2>1, <2>4, <4>1, DocumentsAssumption
    <3>2. a < new
      BY <1>0, <3>1
    <3>3. Active(a) /\ job[a].doc \in Documents
      BY <1>0, <2>1, <2>3, <3>2 DEF Active
    <3>4. QED
      BY <3>1, <3>2, <3>3
  <2>6. ASSUME NEW m \in JobIds, a < m, m < new, job[m].doc = job[a].doc, m <= b
        PROVE  \E c \in (a + 1)..b :
                 /\ job'[c].doc = job'[a].doc
                 /\ job'[c].origin = "force" \/ job'[c].check = "unread"
                         \/ job'[c].basis < a
    <3>1. PICK c \in (a + 1)..m :
            /\ job[c].doc = job[a].doc
            /\ job[c].origin = "force" \/ job[c].check = "unread" \/ job[c].basis < a
      BY <2>5, <2>6 DEF OverlapNeedsStaleCheck
    <3>2. c \in JobIds \ {new} /\ a \in JobIds \ {new} /\ c \in (a + 1)..b
      BY <1>0, <2>1, <2>5, <2>6
    <3>3. QED
      BY <2>1, <3>1, <3>2
  <2>7. CASE b < new
    <3>1. job[b].doc = job[a].doc
      BY <1>0, <2>1, <2>5, <2>7
    <3>2. QED
      BY <1>0, <2>6, <2>7, <3>1
  <2>8. CASE b = new
    <3>1. CASE api[h].kind = "force" \/ api[h].check = "unread" \/ api[h].basis < a
      BY <1>0, <2>1, <2>5, <2>8, <3>1
    <3>2. CASE api[h].kind # "force" /\ api[h].check # "unread" /\ ~(api[h].basis < a)
      <4>1. /\ api[h].basis \in 1..created /\ ~ Active(api[h].basis)
            /\ job[api[h].basis].doc = api[h].doc
        BY <1>0, <2>1, <3>2 DEF ChecksWereTrue, Shape, TypeOK, Call
      <4>2. a < api[h].basis /\ api[h].basis < new /\ api[h].basis \in JobIds
        BY <1>0, <2>5, <3>2, <4>1
      <4>3. job[api[h].basis].doc = job[a].doc
        <5>1. job'[a] = job[a]
          BY <1>0, <2>1, <2>5
        <5>2. job'[new].doc = job'[a].doc
          BY <2>8
        <5>3. QED
          BY <2>1, <4>1, <5>1, <5>2
      <4>4. QED
        BY <1>0, <2>6, <2>8, <4>2, <4>3
    <3>3. QED
      BY <3>1, <3>2
  <2>9. QED
    BY <1>0, <2>5, <2>7, <2>8
<1>5. ASSUME NEW h \in Handlers, SetProcessingJobRetryCount(h)
      PROVE  OverlapNeedsStaleCheck'
  BY <1>0, <1>5, SetRetryEffect, OverlapKept DEF RowSet, RowKept, Active
<1>6. ASSUME NEW h \in Handlers, Late(h) PROVE OverlapNeedsStaleCheck'
  BY <1>0, <1>6, LateCallEffect, OverlapKept DEF Active
<1>7. ASSUME NEW h \in Handlers, ExecuteApprovedPlan(h) PROVE OverlapNeedsStaleCheck'
  BY <1>0, <1>7, ExecuteEffect, OverlapKept DEF Active
<1>8. ASSUME NEW h \in Handlers, TryFail(h) PROVE OverlapNeedsStaleCheck'
  BY <1>0, <1>8, TryFailEffect, OverlapKept DEF RowSet, RowKept, Active
<1>9. ASSUME NEW w \in Workers, NEW j \in JobIds, Deliver(w, j)
      PROVE  OverlapNeedsStaleCheck'
  BY <1>0, <1>9, DeliverEffect, OverlapKept DEF Active
<1>10. ASSUME NEW w \in Workers, Quiet(w) PROVE OverlapNeedsStaleCheck'
  BY <1>0, <1>10, QuietPassEffect, OverlapKept DEF Active
<1>11. ASSUME NEW w \in Workers, MarkRunning(w) PROVE OverlapNeedsStaleCheck'
  BY <1>0, <1>11, MarkRunningEffect, OverlapKept DEF RowSet, RowKept, Active
<1>12. ASSUME NEW w \in Workers, Settle(w) PROVE OverlapNeedsStaleCheck'
  BY <1>0, <1>12, SettleEffect, OverlapKept DEF RowSet, RowKept, Active
<1>13. ASSUME NEW j \in JobIds, Decide(j) PROVE OverlapNeedsStaleCheck'
  BY <1>0, <1>13, ApprovalEffect, OverlapKept DEF Active
<1>14. CASE UNCHANGED vars
  BY <1>0, <1>14 DEF vars, OverlapNeedsStaleCheck, Active
<1>15. QED
  BY <1>1, <1>2, <1>3, <1>4, <1>5, <1>6, <1>7, <1>8, <1>9, <1>10, <1>11, <1>12, <1>13, <1>14
  DEF Next, HandlerStep, WorkerStep, Begin, Late, Quiet, Settle, Decide

\* The retry count of an auto-resumed job is stamped before its task exists.
LEMMA CountsStep == Shape /\ CountsAreKept /\ [Next]_vars => CountsAreKept'
<1> SUFFICES ASSUME Shape /\ CountsAreKept, [Next]_vars PROVE CountsAreKept'
  OBVIOUS
<1>0. /\ Shape /\ Placed
      /\ JobIds = 1..MaxJobs /\ MaxJobs \in Nat /\ MaxAttempts \in Nat \ {0}
      /\ created \in 0..MaxJobs
      /\ \A j \in JobIds : job[j].retry \in Nat
      /\ \A j \in JobIds : job[j].doc \in Documents => j \in 1..created
  BY BoundsAssumption, DocumentsAssumption DEF Shape, Placed, RowsExist, TypeOK, JobIds, Row
<1> USE DEF CallBegun, CallMoved, CallEnded, CallKept, RowSet, RowKept, PassMoved,
      PassEnded, PassKept, CountsAreKept, TaskSettled, BlameKept, Placed, RowsExist,
      CallsHaveJobs, OneCallPerJob, TasksHaveJobs, PassesHaveTasks, MadeBeforeTask,
      PassesClaim, Holding, Making
<1>1. ASSUME NEW h \in Handlers, NEW d \in Documents, Begin(h, d) PROVE CountsAreKept'
  BY <1>0, <1>1, BeginEffect
<1>2. ASSUME NEW h \in Handlers, NEW d \in Documents, AutoResumeScan(h, d)
      PROVE  CountsAreKept'
  BY <1>0, <1>2, ScanEffect
<1>3. ASSUME NEW h \in Handlers, AutoResumeRecheck(h) PROVE CountsAreKept'
  BY <1>0, <1>3, RecheckEffect
<1>4. ASSUME NEW h \in Handlers, CreateProcessingJob(h) PROVE CountsAreKept'
  BY <1>0, <1>4, CreateEffect
<1>5. ASSUME NEW h \in Handlers, SetProcessingJobRetryCount(h) PROVE CountsAreKept'
  BY <1>0, <1>5, SetRetryEffect, SMTT(30)
<1>6. ASSUME NEW h \in Handlers, Late(h) PROVE CountsAreKept'
  BY <1>0, <1>6, LateCallEffect
<1>7. ASSUME NEW h \in Handlers, ExecuteApprovedPlan(h) PROVE CountsAreKept'
  BY <1>0, <1>7, ExecuteEffect
<1>8. ASSUME NEW h \in Handlers, TryFail(h) PROVE CountsAreKept'
  BY <1>0, <1>8, TryFailEffect, SMTT(30)
<1>9. ASSUME NEW w \in Workers, NEW j \in JobIds, Deliver(w, j) PROVE CountsAreKept'
  BY <1>0, <1>9, DeliverEffect
<1>10. ASSUME NEW w \in Workers, Quiet(w) PROVE CountsAreKept'
  BY <1>0, <1>10, QuietPassEffect
<1>11. ASSUME NEW w \in Workers, MarkRunning(w) PROVE CountsAreKept'
  BY <1>0, <1>11, MarkRunningEffect, SMTT(30)
<1>12. ASSUME NEW w \in Workers, Settle(w) PROVE CountsAreKept'
  <2> HIDE DEF CallBegun, CallMoved, CallEnded, CallKept, RowSet, RowKept, PassMoved,
      PassEnded, PassKept, CountsAreKept, TaskSettled, BlameKept, Placed, RowsExist,
      CallsHaveJobs, OneCallPerJob, TasksHaveJobs, PassesHaveTasks, MadeBeforeTask,
      PassesClaim, Holding, Making
  <2>1. \A j \in JobIds :
          /\ job'[j].origin = job[j].origin /\ job'[j].over = job[j].over
          /\ job'[j].check = job[j].check
          /\ job[j].retry > 0 => job'[j].retry > 0
    <3>1. CASE job' = job
      BY <3>1
    <3>2. CASE \E n \in {job[pass[w].job].retry, job[pass[w].job].retry + 1}, s \in Statuses :
                 RowSet(pass[w].job, s, n)
      <4>1. PICK n \in {job[pass[w].job].retry, job[pass[w].job].retry + 1}, s \in Statuses :
              RowSet(pass[w].job, s, n)
        BY <3>2
      <4>2. job[pass[w].job].retry > 0 => n > 0
        BY <1>0, <1>12, SettleEffect, <4>1
      <4>3. QED
        BY <4>1, <4>2 DEF RowSet, RowKept
    <3>3. QED
      BY <1>0, <1>12, SettleEffect, <3>1, <3>2 DEF Statuses
  <2>2. \A j \in JobIds : job[j].status = "queued" => job'[j].status = "queued"
    BY <1>0, <1>12, SettleEffect DEF RowSet, RowKept, Placed, PassesClaim
  <2>3. UNCHANGED <<task, api>> /\ BlameKept
    BY <1>0, <1>12, SettleEffect
  <2>4. QED
    BY <2>1, <2>2, <2>3 DEF CountsAreKept, BlameKept
<1>13. ASSUME NEW j \in JobIds, Decide(j) PROVE CountsAreKept'
  BY <1>0, <1>13, ApprovalEffect
<1>14. CASE UNCHANGED vars
  BY <1>0, <1>14 DEF vars
<1>15. QED
  BY <1>1, <1>2, <1>3, <1>4, <1>5, <1>6, <1>7, <1>8, <1>9, <1>10, <1>11, <1>12, <1>13, <1>14
  DEF Next, HandlerStep, WorkerStep, Begin, Late, Quiet, Settle, Decide

\* The mirror is told of an end only after the row.
LEMMA EndsStep ==
  Shape /\ EndsAreWritten /\ MirrorEndIsReal /\ [Next]_vars
    => (EndsAreWritten /\ MirrorEndIsReal)'
<1> SUFFICES ASSUME Shape /\ EndsAreWritten /\ MirrorEndIsReal, [Next]_vars
             PROVE  (EndsAreWritten /\ MirrorEndIsReal)'
  OBVIOUS
<1>0. /\ Shape /\ Placed
      /\ JobIds = 1..MaxJobs /\ MaxJobs \in Nat /\ MaxAttempts \in Nat \ {0}
      /\ created \in 0..MaxJobs
      /\ \A j \in JobIds : job[j].retry \in Nat
      /\ \A j \in JobIds : job[j].doc \in Documents => j \in 1..created
  BY BoundsAssumption, DocumentsAssumption DEF Shape, Placed, RowsExist, TypeOK, JobIds, Row
<1> USE DEF CallBegun, CallMoved, CallEnded, CallKept, RowSet, RowKept, PassMoved,
      PassEnded, PassKept, EndsAreWritten, MirrorEndIsReal, MirrorTold, Active, BlameKept,
      Placed, RowsExist, CallsHaveJobs, OneCallPerJob, TasksHaveJobs, PassesHaveTasks,
      MadeBeforeTask, PassesClaim, Holding, Making
<1>1. ASSUME NEW h \in Handlers, NEW d \in Documents, Begin(h, d)
      PROVE  (EndsAreWritten /\ MirrorEndIsReal)'
  BY <1>0, <1>1, BeginEffect
<1>2. ASSUME NEW h \in Handlers, NEW d \in Documents, AutoResumeScan(h, d)
      PROVE  (EndsAreWritten /\ MirrorEndIsReal)'
  BY <1>0, <1>2, ScanEffect
<1>3. ASSUME NEW h \in Handlers, AutoResumeRecheck(h)
      PROVE  (EndsAreWritten /\ MirrorEndIsReal)'
  BY <1>0, <1>3, RecheckEffect
<1>4. ASSUME NEW h \in Handlers, CreateProcessingJob(h)
      PROVE  (EndsAreWritten /\ MirrorEndIsReal)'
  BY <1>0, <1>4, CreateEffect, SMTT(30)
<1>5. ASSUME NEW h \in Handlers, SetProcessingJobRetryCount(h)
      PROVE  (EndsAreWritten /\ MirrorEndIsReal)'
  <2> HIDE DEF CallBegun, CallMoved, CallEnded, CallKept, RowSet, RowKept, PassMoved,
      PassEnded, PassKept, EndsAreWritten, MirrorEndIsReal, MirrorTold, Active, BlameKept,
      Placed, RowsExist, CallsHaveJobs, OneCallPerJob, TasksHaveJobs, PassesHaveTasks,
      MadeBeforeTask, PassesClaim, Holding, Making
  <2>1. \A j \in JobIds : Active(j)' => Active(j)
    BY <1>0, <1>5, SetRetryEffect DEF Active, RowSet, RowKept
  <2>2. /\ UNCHANGED <<mirror, pass>> /\ BlameKept
        /\ \A g \in Handlers \ {h} : CallKept(g)
        /\ api'[h].pc # "failMirror"
    BY <1>0, <1>5, SetRetryEffect DEF CallMoved, CallEnded
  <2>3. \A g \in Handlers : api[g].pc = "failMirror" => api[g].job \in JobIds
    BY <1>0 DEF Placed, CallsHaveJobs, Holding
  <2>4. \A v \in Workers : pass[v].pc # "idle" => pass[v].job \in JobIds
    BY <1>0 DEF Placed, PassesHaveTasks
  <2>5. MirrorEndIsReal'
    BY <2>1, <2>2 DEF MirrorEndIsReal, BlameKept
  <2>6. EndsAreWritten'
    BY <2>1, <2>2, <2>3, <2>4 DEF EndsAreWritten, BlameKept, CallKept
  <2>7. QED
    BY <2>5, <2>6
<1>6. ASSUME NEW h \in Handlers, Late(h) PROVE (EndsAreWritten /\ MirrorEndIsReal)'
  <2> HIDE DEF CallBegun, CallMoved, CallEnded, CallKept, RowSet, RowKept, PassMoved,
      PassEnded, PassKept, EndsAreWritten, MirrorEndIsReal, MirrorTold, Active, BlameKept,
      Placed, RowsExist, CallsHaveJobs, OneCallPerJob, TasksHaveJobs, PassesHaveTasks,
      MadeBeforeTask, PassesClaim, Holding, Making
  <2>1. /\ UNCHANGED <<job, pass>> /\ BlameKept
        /\ MirrorTold(api[h].job, IF api[h].pc = "failMirror" THEN "failed" ELSE "queued")
        /\ \A g \in Handlers \ {h} : CallKept(g)
        /\ api'[h].pc # "failMirror"
    BY <1>0, <1>6, LateCallEffect DEF CallMoved, CallEnded
  <2>2. \A g \in Handlers : api[g].pc = "failMirror" => api[g].job \in JobIds
    BY <1>0 DEF Placed, CallsHaveJobs, Holding
  <2>3. \A v \in Workers : pass[v].pc # "idle" => pass[v].job \in JobIds
    BY <1>0 DEF Placed, PassesHaveTasks
  <2>4. \A j \in JobIds : Active(j)' => Active(j)
    BY <2>1 DEF Active
  <2>5. EndsAreWritten'
    BY <2>1, <2>2, <2>3, <2>4 DEF EndsAreWritten, BlameKept, CallKept
  <2>6. MirrorEndIsReal'
    <3> SUFFICES ASSUME NEW j \in JobIds, mirror'[j] \in {"succeeded", "failed"},
                        "write" \notin blame'[j]
                 PROVE  ~ Active(j)'
      BY DEF MirrorEndIsReal
    <3>1. CASE mirror'[j] = mirror[j]
      BY <2>1, <2>4, <3>1 DEF MirrorEndIsReal, BlameKept
    <3>2. CASE mirror'[j] # mirror[j]
      <4>1. j = api[h].job /\ api[h].pc = "failMirror"
        BY <2>1, <3>2 DEF MirrorTold
      <4>2. QED
        BY <2>1, <2>4, <4>1 DEF EndsAreWritten, BlameKept
    <3>3. QED
      BY <3>1, <3>2
  <2>7. QED
    BY <2>5, <2>6
<1>7. ASSUME NEW h \in Handlers, ExecuteApprovedPlan(h)
      PROVE  (EndsAreWritten /\ MirrorEndIsReal)'
  BY <1>0, <1>7, ExecuteEffect, SMTT(30)
<1>8. ASSUME NEW h \in Handlers, TryFail(h) PROVE (EndsAreWritten /\ MirrorEndIsReal)'
  <2> HIDE DEF CallBegun, CallMoved, CallEnded, CallKept, RowSet, RowKept, PassMoved,
      PassEnded, PassKept, EndsAreWritten, MirrorEndIsReal, MirrorTold, Active, BlameKept,
      Placed, RowsExist, CallsHaveJobs, OneCallPerJob, TasksHaveJobs, PassesHaveTasks,
      MadeBeforeTask, PassesClaim, Holding, Making
  <2>1. \A j \in JobIds : Active(j)' => Active(j)
    BY <1>0, <1>8, TryFailEffect DEF Active, RowSet, RowKept
  <2>2. ~ Active(api[h].job)' \/ "write" \in blame'[api[h].job]
    BY <1>0, <1>8, TryFailEffect DEF Active, RowSet, CallMoved
  <2>3. \A g \in Handlers : api[g].pc = "failMirror" => api[g].job \in JobIds
    BY <1>0 DEF Placed, CallsHaveJobs, Holding
  <2>4. \A v \in Workers : pass[v].pc # "idle" => pass[v].job \in JobIds
    BY <1>0 DEF Placed, PassesHaveTasks
  <2>5. UNCHANGED <<mirror, pass>> /\ BlameKept /\ CallMoved(h, "failMirror")
    BY <1>0, <1>8, TryFailEffect
  <2>6. MirrorEndIsReal'
    BY <2>1, <2>5 DEF MirrorEndIsReal, BlameKept
  <2>7. EndsAreWritten'
    BY <2>1, <2>2, <2>3, <2>4, <2>5 DEF EndsAreWritten, BlameKept, CallMoved, CallKept
  <2>8. QED
    BY <2>6, <2>7
<1>9. ASSUME NEW w \in Workers, NEW j \in JobIds, Deliver(w, j)
      PROVE  (EndsAreWritten /\ MirrorEndIsReal)'
  BY <1>0, <1>9, DeliverEffect
<1>10. ASSUME NEW w \in Workers, Quiet(w) PROVE (EndsAreWritten /\ MirrorEndIsReal)'
  BY <1>0, <1>10, QuietPassEffect
<1>11. ASSUME NEW w \in Workers, MarkRunning(w)
      PROVE  (EndsAreWritten /\ MirrorEndIsReal)'
  <2> HIDE DEF CallBegun, CallMoved, CallEnded, CallKept, RowSet, RowKept, PassMoved,
      PassEnded, PassKept, EndsAreWritten, MirrorEndIsReal, MirrorTold, Active, BlameKept,
      Placed, RowsExist, CallsHaveJobs, OneCallPerJob, TasksHaveJobs, PassesHaveTasks,
      MadeBeforeTask, PassesClaim, Holding, Making
  <2>1. \A j \in JobIds : Active(j)' => Active(j)
    BY <1>0, <1>11, MarkRunningEffect DEF Active, RowSet, RowKept
  <2>2. /\ UNCHANGED <<mirror, api>> /\ BlameKept /\ \A v \in Workers \ {w} : PassKept(v)
        /\ pass'[w].pc \notin {"completeMirror", "failMirror"}
    BY <1>0, <1>11, MarkRunningEffect DEF PassMoved, PassEnded
  <2>3. \A h \in Handlers : api[h].pc = "failMirror" => api[h].job \in JobIds
    BY <1>0 DEF Placed, CallsHaveJobs, Holding
  <2>4. \A v \in Workers : pass[v].pc # "idle" => pass[v].job \in JobIds
    BY <1>0 DEF Placed, PassesHaveTasks
  <2>5. MirrorEndIsReal'
    BY <2>1, <2>2 DEF MirrorEndIsReal, BlameKept
  <2>6. EndsAreWritten'
    BY <2>1, <2>2, <2>3, <2>4 DEF EndsAreWritten, BlameKept, PassKept
  <2>7. QED
    BY <2>5, <2>6
<1>12. ASSUME NEW w \in Workers, Settle(w) PROVE (EndsAreWritten /\ MirrorEndIsReal)'
  <2> HIDE DEF CallBegun, CallMoved, CallEnded, CallKept, RowSet, RowKept, PassMoved,
      PassEnded, PassKept, EndsAreWritten, MirrorEndIsReal, MirrorTold, Active, BlameKept,
      Placed, RowsExist, CallsHaveJobs, OneCallPerJob, TasksHaveJobs, PassesHaveTasks,
      MadeBeforeTask, PassesClaim, Holding, Making
  <2>1. \A j \in JobIds : Active(j)' => Active(j)
    BY <1>0, <1>12, SettleEffect DEF Active, RowSet, RowKept
  <2>2. /\ pass'[w].pc \in {"completeMirror", "failMirror"} => pass'[w].job = pass[w].job
        /\ pass'[w].pc = "completeMirror" => ~ Active(pass[w].job)'
        /\ pass'[w].pc = "failMirror" =>
             ~ Active(pass[w].job)' \/ "write" \in blame'[pass[w].job]
    BY <1>0, <1>12, SettleEffect DEF Active, RowSet, PassMoved, PassEnded
  <2>3. \A h \in Handlers : api[h].pc = "failMirror" => api[h].job \in JobIds
    BY <1>0 DEF Placed, CallsHaveJobs, Holding
  <2>4. \A v \in Workers : pass[v].pc # "idle" => pass[v].job \in JobIds
    BY <1>0 DEF Placed, PassesHaveTasks
  <2>5. UNCHANGED <<mirror, api>> /\ BlameKept /\ \A v \in Workers \ {w} : PassKept(v)
    BY <1>0, <1>12, SettleEffect DEF PassMoved, PassEnded
  <2>6. MirrorEndIsReal'
    BY <2>1, <2>5 DEF MirrorEndIsReal, BlameKept
  <2>7. EndsAreWritten'
    BY <2>1, <2>2, <2>3, <2>4, <2>5 DEF EndsAreWritten, BlameKept, PassKept
  <2>8. QED
    BY <2>6, <2>7
<1>13. ASSUME NEW j \in JobIds, Decide(j) PROVE (EndsAreWritten /\ MirrorEndIsReal)'
  BY <1>0, <1>13, ApprovalEffect
<1>14. CASE UNCHANGED vars
  BY <1>0, <1>14 DEF vars
<1>15. QED
  BY <1>1, <1>2, <1>3, <1>4, <1>5, <1>6, <1>7, <1>8, <1>9, <1>10, <1>11, <1>12, <1>13, <1>14
  DEF Next, HandlerStep, WorkerStep, Begin, Late, Quiet, Settle, Decide

\* A queued job keeps its handler, gets a task with a delivery left, or keeps a pass.
LEMMA QueuedStep ==
  Shape /\ EndsAreWritten /\ QueuedHasOwner /\ [Next]_vars
    => QueuedHasOwner'
<1> SUFFICES ASSUME Shape /\ EndsAreWritten /\ QueuedHasOwner, [Next]_vars
             PROVE  QueuedHasOwner'
  OBVIOUS
<1>0. /\ Shape /\ Placed
      /\ JobIds = 1..MaxJobs /\ MaxJobs \in Nat /\ MaxAttempts \in Nat \ {0}
      /\ created \in 0..MaxJobs
      /\ \A j \in JobIds : job[j].retry \in Nat
      /\ \A j \in JobIds : job[j].doc \in Documents => j \in 1..created
  BY BoundsAssumption, DocumentsAssumption DEF Shape, Placed, RowsExist, TypeOK, JobIds, Row
<1> USE DEF QueuedHasOwner, CallBegun, CallMoved, CallEnded, CallKept, RowSet, RowKept,
      PassMoved, PassEnded, PassKept, EndsAreWritten, Active, HasOwner, Unharmed,
      TaskSettled, BlameKept, Placed, RowsExist, CallsHaveJobs, OneCallPerJob,
      TasksHaveJobs, PassesHaveTasks, MadeBeforeTask, PassesClaim, Holding, Making
<1>1. ASSUME NEW h \in Handlers, NEW d \in Documents, Begin(h, d)
      PROVE  QueuedHasOwner'
  BY <1>0, <1>1, BeginEffect
<1>2. ASSUME NEW h \in Handlers, NEW d \in Documents, AutoResumeScan(h, d)
      PROVE  QueuedHasOwner'
  BY <1>0, <1>2, ScanEffect
<1>3. ASSUME NEW h \in Handlers, AutoResumeRecheck(h) PROVE QueuedHasOwner'
  BY <1>0, <1>3, RecheckEffect
<1>4. ASSUME NEW h \in Handlers, CreateProcessingJob(h) PROVE QueuedHasOwner'
  BY <1>0, <1>4, CreateEffect
<1>5. ASSUME NEW h \in Handlers, SetProcessingJobRetryCount(h) PROVE QueuedHasOwner'
  BY <1>0, <1>5, SetRetryEffect, SMTT(30)
<1>6. ASSUME NEW h \in Handlers, Late(h) PROVE QueuedHasOwner'
  BY <1>0, <1>6, LateCallEffect
<1>7. ASSUME NEW h \in Handlers, ExecuteApprovedPlan(h) PROVE QueuedHasOwner'
  <2> HIDE DEF QueuedHasOwner, CallBegun, CallMoved, CallEnded, CallKept, RowSet, RowKept,
      PassMoved, PassEnded, PassKept, EndsAreWritten, Active, HasOwner, Unharmed,
      TaskSettled, BlameKept, Placed, RowsExist, CallsHaveJobs, OneCallPerJob,
      TasksHaveJobs, PassesHaveTasks, MadeBeforeTask, PassesClaim, Holding, Making
  <2>1. task[api[h].job] = "none" => attempts[api[h].job] < MaxAttempts
    BY <1>0, <1>7, ExecuteEffect DEF Placed, TasksHaveJobs
  <2>2. task[api[h].job] = "none"
    BY <1>0, <1>7, ExecuteEffect DEF Placed, MadeBeforeTask, Making
  <2>3. QED
    BY <1>0, <1>7, ExecuteEffect, <2>1, <2>2
    DEF QueuedHasOwner, HasOwner, Unharmed, CallMoved, CallEnded, CallKept, BlameKept
<1>8. ASSUME NEW h \in Handlers, TryFail(h) PROVE QueuedHasOwner'
  BY <1>0, <1>8, TryFailEffect, SMTT(30)
<1>9. ASSUME NEW w \in Workers, NEW j \in JobIds, Deliver(w, j) PROVE QueuedHasOwner'
  BY <1>0, <1>9, DeliverEffect, SMTT(30)
<1>10. ASSUME NEW w \in Workers, Quiet(w) PROVE QueuedHasOwner'
  BY <1>0, <1>10, QuietPassEffect, SMTT(30)
<1>11. ASSUME NEW w \in Workers, MarkRunning(w) PROVE QueuedHasOwner'
  <2> HIDE DEF QueuedHasOwner, CallBegun, CallMoved, CallEnded, CallKept, RowSet, RowKept,
      PassMoved, PassEnded, PassKept, EndsAreWritten, Active, HasOwner, Unharmed,
      TaskSettled, BlameKept, Placed, RowsExist, CallsHaveJobs, OneCallPerJob,
      TasksHaveJobs, PassesHaveTasks, MadeBeforeTask, PassesClaim, Holding, Making
  <2>1. /\ UNCHANGED <<task, attempts, api>> /\ BlameKept
        /\ \A v \in Workers \ {w} : PassKept(v)
        /\ \A j \in JobIds : job'[j].status = "queued" => job[j].status = "queued"
    BY <1>0, <1>11, MarkRunningEffect DEF PassMoved, PassEnded, RowSet, RowKept
  <2>2. \A j \in JobIds :
          job'[j].status = "queued" => j # pass[w].job \/ "write" \in blame'[j]
    BY <1>0, <1>11, MarkRunningEffect DEF RowSet
  <2>3. QED
    BY <2>1, <2>2 DEF QueuedHasOwner, HasOwner, Unharmed, PassKept, BlameKept
<1>12. ASSUME NEW w \in Workers, Settle(w) PROVE QueuedHasOwner'
  <2> HIDE DEF QueuedHasOwner, CallBegun, CallMoved, CallEnded, CallKept, RowSet, RowKept,
      PassMoved, PassEnded, PassKept, EndsAreWritten, Active, HasOwner, Unharmed,
      TaskSettled, BlameKept, Placed, RowsExist, CallsHaveJobs, OneCallPerJob,
      TasksHaveJobs, PassesHaveTasks, MadeBeforeTask, PassesClaim, Holding, Making
  <2>1. job[pass[w].job].status # "queued"
    BY <1>0, <1>12, SettleEffect DEF Placed, PassesClaim
  <2>2. /\ UNCHANGED <<task, attempts, api>> /\ BlameKept
        /\ \A v \in Workers \ {w} : PassKept(v)
        /\ \A j \in JobIds : job'[j].status = "queued" => job[j].status = "queued"
    BY <1>0, <1>12, SettleEffect, <2>1 DEF PassMoved, PassEnded, RowSet, RowKept
  <2>3. QED
    BY <2>1, <2>2 DEF QueuedHasOwner, HasOwner, Unharmed, PassKept, BlameKept
<1>13. ASSUME NEW j \in JobIds, Decide(j) PROVE QueuedHasOwner'
  BY <1>0, <1>13, ApprovalEffect
<1>14. CASE UNCHANGED vars
  BY <1>0, <1>14 DEF vars
<1>15. QED
  BY <1>1, <1>2, <1>3, <1>4, <1>5, <1>6, <1>7, <1>8, <1>9, <1>10, <1>11, <1>12, <1>13, <1>14
  DEF Next, HandlerStep, WorkerStep, Begin, Late, Quiet, Settle, Decide

\* A running job keeps the pass that will write its end.
LEMMA RunningStep ==
  Shape /\ EndsAreWritten /\ RunningHasPass /\ [Next]_vars
    => RunningHasPass'
<1> SUFFICES ASSUME Shape /\ EndsAreWritten /\ RunningHasPass, [Next]_vars
             PROVE  RunningHasPass'
  OBVIOUS
<1>0. /\ Shape /\ Placed
      /\ JobIds = 1..MaxJobs /\ MaxJobs \in Nat /\ MaxAttempts \in Nat \ {0}
      /\ created \in 0..MaxJobs
      /\ \A j \in JobIds : job[j].retry \in Nat
      /\ \A j \in JobIds : job[j].doc \in Documents => j \in 1..created
  BY BoundsAssumption, DocumentsAssumption DEF Shape, Placed, RowsExist, TypeOK, JobIds, Row
<1> USE DEF RunningHasPass, CallBegun, CallMoved, CallEnded, CallKept, RowSet, RowKept,
      PassMoved, PassEnded, PassKept, EndsAreWritten, Active, HasOwner, Unharmed,
      TaskSettled, BlameKept, Placed, RowsExist, CallsHaveJobs, OneCallPerJob,
      TasksHaveJobs, PassesHaveTasks, MadeBeforeTask, PassesClaim, Holding, Making
<1>1. ASSUME NEW h \in Handlers, NEW d \in Documents, Begin(h, d)
      PROVE  RunningHasPass'
  BY <1>0, <1>1, BeginEffect
<1>2. ASSUME NEW h \in Handlers, NEW d \in Documents, AutoResumeScan(h, d)
      PROVE  RunningHasPass'
  BY <1>0, <1>2, ScanEffect
<1>3. ASSUME NEW h \in Handlers, AutoResumeRecheck(h) PROVE RunningHasPass'
  BY <1>0, <1>3, RecheckEffect
<1>4. ASSUME NEW h \in Handlers, CreateProcessingJob(h) PROVE RunningHasPass'
  BY <1>0, <1>4, CreateEffect
<1>5. ASSUME NEW h \in Handlers, SetProcessingJobRetryCount(h) PROVE RunningHasPass'
  BY <1>0, <1>5, SetRetryEffect
<1>6. ASSUME NEW h \in Handlers, Late(h) PROVE RunningHasPass'
  BY <1>0, <1>6, LateCallEffect
<1>7. ASSUME NEW h \in Handlers, ExecuteApprovedPlan(h) PROVE RunningHasPass'
  BY <1>0, <1>7, ExecuteEffect
<1>8. ASSUME NEW h \in Handlers, TryFail(h) PROVE RunningHasPass'
  BY <1>0, <1>8, TryFailEffect
<1>9. ASSUME NEW w \in Workers, NEW j \in JobIds, Deliver(w, j) PROVE RunningHasPass'
  BY <1>0, <1>9, DeliverEffect
<1>10. ASSUME NEW w \in Workers, Quiet(w) PROVE RunningHasPass'
  BY <1>0, <1>10, QuietPassEffect
<1>11. ASSUME NEW w \in Workers, MarkRunning(w) PROVE RunningHasPass'
  BY <1>0, <1>11, MarkRunningEffect, SMTT(30)
<1>12. ASSUME NEW w \in Workers, Settle(w) PROVE RunningHasPass'
  BY <1>0, <1>12, SettleEffect, SMTT(30)
<1>13. ASSUME NEW j \in JobIds, Decide(j) PROVE RunningHasPass'
  BY <1>0, <1>13, ApprovalEffect
<1>14. CASE UNCHANGED vars
  BY <1>0, <1>14 DEF vars
<1>15. QED
  BY <1>1, <1>2, <1>3, <1>4, <1>5, <1>6, <1>7, <1>8, <1>9, <1>10, <1>11, <1>12, <1>13, <1>14
  DEF Next, HandlerStep, WorkerStep, Begin, Late, Quiet, Settle, Decide

-----------------------------------------------------------------------------
(* The invariant, and what follows from it.                                *)

\* The invariant holds initially.
LEMMA InvInit == Init => Inv
<1> SUFFICES ASSUME Init PROVE Inv
  OBVIOUS
<1>1. Shape
  BY ShapeInit
<1>2. /\ \A j \in JobIds : job[j] = NoRow /\ mirror[j] = "none"
      /\ \A h \in Handlers : api[h] = NoCall
      /\ \A w \in Workers : pass[w] = NoPass
  BY DEF Init
<1>3. QED
  BY <1>1, <1>2
  DEF Inv, ChecksWereTrue, OverlapNeedsStaleCheck, CountsAreKept, EndsAreWritten,
      MirrorEndIsReal, QueuedHasOwner, RunningHasPass, Active, NoRow, NoCall, NoPass

\* And every step keeps it.
LEMMA InvStep == Inv /\ [Next]_vars => Inv'
BY ShapeStep, ChecksStep, OverlapStep, CountsStep, EndsStep, QueuedStep, RunningStep DEF Inv

\* The invariant holds in every reachable state, for every value of the constants.
THEOREM Invariance == Spec => []Inv
BY InvInit, InvStep, PTL DEF Spec

\* Every variable keeps its type.
THEOREM TypesAreKept == Spec => []TypeOK
<1>1. Inv => TypeOK
  BY DEF Inv, Shape
<1>2. QED
  BY <1>1, Invariance, PTL

\* No job in flight is left without somebody bound to move it on, unless a
\* crash, a failed statement or a rejection hit it: worker.go and document.go
\* never strand a job by an order of deliveries or a dispatch error.
THEOREM NothingIsStranded == Spec => []InFlightHasOwner
<1>1. Inv => InFlightHasOwner
  <2> SUFFICES ASSUME Inv, NEW j \in JobIds, Active(j), Unharmed(j) PROVE HasOwner(j)
    BY DEF InFlightHasOwner, Unharmed
  <2>1. CASE job[j].status = "queued"
    BY <2>1 DEF Inv, QueuedHasOwner
  <2>2. CASE job[j].status = "running"
    BY <2>2 DEF Inv, RunningHasPass, HasOwner
  <2>3. QED
    BY <2>1, <2>2 DEF Active
<1>2. QED
  BY <1>1, Invariance, PTL

\* Two runs of one document overlap only by force or by a stale check.
THEOREM OverlapsAreExplained == Spec => []OverlapNeedsStaleCheck
<1>1. Inv => OverlapNeedsStaleCheck
  BY DEF Inv
<1>2. QED
  BY <1>1, Invariance, PTL

\* An auto-resumed job that anybody has claimed carries its retry count.
THEOREM AutoResumesAreCounted == Spec => []AutoResumeIsCounted
<1>1. Inv => AutoResumeIsCounted
  BY DEF Inv, CountsAreKept, AutoResumeIsCounted
<1>2. QED
  BY <1>1, Invariance, PTL

\* The browser is never told of an end the database does not have.
THEOREM MirrorEndsAreReal == Spec => []MirrorEndIsReal
<1>1. Inv => MirrorEndIsReal
  BY DEF Inv
<1>2. QED
  BY <1>1, Invariance, PTL

-----------------------------------------------------------------------------
(* The retry count a pass works from.                                      *)

\* The pass has claimed its job.
Claims(w) == pass[w].pc \notin {"idle", "read", "approvals", "mark"}

\* Two passes that have claimed one job are remembered.
OverlapsAreBlamed ==
  \A v, w \in Workers :
    v # w /\ pass[v].job = pass[w].job /\ Claims(v) /\ Claims(w)
      => "race" \in blame[pass[w].job]

\* The copy of the count is the row's: before the claim as long as the job can
\* be claimed, after it unless another pass has claimed the job as well.
CopiesAreCurrent ==
  \A w \in Workers :
    LET current == pass[w].retry = job[pass[w].job].retry IN
    /\ pass[w].pc \in {"approvals", "mark"} /\ Active(pass[w].job) => current
    /\ pass[w].pc \in {"markMirror", "agent"} => current \/ "race" \in blame[pass[w].job]

\* How a pass goes on in a step that is its own.
PassGoes(w) ==
  \/ pass'[w].pc \in {"idle", "read"}
  \/ /\ pass[w].pc = "read" /\ pass'[w].pc = "approvals"
     /\ pass'[w].job = pass[w].job
     /\ job' = job /\ pass'[w].retry = job[pass[w].job].retry
  \/ /\ pass'[w].job = pass[w].job /\ pass'[w].retry = pass[w].retry
     /\ \/ pass[w].pc = "approvals" /\ pass'[w].pc = "mark"
        \/ /\ pass[w].pc = "mark" /\ pass'[w].pc = "markMirror"
           /\ Active(pass[w].job) /\ job'[pass[w].job].retry = job[pass[w].job].retry
           /\ \A v \in Workers \ {w} :
                pass[v].job = pass[w].job /\ Claims(v) => "race" \in blame'[pass[w].job]
        \/ pass[w].pc = "markMirror" /\ pass'[w].pc = "agent"
        \/ /\ Claims(w)
           /\ pass'[w].pc \in {"requeue", "complete", "completeMirror", "fail", "failMirror"}

\* A pass that moves on keeps its job and its copy.
LEMMA PassKeepsCopy ==
  ASSUME TypeOK, NEW w \in Workers, NEW pc, pass' = [pass EXCEPT ![w].pc = pc]
  PROVE  /\ \A v \in Workers \ {w} : pass'[v] = pass[v]
         /\ pass'[w].pc = pc /\ pass'[w].job = pass[w].job /\ pass'[w].retry = pass[w].retry
BY DEF TypeOK, Pass

\* A pass that answers is idle.
LEMMA PassAnswers ==
  ASSUME TypeOK, NEW w \in Workers, NEW ok, Answer(w, ok)
  PROVE  (\A v \in Workers \ {w} : pass'[v] = pass[v]) /\ PassGoes(w)
BY DEF TypeOK, Answer, NoPass, PassGoes

\* Each step of a pass is one of these, and the other passes stand still.
LEMMA PassStep ==
  ASSUME Shape, NEW w \in Workers, WorkerStep(w) \/ WorkerCrash(w)
  PROVE  (\A v \in Workers \ {w} : pass'[v] = pass[v]) /\ PassGoes(w)
<1> DEFINE Goal == (\A v \in Workers \ {w} : pass'[v] = pass[v]) /\ PassGoes(w)
<1>1. TypeOK
  BY DEF Shape
<1>2. CASE ReadJob(w)
  <2>1. CASE pass' = [pass EXCEPT ![w].pc = "approvals", ![w].retry = job[pass[w].job].retry]
    BY <1>1, <1>2, <2>1 DEF ReadJob, TypeOK, Pass, PassGoes
  <2>2. CASE \E ok \in BOOLEAN : Answer(w, ok)
    BY <1>1, <2>2, PassAnswers
  <2>3. QED
    BY <1>2, <2>1, <2>2 DEF ReadJob
<1>3. CASE CheckApprovals(w)
  <2>1. CASE pass' = [pass EXCEPT ![w].pc = "mark"]
    BY <1>1, <1>3, <2>1, PassKeepsCopy DEF CheckApprovals, PassGoes
  <2>2. CASE \E ok \in BOOLEAN : Answer(w, ok)
    BY <1>1, <2>2, PassAnswers
  <2>3. QED
    BY <1>3, <2>1, <2>2 DEF CheckApprovals
<1>4. CASE MarkRunning(w)
  <2>1. CASE /\ job[pass[w].job].status \in Markable
             /\ SetStatus(pass[w].job, "running")
             /\ pass' = [pass EXCEPT ![w].pc = "markMirror"]
             /\ blame' = IF HasOtherWriter(w, pass[w].job)
                         THEN [blame EXCEPT ![pass[w].job] = @ \cup {"race"}] ELSE blame
    <3>1. pass[w].pc = "mark" /\ pass[w].job \in JobIds
      BY <1>4, ActivePasses DEF MarkRunning
    <3>2. Active(pass[w].job) /\ job'[pass[w].job].retry = job[pass[w].job].retry
      BY <1>1, <2>1, <3>1, RowSets DEF SetStatus, RowSet, Active, Markable
    <3>3. ASSUME NEW v \in Workers \ {w}, pass[v].job = pass[w].job, Claims(v)
          PROVE  "race" \in blame'[pass[w].job]
      <4>1. HasOtherWriter(w, pass[w].job)
        BY <3>3 DEF HasOtherWriter, Claims
      <4>2. QED
        BY <1>1, <2>1, <3>1, <4>1 DEF TypeOK
    <3>4. QED
      BY <1>1, <2>1, <3>1, <3>2, <3>3, PassKeepsCopy DEF PassGoes
  <2>2. CASE \E ok \in BOOLEAN : Answer(w, ok)
    BY <1>1, <2>2, PassAnswers
  <2>3. QED
    BY <1>4, <2>1, <2>2 DEF MarkRunning
<1>5. CASE MarkRunningNotify(w)
  BY <1>1, <1>5, PassKeepsCopy DEF MarkRunningNotify, PassGoes
<1>6. CASE ProcessDocument(w)
  <2>1. PICK next \in {"complete", "fail", "requeue"} :
          pass' = [pass EXCEPT ![w].pc = next]
    BY <1>6 DEF ProcessDocument
  <2>2. QED
    BY <1>1, <1>6, <2>1, PassKeepsCopy DEF ProcessDocument, PassGoes, Claims
<1>7. CASE RequeueProcessingJobForRetry(w) \/ CompleteProcessingJob(w) \/ FailProcessingJob(w)
  <2>1. CASE \E pc \in {"fail", "completeMirror", "failMirror"} :
               pass' = [pass EXCEPT ![w].pc = pc]
    <3>1. Claims(w)
      BY <1>7 DEF RequeueProcessingJobForRetry, CompleteProcessingJob, FailProcessingJob, Claims
    <3>2. QED
      BY <1>1, <2>1, <3>1, PassKeepsCopy DEF PassGoes
  <2>2. CASE \E ok \in BOOLEAN : Answer(w, ok)
    BY <1>1, <2>2, PassAnswers
  <2>3. QED
    BY <1>7, <2>1, <2>2
    DEF RequeueProcessingJobForRetry, CompleteProcessingJob, FailProcessingJob
<1>8. CASE CompleteNotify(w) \/ FailNotify(w) \/ WorkerCrash(w)
  BY <1>1, <1>8, PassAnswers DEF CompleteNotify, FailNotify, WorkerCrash
<1>9. QED
  BY <1>2, <1>3, <1>4, <1>5, <1>6, <1>7, <1>8 DEF WorkerStep

\* The row of a job that has a task: its count stands, and it does not come back
\* into flight, unless a pass requeues it.
RowGoes(j) ==
  \/ job'[j].retry = job[j].retry /\ (Active(j)' => Active(j))
  \/ /\ job'[j].status = "retryable"
     /\ \E u \in Workers : pass[u].job = j /\ pass[u].pc = "requeue" /\ pass'[u].pc = "idle"

\* Every step treats such a row so.
LEMMA RowStep ==
  ASSUME Shape, NEW j \in JobIds, task[j] # "none", [Next]_vars
  PROVE  RowGoes(j) /\ BlameKept
<1>1. TypeOK /\ Placed
  BY DEF Shape
<1>2. ASSUME NEW h \in Handlers, CreateProcessingJob(h) PROVE RowGoes(j) /\ BlameKept
  <2>1. j # created + 1
    BY <1>1 DEF Placed, TasksHaveJobs, TypeOK, JobIds
  <2>2. blame' = blame
    BY <1>2 DEF CreateProcessingJob
  <2>3. job'[j] = job[j]
    BY <1>2, <2>1, CreateEffect
  <2>4. QED
    BY <2>2, <2>3 DEF RowGoes, Active, BlameKept
<1>3. ASSUME NEW h \in Handlers, SetProcessingJobRetryCount(h)
      PROVE  RowGoes(j) /\ BlameKept
  <2>1. j # api[h].job
    BY <1>1, <1>3, SetRetryEffect DEF Placed, MadeBeforeTask, Making
  <2>2. QED
    BY <1>3, <2>1, SetRetryEffect DEF RowGoes, RowSet, RowKept, Active
<1>4. ASSUME NEW h \in Handlers, TryFail(h) PROVE RowGoes(j) /\ BlameKept
  BY <1>4, TryFailEffect DEF RowGoes, RowSet, RowKept, Active
<1>5. ASSUME NEW w \in Workers, MarkRunning(w) PROVE RowGoes(j) /\ BlameKept
  BY <1>5, MarkRunningEffect DEF RowGoes, RowSet, RowKept, Active
<1>6. ASSUME NEW w \in Workers, Settle(w) PROVE RowGoes(j) /\ BlameKept
  BY <1>6, SettleEffect DEF RowGoes, RowSet, RowKept, Active, PassEnded
<1>7. ASSUME UNCHANGED job PROVE RowGoes(j)
  BY <1>7 DEF RowGoes, Active
<1>8. ASSUME NEW h \in Handlers, NEW d \in Documents, Begin(h, d) \/ AutoResumeScan(h, d)
      PROVE  RowGoes(j) /\ BlameKept
  BY <1>7, <1>8, BeginEffect, ScanEffect DEF BlameKept
<1>9. ASSUME NEW h \in Handlers, AutoResumeRecheck(h) \/ Late(h) \/ ExecuteApprovedPlan(h)
      PROVE  RowGoes(j) /\ BlameKept
  BY <1>7, <1>9, RecheckEffect, LateCallEffect, ExecuteEffect DEF BlameKept
<1>10. ASSUME NEW i \in JobIds, Decide(i) \/ \E w \in Workers : Deliver(w, i)
       PROVE  RowGoes(j) /\ BlameKept
  BY <1>7, <1>10, ApprovalEffect, DeliverEffect DEF BlameKept
<1>11. ASSUME NEW w \in Workers, Quiet(w) PROVE RowGoes(j) /\ BlameKept
  BY <1>7, <1>11, QuietPassEffect
<1>12. CASE UNCHANGED vars
  BY <1>7, <1>12 DEF vars, BlameKept
<1>13. QED
  BY <1>2, <1>3, <1>4, <1>5, <1>6, <1>8, <1>9, <1>10, <1>11, <1>12
  DEF Next, HandlerStep, WorkerStep, Begin, Late, Quiet, Settle, Decide

\* A step moves one pass at most, as PassGoes says.
LEMMA OnePassMoves ==
  ASSUME Shape, [Next]_vars
  PROVE  \/ \A v \in Workers : pass'[v] = pass[v]
         \/ \E w \in Workers : PassGoes(w) /\ \A v \in Workers \ {w} : pass'[v] = pass[v]
<1>1. ASSUME NEW w \in Workers, WorkerStep(w) \/ WorkerCrash(w)
      PROVE  PassGoes(w) /\ \A v \in Workers \ {w} : pass'[v] = pass[v]
  BY <1>1, PassStep
<1>2. ASSUME NEW w \in Workers, NEW j \in JobIds, Deliver(w, j)
      PROVE  PassGoes(w) /\ \A v \in Workers \ {w} : pass'[v] = pass[v]
  BY <1>2 DEF Deliver, Shape, TypeOK, NoPass, PassGoes
<1>3. ASSUME NEW h \in Handlers, HandlerStep(h) \/ HandlerCrash(h) PROVE UNCHANGED pass
  BY <1>3 DEF HandlerStep, HandlerCrash, AutoResumeRecheck, CreateProcessingJob,
     SetProcessingJobRetryCount, NotifyQueued, GenerateExecutionPlan, ExecuteApprovedPlan,
     TryFail, TryFailNotify
<1>4. ASSUME NEW h \in Handlers, NEW d \in Documents, Begin(h, d) \/ AutoResumeScan(h, d)
      PROVE  UNCHANGED pass
  BY <1>4, BeginEffect, ScanEffect
<1>5. ASSUME NEW j \in JobIds, Decide(j) PROVE UNCHANGED pass
  BY <1>5, ApprovalEffect
<1>6. QED
  BY <1>1, <1>2, <1>3, <1>4, <1>5 DEF Next, vars, Begin, Decide

\* A pass at work has a job, which has a task.
LEMMA WorkHasTask ==
  ASSUME Shape, NEW w \in Workers, pass[w].pc # "idle"
  PROVE  pass[w].job \in JobIds /\ task[pass[w].job] # "none"
BY ActivePasses DEF Shape, Placed, PassesHaveTasks

\* Whoever claims second is remembered.
LEMMA BlamedStep == Shape /\ OverlapsAreBlamed /\ [Next]_vars => OverlapsAreBlamed'
<1> SUFFICES ASSUME Shape, OverlapsAreBlamed, [Next]_vars,
                    NEW v \in Workers, NEW w \in Workers, v # w,
                    pass'[v].job = pass'[w].job, Claims(v)', Claims(w)'
             PROVE  "race" \in blame'[pass'[w].job]
  BY DEF OverlapsAreBlamed
<1>1. ASSUME NEW u \in Workers, Claims(u)', ~ Claims(u), PassGoes(u)
      PROVE  /\ pass[u].pc = "mark" /\ pass'[u].job = pass[u].job
             /\ \A x \in Workers \ {u} :
                  pass[x].job = pass[u].job /\ Claims(x) => "race" \in blame'[pass[u].job]
  BY <1>1 DEF PassGoes, Claims
<1>2. ASSUME NEW u \in Workers, Claims(u)', Claims(u), PassGoes(u)
      PROVE  pass'[u].job = pass[u].job
  BY <1>2 DEF PassGoes, Claims
<1>3. ASSUME NEW u \in Workers, pass'[u] = pass[u], Claims(u)'
      PROVE  Claims(u)
  BY <1>3 DEF Claims
<1>4. CASE Claims(v) /\ Claims(w)
  <2>1. pass'[v].job = pass[v].job /\ pass'[w].job = pass[w].job
    BY <1>2, <1>4, OnePassMoves
  <2>2. "race" \in blame[pass[w].job]
    BY <1>4, <2>1 DEF OverlapsAreBlamed
  <2>3. pass[w].job \in JobIds /\ task[pass[w].job] # "none"
    BY <1>4, WorkHasTask DEF Claims
  <2>4. QED
    BY <2>1, <2>2, <2>3, RowStep DEF BlameKept
<1>5. CASE ~ Claims(v)
  <2>1. PassGoes(v) /\ pass'[w] = pass[w]
    BY <1>3, <1>5, OnePassMoves
  <2>2. QED
    BY <1>1, <1>3, <1>5, <2>1
<1>6. CASE ~ Claims(w)
  <2>1. PassGoes(w) /\ pass'[v] = pass[v]
    BY <1>3, <1>6, OnePassMoves
  <2>2. QED
    BY <1>1, <1>3, <1>6, <2>1
<1>7. QED
  BY <1>4, <1>5, <1>6

\* A requeue by another pass makes a copy stale only behind an overlap.
LEMMA CopiesStep ==
  Shape /\ OverlapsAreBlamed /\ CopiesAreCurrent /\ [Next]_vars => CopiesAreCurrent'
<1> SUFFICES ASSUME Shape, OverlapsAreBlamed, CopiesAreCurrent, [Next]_vars,
                    NEW w \in Workers,
                    pass'[w].pc \in {"approvals", "mark", "markMirror", "agent"}
             PROVE  LET current == pass'[w].retry = job'[pass'[w].job].retry IN
                    /\ pass'[w].pc \in {"approvals", "mark"} /\ Active(pass[w].job)' => current
                    /\ pass'[w].pc \in {"markMirror", "agent"} =>
                         current \/ "race" \in blame'[pass'[w].job]
  BY DEF CopiesAreCurrent
<1> DEFINE j == pass[w].job
           Before == \/ pass[w].pc \in {"approvals", "mark"} /\ ~ Active(j)
                     \/ pass[w].pc \in {"markMirror", "agent"} /\ "race" \in blame[j]
                     \/ pass[w].pc \in {"approvals", "mark", "markMirror", "agent"}
                          /\ pass[w].retry = job[j].retry
<1>1. pass'[w] = pass[w] \/ PassGoes(w)
  BY OnePassMoves
<1>2. pass[w].pc # "idle" /\ pass'[w].job = j
  BY <1>1 DEF PassGoes, Claims
<1>3. j \in JobIds /\ task[j] # "none"
  BY <1>2, WorkHasTask
<1>4. RowGoes(j) /\ BlameKept
  BY <1>3, RowStep
<1>5. CASE pass[w].pc = "read"
  <2>1. PassGoes(w) /\ job' = job /\ pass'[w].retry = job[j].retry
        /\ pass'[w].pc = "approvals"
    BY <1>1, <1>5 DEF PassGoes, Claims
  <2>2. QED
    BY <1>2, <2>1
<1>6. CASE pass[w].pc # "read"
  <2>1. /\ pass'[w].retry = pass[w].retry
        /\ pass[w].pc \in {"approvals", "mark", "markMirror", "agent"}
        /\ pass'[w].pc \in {"approvals", "mark"} => pass[w].pc \in {"approvals", "mark"}
        /\ pass'[w].pc \in {"markMirror", "agent"} /\ pass[w].pc \in {"approvals", "mark"} =>
             pass[w].pc = "mark" /\ Active(j) /\ job'[j].retry = job[j].retry
    BY <1>1, <1>6 DEF PassGoes, Claims
  <2>2. Before
    BY <2>1 DEF CopiesAreCurrent
  <2>3. CASE job'[j].retry = job[j].retry /\ (Active(j)' => Active(j))
    <3>1. Active(pass[w].job)' => Active(j)'
      BY <1>2 DEF Active
    <3>2. QED
      BY <1>2, <1>3, <1>4, <2>1, <2>2, <2>3, <3>1 DEF BlameKept
  <2>4. CASE /\ job'[j].status = "retryable"
             /\ \E u \in Workers : pass[u].job = j /\ pass[u].pc = "requeue" /\ pass'[u].pc = "idle"
    <3>1. PICK u \in Workers : pass[u].job = j /\ pass[u].pc = "requeue" /\ pass'[u].pc = "idle"
      BY <2>4
    <3>2. u # w /\ pass'[w] = pass[w]
      BY <2>1, <3>1, OnePassMoves
    <3>3. Claims(w) => "race" \in blame'[j]
      BY <1>3, <1>4, <3>1, <3>2 DEF OverlapsAreBlamed, Claims, BlameKept
    <3>4. ~ Active(pass[w].job)'
      BY <1>2, <2>4 DEF Active
    <3>5. QED
      BY <1>2, <2>1, <3>2, <3>3, <3>4 DEF Claims
  <2>5. QED
    BY <1>4, <2>3, <2>4 DEF RowGoes
<1>7. QED
  BY <1>5, <1>6

\* When a pass decides by the retry count whether its job is requeued, the count
\* is the row's (worker.go reads it once, minutes earlier), unless two passes
\* have claimed the job.
THEOREM CountsAreCurrent == Spec => []StaleCountNeedsOverlap
<1> DEFINE Copies == Shape /\ OverlapsAreBlamed /\ CopiesAreCurrent
<1>1. Init => Copies
  <2>1. Init => \A w \in Workers : pass[w].pc = "idle"
    BY DEF Init, NoPass
  <2>2. QED
    BY <2>1, ShapeInit DEF OverlapsAreBlamed, CopiesAreCurrent, Claims
<1>2. Copies /\ [Next]_vars => Copies'
  BY ShapeStep, BlamedStep, CopiesStep
<1>3. Copies => StaleCountNeedsOverlap
  BY DEF CopiesAreCurrent, StaleCountNeedsOverlap
<1>4. QED
  BY <1>1, <1>2, <1>3, PTL DEF Spec

-----------------------------------------------------------------------------
(* What the mirror shows.                                                  *)

\* Nothing has gone wrong that the mirror of the job is not bound to survive.
Watched(j) == blame[j] \cap {"crash", "write", "mirror", "race"} = {}

\* The writers of a job's row and mirror: its handler, and a pass that claimed it.
Holds(h, j) == api[h].job = j
Writes(w, j) == pass[w].job = j /\ Claims(w)

\* A job nobody writes is shown as it is.  A handler gives the job to the queue
\* after the mirror says it is queued, and tells the mirror of a failure after
\* the row has it; it shares the job with no pass that has claimed it.  A pass
\* works once the mirror says it is running, and tells it of an end the row has;
\* it shares the job with no other pass.
ShownAtRest(j) ==
  \/ \E h \in Handlers : Holds(h, j)
  \/ \E w \in Workers : Writes(w, j)
  \/ mirror[j] = MirrorOf(job[j].status)

CallShows(h, j) ==
  /\ api[h].pc \in {"plan", "execute"} => mirror[j] = "queued"
  /\ api[h].pc = "failMirror" => job[j].status = "failed"
  /\ \A w \in Workers : ~ Writes(w, j)

PassShows(w, j) ==
  /\ pass[w].pc \in {"agent", "requeue", "complete", "fail"} => mirror[j] = "running"
  /\ pass[w].pc = "completeMirror" => job[j].status = "succeeded"
  /\ pass[w].pc = "failMirror" => job[j].status = "failed"
  /\ \A v \in Workers \ {w} : ~ Writes(v, j)

Shown(j) ==
  /\ ShownAtRest(j)
  /\ \A h \in Handlers : Holds(h, j) => CallShows(h, j)
  /\ \A w \in Workers : Writes(w, j) => PassShows(w, j)

MirrorIsKept == \A j \in JobIds : Watched(j) => Shown(j)

\* What a step leaves alone, seen from one job.
RowStill(j) == job'[j].status = job[j].status
MirrorStill(j) == mirror'[j] = mirror[j]
CallStill(h, j) ==
  /\ Holds(h, j)' = Holds(h, j)
  /\ Holds(h, j) => api'[h].pc = api[h].pc
PassStill(w, j) ==
  /\ Writes(w, j)' = Writes(w, j)
  /\ Writes(w, j) => pass'[w].pc = pass[w].pc

\* A step that leaves alone the row, the mirror and the writers of a job keeps
\* it shown.
LEMMA StillShown ==
  ASSUME NEW j \in JobIds, Shown(j), RowStill(j), MirrorStill(j),
         \A h \in Handlers : CallStill(h, j), \A w \in Workers : PassStill(w, j)
  PROVE  Shown(j)'
<1>1. \A w \in Workers : Writes(w, j)' = Writes(w, j)
  BY DEF PassStill
<1>2. ShownAtRest(j)'
  BY <1>1 DEF Shown, ShownAtRest, RowStill, MirrorStill, CallStill
<1>3. ASSUME NEW h \in Handlers, Holds(h, j)' PROVE CallShows(h, j)'
  BY <1>1, <1>3 DEF Shown, CallShows, RowStill, MirrorStill, CallStill
<1>4. ASSUME NEW w \in Workers, Writes(w, j)' PROVE PassShows(w, j)'
  BY <1>1, <1>4 DEF Shown, PassShows, RowStill, MirrorStill, PassStill
<1>5. QED
  BY <1>2, <1>3, <1>4 DEF Shown

\* A step that moves on the one handler of a job.
LEMMA HolderShown ==
  ASSUME NEW j \in JobIds, Shown(j), NEW h \in Handlers, Holds(h, j),
         \A g \in Handlers \ {h} : ~ Holds(g, j)',
         \A w \in Workers : Writes(w, j)' = Writes(w, j),
         IF Holds(h, j)'
         THEN /\ api'[h].pc \in {"plan", "execute"} => mirror'[j] = "queued"
              /\ api'[h].pc = "failMirror" => job'[j].status = "failed"
         ELSE mirror'[j] = MirrorOf(job'[j].status)
  PROVE  Shown(j)'
<1>1. \A w \in Workers : ~ Writes(w, j)'
  BY DEF Shown, CallShows
<1>2. ShownAtRest(j)'
  BY DEF ShownAtRest
<1>3. ASSUME NEW g \in Handlers, Holds(g, j)' PROVE CallShows(g, j)'
  BY <1>1, <1>3 DEF CallShows
<1>4. QED
  BY <1>1, <1>2, <1>3 DEF Shown

\* A step that moves on, or begins, the one pass that has claimed a job.
LEMMA WriterShown ==
  ASSUME NEW j \in JobIds, NEW w \in Workers,
         \A h \in Handlers : ~ Holds(h, j)',
         \A v \in Workers \ {w} : ~ Writes(v, j)',
         IF Writes(w, j)'
         THEN /\ pass'[w].pc \in {"agent", "requeue", "complete", "fail"} =>
                   mirror'[j] = "running"
              /\ pass'[w].pc = "completeMirror" => job'[j].status = "succeeded"
              /\ pass'[w].pc = "failMirror" => job'[j].status = "failed"
         ELSE mirror'[j] = MirrorOf(job'[j].status)
  PROVE  Shown(j)'
<1>1. ShownAtRest(j)'
  BY DEF ShownAtRest
<1>2. ASSUME NEW v \in Workers, Writes(v, j)' PROVE PassShows(v, j)'
  BY <1>2 DEF PassShows
<1>3. QED
  BY <1>1, <1>2 DEF Shown

\* A write to the mirror of a job lands, or is remembered as lost.
LEMMA MirrorLands ==
  ASSUME TypeOK, NEW j \in JobIds, NEW state, MirrorWrite(j, state)
  PROVE  /\ mirror'[j] = state \/ "mirror" \in blame'[j]
         /\ \A i \in JobIds \ {j} : MirrorStill(i)
BY FaultBlames DEF MirrorWrite, MirrorStill, TypeOK

\* A pass that is kept is the same writer as before.
LEMMA KeptWrites ==
  ASSUME NEW v \in Workers, NEW j, PassKept(v)
  PROVE  PassStill(v, j)
BY DEF PassKept, PassStill, Writes, Claims

\* A job with a handler at work has no other.
LEMMA OneHolder ==
  ASSUME Shape, NEW j \in JobIds, NEW h \in Handlers, Holds(h, j),
         \A g \in Handlers \ {h} : CallKept(g)
  PROVE  \A g \in Handlers \ {h} : ~ Holds(g, j)'
<1>1. j # 0
  BY BoundsAssumption DEF JobIds
<1>2. QED
  BY <1>1 DEF Holds, CallKept, Shape, Placed, OneCallPerJob

\* A step of a handler that touches no pass leaves the passes the same writers.
LEMMA SameWriters ==
  ASSUME pass' = pass, NEW j
  PROVE  \A w \in Workers : PassStill(w, j)
BY DEF PassStill, Writes, Claims

\* A handler at work on another job leaves a job's handlers alone.
LEMMA OtherCallStill ==
  ASSUME NEW j \in JobIds, NEW h \in Handlers, api[h].job # j, api'[h].job # j,
         \A g \in Handlers \ {h} : CallKept(g)
  PROVE  \A g \in Handlers : CallStill(g, j)
BY DEF CallStill, Holds, CallKept

\* A call that has no job yet, or ends before it has one, leaves every job shown.
LEMMA ShownBeforeJob ==
  ASSUME Shape, NEW j \in JobIds, Shown(j), NEW h \in Handlers,
         api[h].pc \in {"idle", "recheck"}, api'[h].job = 0,
         \A g \in Handlers \ {h} : CallKept(g), UNCHANGED <<job, mirror, pass>>
  PROVE  Shown(j)'
<1>1. j # 0 /\ api[h].job = 0
  BY DEF JobIds, Shape, Placed, CallsHaveJobs, Holding, Making
<1>2. \A g \in Handlers : CallStill(g, j)
  BY <1>1, OtherCallStill
<1>3. \A w \in Workers : PassStill(w, j)
  BY SameWriters
<1>4. QED
  BY <1>2, <1>3, StillShown DEF RowStill, MirrorStill

\* The new row is queued, and its handler has yet to tell the mirror.
LEMMA ShownByCreate ==
  ASSUME Shape, NEW j \in JobIds, Shown(j), NEW h \in Handlers, CreateProcessingJob(h)
  PROVE  Shown(j)'
<1>1. \A w \in Workers : PassStill(w, j)
  BY CreateEffect, SameWriters
<1>2. api[h].job = 0 /\ created \in Nat /\ j # 0
  <2>1. api[h].pc = "create"
    BY DEF CreateProcessingJob
  <2>2. api[h].job = 0
    BY <2>1 DEF Shape, Placed, CallsHaveJobs, Holding, Making
  <2>3. created \in Nat /\ j # 0
    BY BoundsAssumption DEF JobIds, Shape, TypeOK
  <2>4. QED
    BY <2>2, <2>3
<1>3. CASE j = created + 1
  <2>1. \A w \in Workers : ~ Writes(w, j)
    BY <1>2, <1>3 DEF Shape, Placed, PassesHaveTasks, Writes, Claims
  <2>2. \A g \in Handlers \ {h} : ~ Holds(g, j)'
    BY <1>2, <1>3, CreateEffect DEF Shape, Placed, CallsHaveJobs, Holds, CallKept
  <2>3. Holds(h, j)' /\ api'[h].pc \in {"setRetry", "notify"}
    BY <1>3, CreateEffect DEF Holds
  <2>4. \A w \in Workers : ~ Writes(w, j)'
    BY <1>1, <2>1 DEF PassStill
  <2>5. QED
    BY <2>2, <2>3, <2>4 DEF Shown, ShownAtRest, CallShows
<1>4. CASE j # created + 1
  <2>1. RowStill(j) /\ MirrorStill(j)
    BY <1>4, CreateEffect DEF RowStill, MirrorStill
  <2>2. \A g \in Handlers : CallStill(g, j)
    BY <1>2, <1>4, CreateEffect, OtherCallStill
  <2>3. QED
    BY <1>1, <2>1, <2>2, StillShown
<1>5. QED
  BY <1>3, <1>4

\* What a step of a handler that has a job does to it, and that it touches no
\* other: the mirror says queued before the job is given away, and failed after
\* the row does.
HandlerMoves(h) ==
  LET i == api[h].job IN
  \/ api[h].pc = "setRetry" /\ RowStill(i) /\ MirrorStill(i) /\ CallMoved(h, "notify")
  \/ api[h].pc = "notify" /\ RowStill(i) /\ mirror'[i] = "queued" /\ CallMoved(h, "plan")
  \/ /\ api[h].pc \in {"plan", "execute"} /\ RowStill(i) /\ MirrorStill(i)
     /\ \E pc \in {"execute", "fail"} : CallMoved(h, pc)
  \/ api[h].pc = "execute" /\ RowStill(i) /\ MirrorStill(i) /\ CallEnded(h)
  \/ /\ api[h].pc = "fail" /\ job'[i].status = "failed" /\ MirrorStill(i)
     /\ CallMoved(h, "failMirror")
  \/ api[h].pc = "failMirror" /\ RowStill(i) /\ mirror'[i] = "failed" /\ CallEnded(h)

HandlerWork(h) ==
  \/ SetProcessingJobRetryCount(h) \/ Late(h) \/ ExecuteApprovedPlan(h) \/ TryFail(h)

\* Nothing of the kind has gone wrong by the end of the step.
StaysWatched(j) == blame'[j] \cap {"crash", "write", "mirror", "race"} = {}

\* A handler's step has such an effect, or something has gone wrong.
LEMMA HandlerWorks ==
  ASSUME Shape, NEW h \in Handlers, HandlerWork(h), api[h].job \in JobIds
  PROVE  /\ HandlerMoves(h) \/ ~ StaysWatched(api[h].job)
         /\ \A g \in Handlers \ {h} : CallKept(g)
         /\ api'[h].job \in {0, api[h].job}
         /\ \A j \in JobIds \ {api[h].job} : RowStill(j) /\ MirrorStill(j)
         /\ pass' = pass
<1>1. TypeOK
  BY DEF Shape
<1>2. CASE SetProcessingJobRetryCount(h)
  <2>1. \A j \in JobIds \ {api[h].job} : RowStill(j) /\ MirrorStill(j)
    BY <1>2, SetRetryEffect DEF RowStill, MirrorStill, RowSet, RowKept
  <2>2. HandlerMoves(h) \/ ~ StaysWatched(api[h].job)
    <3>1. CASE CallEnded(h) /\ "write" \in blame'[api[h].job]
      BY <3>1 DEF StaysWatched
    <3>2. CASE RowSet(api[h].job, job[api[h].job].status, api[h].retry) /\ CallMoved(h, "notify")
      BY <1>2, <3>2, SetRetryEffect DEF RowStill, MirrorStill, RowSet, HandlerMoves
    <3>3. QED
      BY <1>2, <3>1, <3>2, SetRetryEffect
  <2>3. QED
    BY <1>2, <2>1, <2>2, SetRetryEffect DEF CallMoved, CallEnded
<1>3. CASE NotifyQueued(h)
  <2>1. CallMoved(h, "plan")
    BY <1>1, <1>3, CallMovedBy DEF NotifyQueued
  <2>2. mirror'[api[h].job] = "queued" \/ ~ StaysWatched(api[h].job)
    BY <1>1, <1>3, MirrorLands DEF NotifyQueued, StaysWatched
  <2>3. \A j \in JobIds \ {api[h].job} : MirrorStill(j)
    BY <1>1, <1>3, MirrorLands DEF NotifyQueued
  <2>4. \A j \in JobIds : RowStill(j)
    BY <1>3 DEF NotifyQueued, RowStill
  <2>5. QED
    BY <1>3, <2>1, <2>2, <2>3, <2>4 DEF NotifyQueued, HandlerMoves, CallMoved
<1>4. CASE GenerateExecutionPlan(h)
  <2>1. \E pc \in {"execute", "fail"} : CallMoved(h, pc)
    BY <1>1, <1>4, CallMovedBy DEF GenerateExecutionPlan
  <2>2. \A j \in JobIds : RowStill(j) /\ MirrorStill(j)
    BY <1>4 DEF GenerateExecutionPlan, RowStill, MirrorStill
  <2>3. QED
    BY <1>4, <2>1, <2>2 DEF GenerateExecutionPlan, HandlerMoves, CallMoved
<1>5. CASE TryFailNotify(h)
  <2>1. CallEnded(h)
    BY <1>1, <1>5, CallEnds DEF TryFailNotify
  <2>2. mirror'[api[h].job] = "failed" \/ ~ StaysWatched(api[h].job)
    BY <1>1, <1>5, MirrorLands DEF TryFailNotify, StaysWatched
  <2>3. \A j \in JobIds \ {api[h].job} : MirrorStill(j)
    BY <1>1, <1>5, MirrorLands DEF TryFailNotify
  <2>4. \A j \in JobIds : RowStill(j)
    BY <1>5 DEF TryFailNotify, RowStill
  <2>5. QED
    BY <1>5, <2>1, <2>2, <2>3, <2>4 DEF TryFailNotify, HandlerMoves, CallEnded
<1>6. CASE HandlerCrash(h)
  <2>1. CallEnded(h) /\ "crash" \in blame'[api[h].job]
    BY <1>1, <1>6, CallEnds, FaultBlames DEF HandlerCrash
  <2>2. QED
    BY <1>6, <2>1 DEF HandlerCrash, CallEnded, RowStill, MirrorStill, StaysWatched
<1>7. CASE ExecuteApprovedPlan(h)
  BY <1>7, ExecuteEffect DEF RowStill, MirrorStill, HandlerMoves, CallMoved, CallEnded
<1>8. CASE TryFail(h)
  <2>1. \A j \in JobIds \ {api[h].job} : RowStill(j) /\ MirrorStill(j)
    BY <1>8, TryFailEffect DEF RowStill, MirrorStill, RowSet, RowKept
  <2>2. HandlerMoves(h) \/ ~ StaysWatched(api[h].job)
    <3>1. CASE "write" \in blame'[api[h].job]
      BY <3>1 DEF StaysWatched
    <3>2. CASE RowSet(api[h].job, "failed", job[api[h].job].retry)
      BY <1>8, <3>2, TryFailEffect DEF MirrorStill, RowSet, HandlerMoves
    <3>3. QED
      BY <1>8, <3>1, <3>2, TryFailEffect
  <2>3. QED
    BY <1>8, <2>1, <2>2, TryFailEffect DEF CallMoved
<1>9. QED
  BY <1>2, <1>3, <1>4, <1>5, <1>6, <1>7, <1>8 DEF HandlerWork, Late

\* So a handler's step keeps a watched job shown.
LEMMA ShownByHandler ==
  ASSUME Shape, NEW j \in JobIds, Shown(j), StaysWatched(j), NEW h \in Handlers,
         HandlerWork(h), api[h].job \in JobIds
  PROVE  Shown(j)'
<1>1. /\ HandlerMoves(h) \/ ~ StaysWatched(api[h].job)
      /\ \A g \in Handlers \ {h} : CallKept(g)
      /\ api'[h].job \in {0, api[h].job}
      /\ \A i \in JobIds \ {api[h].job} : RowStill(i) /\ MirrorStill(i)
      /\ pass' = pass
  BY HandlerWorks
<1>2. \A w \in Workers : PassStill(w, j)
  BY <1>1, SameWriters
<1>3. CASE j # api[h].job
  <2>1. \A g \in Handlers : CallStill(g, j)
    BY <1>1, <1>3, OtherCallStill DEF JobIds
  <2>2. QED
    BY <1>1, <1>2, <1>3, <2>1, StillShown
<1>4. CASE j = api[h].job
  <2>1. Holds(h, j) /\ HandlerMoves(h)
    BY <1>1, <1>4 DEF Holds
  <2>2. \A g \in Handlers \ {h} : ~ Holds(g, j)'
    BY <1>1, <2>1, OneHolder
  <2>3. CallShows(h, j)
    BY <2>1 DEF Shown
  <2>4. api[h].pc \in Making => job[j].status = "queued"
    BY <1>4 DEF Shape, Placed, MadeBeforeTask
  <2>5. CASE \E pc \in {"notify", "plan", "execute", "fail", "failMirror"} : CallMoved(h, pc)
    <3>1. Holds(h, j)'
      BY <1>4, <2>5 DEF Holds, CallMoved
    <3>2. /\ api'[h].pc \in {"plan", "execute"} => mirror'[j] = "queued"
          /\ api'[h].pc = "failMirror" => job'[j].status = "failed"
      BY <1>4, <2>1, <2>3, <2>5 DEF HandlerMoves, CallMoved, CallEnded, CallShows, MirrorStill
    <3>3. QED
      BY <1>2, <2>1, <2>2, <3>1, <3>2, HolderShown DEF PassStill
  <2>6. CASE CallEnded(h)
    <3>1. ~ Holds(h, j)'
      BY <2>6 DEF Holds, CallEnded, JobIds
    <3>2. mirror'[j] = MirrorOf(job'[j].status)
      BY <1>4, <2>1, <2>3, <2>4, <2>6
      DEF HandlerMoves, CallMoved, CallEnded, CallShows, MirrorStill, RowStill, MirrorOf,
          Making
    <3>3. QED
      BY <1>2, <2>1, <2>2, <3>1, <3>2, HolderShown DEF PassStill
  <2>7. QED
    BY <2>1, <2>5, <2>6 DEF HandlerMoves
<1>5. QED
  BY <1>3, <1>4

\* What a step of a pass that has claimed its job does to it: the mirror says
\* running before the agent works, and is told of an end after the row has it.
\* A requeue says nothing to the mirror, which goes on saying running.
WriterMoves(w) ==
  LET i == pass[w].job IN
  \/ pass[w].pc = "markMirror" /\ RowStill(i) /\ mirror'[i] = "running" /\ PassMoved(w, "agent")
  \/ /\ pass[w].pc = "agent" /\ RowStill(i) /\ MirrorStill(i)
     /\ \E pc \in {"complete", "fail", "requeue"} : PassMoved(w, pc)
  \/ /\ pass[w].pc \in {"requeue", "complete"} /\ RowStill(i) /\ MirrorStill(i)
     /\ PassMoved(w, "fail")
  \/ /\ pass[w].pc = "requeue" /\ job'[i].status = "retryable" /\ MirrorStill(i)
     /\ PassEnded(w)
  \/ /\ pass[w].pc = "complete" /\ job'[i].status = "succeeded" /\ MirrorStill(i)
     /\ PassMoved(w, "completeMirror")
  \/ pass[w].pc = "completeMirror" /\ RowStill(i) /\ mirror'[i] = "succeeded" /\ PassEnded(w)
  \/ /\ pass[w].pc = "fail" /\ job'[i].status = "failed" /\ MirrorStill(i)
     /\ PassMoved(w, "failMirror")
  \/ pass[w].pc = "failMirror" /\ RowStill(i) /\ mirror'[i] = "failed" /\ PassEnded(w)

WriterWork(w) ==
  \/ MarkRunningNotify(w) \/ ProcessDocument(w) \/ CompleteNotify(w) \/ FailNotify(w)
  \/ Settle(w)

\* A claimed pass's step has such an effect, or something has gone wrong.
LEMMA WriterWorks ==
  ASSUME Shape, NEW w \in Workers, WriterWork(w)
  PROVE  /\ Claims(w) /\ pass[w].job \in JobIds
         /\ WriterMoves(w) \/ ~ StaysWatched(pass[w].job)
         /\ \A v \in Workers \ {w} : PassKept(v)
         /\ pass'[w].job \in {0, pass[w].job}
         /\ \A j \in JobIds \ {pass[w].job} : RowStill(j) /\ MirrorStill(j)
         /\ api' = api
<1>1. TypeOK
  BY DEF Shape
<1>2. Claims(w)
  BY DEF WriterWork, Settle, MarkRunningNotify, ProcessDocument, CompleteNotify, FailNotify,
     RequeueProcessingJobForRetry, CompleteProcessingJob, FailProcessingJob, Claims
<1>3. pass[w].job \in JobIds
  BY <1>2, ActivePasses DEF Claims
<1>4. CASE MarkRunningNotify(w)
  <2>1. PassMoved(w, "agent")
    BY <1>1, <1>4, PassMovedBy DEF MarkRunningNotify
  <2>2. mirror'[pass[w].job] = "running" \/ ~ StaysWatched(pass[w].job)
    BY <1>1, <1>3, <1>4, MirrorLands DEF MarkRunningNotify, StaysWatched
  <2>3. \A j \in JobIds \ {pass[w].job} : MirrorStill(j)
    BY <1>1, <1>3, <1>4, MirrorLands DEF MarkRunningNotify
  <2>4. \A j \in JobIds : RowStill(j)
    BY <1>4 DEF MarkRunningNotify, RowStill
  <2>5. QED
    BY <1>2, <1>3, <1>4, <2>1, <2>2, <2>3, <2>4 DEF MarkRunningNotify, WriterMoves, PassMoved
<1>5. CASE ProcessDocument(w)
  <2>1. \E pc \in {"complete", "fail", "requeue"} : PassMoved(w, pc)
    <3>1. PICK next \in {"complete", "fail", "requeue"} :
            pass' = [pass EXCEPT ![w].pc = next]
      BY <1>5 DEF ProcessDocument
    <3>2. QED
      BY <1>1, <3>1, PassMovedBy
  <2>2. \A j \in JobIds : RowStill(j) /\ MirrorStill(j)
    BY <1>5 DEF ProcessDocument, RowStill, MirrorStill
  <2>3. QED
    BY <1>2, <1>3, <1>5, <2>1, <2>2 DEF ProcessDocument, WriterMoves, PassMoved
<1>6. CASE CompleteNotify(w)
  <2>1. PassEnded(w)
    BY <1>1, <1>6, PassEnds DEF CompleteNotify
  <2>2. mirror'[pass[w].job] = "succeeded" \/ ~ StaysWatched(pass[w].job)
    BY <1>1, <1>3, <1>6, MirrorLands DEF CompleteNotify, StaysWatched
  <2>3. \A j \in JobIds \ {pass[w].job} : MirrorStill(j)
    BY <1>1, <1>3, <1>6, MirrorLands DEF CompleteNotify
  <2>4. \A j \in JobIds : RowStill(j)
    BY <1>6 DEF CompleteNotify, RowStill
  <2>5. QED
    BY <1>2, <1>3, <1>6, <2>1, <2>2, <2>3, <2>4 DEF CompleteNotify, WriterMoves, PassEnded
<1>7. CASE FailNotify(w)
  <2>1. PassEnded(w)
    BY <1>1, <1>7, PassEnds DEF FailNotify
  <2>2. mirror'[pass[w].job] = "failed" \/ ~ StaysWatched(pass[w].job)
    BY <1>1, <1>3, <1>7, MirrorLands DEF FailNotify, StaysWatched
  <2>3. \A j \in JobIds \ {pass[w].job} : MirrorStill(j)
    BY <1>1, <1>3, <1>7, MirrorLands DEF FailNotify
  <2>4. \A j \in JobIds : RowStill(j)
    BY <1>7 DEF FailNotify, RowStill
  <2>5. QED
    BY <1>2, <1>3, <1>7, <2>1, <2>2, <2>3, <2>4 DEF FailNotify, WriterMoves, PassEnded
<1>8. CASE Settle(w)
  <2>1. \A j \in JobIds \ {pass[w].job} : RowStill(j) /\ MirrorStill(j)
    BY <1>8, SettleEffect DEF RowStill, MirrorStill, RowSet, RowKept
  <2>2. (\A v \in Workers \ {w} : PassKept(v)) /\ pass'[w].job \in {0, pass[w].job}
    BY <1>8, SettleEffect DEF PassMoved, PassEnded
  <2>3. WriterMoves(w) \/ ~ StaysWatched(pass[w].job)
    <3>1. CASE "write" \in blame'[pass[w].job]
      BY <3>1 DEF StaysWatched
    <3>2. CASE job' = job /\ pass[w].pc # "fail" /\ PassMoved(w, "fail")
      BY <1>8, <3>2, SettleEffect DEF RowStill, MirrorStill, WriterMoves
    <3>3. CASE pass[w].pc = "requeue" /\ job'[pass[w].job].status = "retryable" /\ PassEnded(w)
      BY <1>8, <3>3, SettleEffect DEF MirrorStill, WriterMoves
    <3>4. CASE /\ pass[w].pc = "complete" /\ job'[pass[w].job].status = "succeeded"
               /\ PassMoved(w, "completeMirror")
      BY <1>8, <3>4, SettleEffect DEF MirrorStill, WriterMoves
    <3>5. CASE /\ pass[w].pc = "fail" /\ job'[pass[w].job].status = "failed"
               /\ PassMoved(w, "failMirror")
      BY <1>8, <3>5, SettleEffect DEF MirrorStill, WriterMoves
    <3>6. QED
      BY <1>8, <3>1, <3>2, <3>3, <3>4, <3>5, SettleEffect DEF RowSet
  <2>4. QED
    BY <1>2, <1>3, <1>8, <2>1, <2>2, <2>3, SettleEffect
<1>9. QED
  BY <1>4, <1>5, <1>6, <1>7, <1>8 DEF WriterWork

\* A pass that works on another job, or has claimed none and claims none, leaves a
\* job's passes alone.
LEMMA OtherPassStill ==
  ASSUME NEW j \in JobIds, NEW w \in Workers, ~ Writes(w, j), ~ Writes(w, j)',
         \A v \in Workers \ {w} : PassKept(v)
  PROVE  \A v \in Workers : PassStill(v, j)
<1>1. PassStill(w, j)
  BY DEF PassStill, Writes
<1>2. QED
  BY <1>1, KeptWrites

\* A handler is the same for a job when the handlers stand still.
LEMMA SameHolders ==
  ASSUME api' = api, NEW j
  PROVE  \A h \in Handlers : CallStill(h, j)
BY DEF CallStill, Holds

\* So a step of a pass that has claimed its job keeps a watched job shown.
LEMMA ShownByWriter ==
  ASSUME Shape, NEW j \in JobIds, Shown(j), StaysWatched(j), NEW w \in Workers, WriterWork(w)
  PROVE  Shown(j)'
<1>1. /\ Claims(w) /\ pass[w].job \in JobIds
      /\ WriterMoves(w) \/ ~ StaysWatched(pass[w].job)
      /\ \A v \in Workers \ {w} : PassKept(v)
      /\ pass'[w].job \in {0, pass[w].job}
      /\ \A i \in JobIds \ {pass[w].job} : RowStill(i) /\ MirrorStill(i)
      /\ api' = api
  BY WriterWorks
<1>2. \A h \in Handlers : CallStill(h, j)
  BY <1>1, SameHolders
<1>3. j # 0
  BY DEF JobIds
<1>4. CASE j # pass[w].job
  <2>1. ~ Writes(w, j) /\ ~ Writes(w, j)'
    BY <1>1, <1>3, <1>4 DEF Writes
  <2>2. \A v \in Workers : PassStill(v, j)
    BY <1>1, <2>1, OtherPassStill
  <2>3. QED
    BY <1>1, <1>2, <1>4, <2>2, StillShown
<1>5. CASE j = pass[w].job
  <2>1. Writes(w, j) /\ WriterMoves(w)
    BY <1>1, <1>5 DEF Writes
  <2>2. PassShows(w, j) /\ \A h \in Handlers : ~ Holds(h, j)
    BY <2>1 DEF Shown, CallShows
  <2>3. \A h \in Handlers : ~ Holds(h, j)'
    BY <1>2, <2>2 DEF CallStill
  <2>4. \A v \in Workers \ {w} : ~ Writes(v, j)'
    BY <1>1, <2>2, KeptWrites DEF PassShows, PassStill
  <2>5. CASE \E pc \in {"agent", "requeue", "complete", "completeMirror", "fail", "failMirror"} :
               PassMoved(w, pc)
    <3>1. Writes(w, j)'
      BY <1>5, <2>5 DEF Writes, Claims, PassMoved
    <3>2. /\ pass'[w].pc \in {"agent", "requeue", "complete", "fail"} => mirror'[j] = "running"
          /\ pass'[w].pc = "completeMirror" => job'[j].status = "succeeded"
          /\ pass'[w].pc = "failMirror" => job'[j].status = "failed"
      BY <1>5, <2>1, <2>2, <2>5 DEF WriterMoves, PassMoved, PassEnded, PassShows, MirrorStill
    <3>3. QED
      BY <2>3, <2>4, <3>1, <3>2, WriterShown
  <2>6. CASE PassEnded(w)
    <3>1. ~ Writes(w, j)'
      BY <2>6 DEF Writes, Claims, PassEnded
    <3>2. mirror'[j] = MirrorOf(job'[j].status)
      BY <1>5, <2>1, <2>2, <2>6
      DEF WriterMoves, PassMoved, PassEnded, PassShows, MirrorStill, RowStill, MirrorOf
    <3>3. QED
      BY <2>3, <2>4, <3>1, <3>2, WriterShown
  <2>7. QED
    BY <2>1, <2>5, <2>6 DEF WriterMoves
<1>6. QED
  BY <1>4, <1>5

\* A pass that has not claimed its job, and does not claim it now, writes nothing.
LEMMA ShownByReader ==
  ASSUME Shape, NEW j \in JobIds, Shown(j), NEW w \in Workers,
         ~ Claims(w), ~ Claims(w)', \A v \in Workers \ {w} : PassKept(v),
         UNCHANGED <<job, mirror, api>>
  PROVE  Shown(j)'
<1>1. \A h \in Handlers : CallStill(h, j)
  BY SameHolders
<1>2. ~ Writes(w, j) /\ ~ Writes(w, j)'
  BY DEF Writes
<1>3. \A v \in Workers : PassStill(v, j)
  BY <1>2, OtherPassStill
<1>4. QED
  BY <1>1, <1>3, StillShown DEF RowStill, MirrorStill

\* A claim is of a job nobody else writes, or is remembered as a race.
LEMMA ShownByClaim ==
  ASSUME Shape, NEW j \in JobIds, Shown(j), StaysWatched(j), NEW w \in Workers, MarkRunning(w)
  PROVE  Shown(j)'
<1>1. TypeOK /\ pass[w].job \in JobIds /\ api' = api /\ mirror' = mirror
      /\ pass[w].pc = "mark"
  BY MarkRunningEffect DEF Shape
<1>2. CASE job' = job /\ PassEnded(w)
  BY <1>1, <1>2, ShownByReader DEF PassEnded, Claims
<1>3. CASE RowSet(pass[w].job, "running", job[pass[w].job].retry) /\ PassMoved(w, "markMirror")
  <2>1. \A h \in Handlers : CallStill(h, j)
    BY <1>1, SameHolders
  <2>2. CASE j # pass[w].job
    <3>1. ~ Writes(w, j) /\ ~ Writes(w, j)'
      BY <1>3, <2>2 DEF Writes, PassMoved
    <3>2. \A v \in Workers : PassStill(v, j)
      BY <1>3, <3>1, OtherPassStill DEF PassMoved
    <3>3. QED
      BY <1>1, <1>3, <2>1, <2>2, <3>2, StillShown DEF RowStill, MirrorStill, RowSet, RowKept
  <2>3. CASE j = pass[w].job
    <3>1. ~ HasOtherWriter(w, j)
      <4>1. pass'[w].pc = "markMirror"
        BY <1>3 DEF PassMoved
      <4>2. ~ Answer(w, FALSE)
        BY <1>1, <4>1, PassEnds DEF PassEnded
      <4>3. HasOtherWriter(w, pass[w].job) =>
              blame' = [blame EXCEPT ![pass[w].job] = @ \cup {"race"}]
        BY <4>2 DEF MarkRunning
      <4>4. HasOtherWriter(w, pass[w].job) => "race" \in blame'[j]
        BY <1>1, <2>3, <4>3 DEF TypeOK
      <4>5. QED
        BY <2>3, <4>4 DEF StaysWatched
    <3>2. \A h \in Handlers : ~ Holds(h, j)'
      BY <2>1, <3>1 DEF HasOtherWriter, Holds, CallStill
    <3>3. \A v \in Workers \ {w} : ~ Writes(v, j)'
      <4>1. \A v \in Workers \ {w} : ~ Writes(v, j)
        BY <1>1, <3>1 DEF HasOtherWriter, Writes, Claims, Shape, Placed, PassesHaveTasks
      <4>2. QED
        BY <1>3, <4>1, KeptWrites DEF PassMoved, PassStill
    <3>4. Writes(w, j)' /\ pass'[w].pc = "markMirror"
      BY <1>3, <2>3 DEF Writes, Claims, PassMoved
    <3>5. QED
      BY <3>2, <3>3, <3>4, WriterShown
  <2>4. QED
    BY <2>2, <2>3
<1>4. QED
  BY <1>2, <1>3, MarkRunningEffect

\* A step that is not a fault of the job keeps it shown.
LEMMA MirrorStep == Shape /\ MirrorIsKept /\ [Next]_vars => MirrorIsKept'
<1> SUFFICES ASSUME Shape, MirrorIsKept, [Next]_vars, NEW j \in JobIds, Watched(j)'
             PROVE  Shown(j)'
  BY DEF MirrorIsKept
<1>1. StaysWatched(j)
  BY DEF Watched, StaysWatched
<1>2. ASSUME BlameKept PROVE Shown(j)
  BY <1>1, <1>2 DEF BlameKept, StaysWatched, Watched, MirrorIsKept
<1>3. ASSUME NEW h \in Handlers, NEW d \in Documents, Begin(h, d) \/ AutoResumeScan(h, d)
      PROVE  Shown(j)'
  <2>1. /\ api[h].pc = "idle" /\ api'[h].job = 0 /\ \A g \in Handlers \ {h} : CallKept(g)
        /\ UNCHANGED <<job, mirror, pass, blame>>
    BY <1>3, BeginEffect, ScanEffect DEF CallBegun
  <2>2. Shown(j)
    BY <1>2, <2>1 DEF BlameKept
  <2>3. QED
    BY <2>1, <2>2, ShownBeforeJob
<1>4. ASSUME NEW h \in Handlers, AutoResumeRecheck(h) PROVE Shown(j)'
  <2>1. /\ api[h].pc = "recheck" /\ api'[h].job = 0 /\ \A g \in Handlers \ {h} : CallKept(g)
        /\ UNCHANGED <<job, mirror, pass, blame>>
    BY <1>4, RecheckEffect DEF CallBegun, CallEnded
  <2>2. Shown(j)
    BY <1>2, <2>1 DEF BlameKept
  <2>3. QED
    BY <2>1, <2>2, ShownBeforeJob
<1>5. ASSUME NEW h \in Handlers, CreateProcessingJob(h) PROVE Shown(j)'
  <2>1. Shown(j)
    BY <1>2, <1>5, CreateEffect DEF BlameKept
  <2>2. QED
    BY <1>5, <2>1, ShownByCreate
<1>6. ASSUME NEW h \in Handlers, HandlerWork(h) PROVE Shown(j)'
  <2>1. Shown(j)
    BY <1>2, <1>6, SetRetryEffect, LateCallEffect, ExecuteEffect, TryFailEffect DEF HandlerWork
  <2>2. CASE api[h].job \in JobIds
    BY <1>1, <1>6, <2>1, <2>2, ShownByHandler
  <2>3. CASE api[h].job \notin JobIds
    <3>1. api[h].pc \notin Holding /\ api[h].job = 0
      BY <2>3, ActiveCalls DEF Shape, Placed, CallsHaveJobs
    <3>2. HandlerCrash(h)
      BY <1>6, <3>1 DEF HandlerWork, Late, SetProcessingJobRetryCount, NotifyQueued,
         GenerateExecutionPlan, TryFailNotify, ExecuteApprovedPlan, TryFail, Holding, Making
    <3>3. CallEnded(h) /\ UNCHANGED <<job, mirror, pass>>
      BY <3>2, CallEnds DEF HandlerCrash, Shape
    <3>4. \A g \in Handlers : CallStill(g, j)
      BY <2>3, <3>1, <3>3, OtherCallStill DEF CallEnded
    <3>5. \A w \in Workers : PassStill(w, j)
      BY <3>3, SameWriters
    <3>6. QED
      BY <2>1, <3>3, <3>4, <3>5, StillShown DEF RowStill, MirrorStill
  <2>4. QED
    BY <2>2, <2>3
<1>7. ASSUME NEW w \in Workers, NEW i \in JobIds, Deliver(w, i) PROVE Shown(j)'
  <2>1. Shown(j)
    BY <1>2, <1>7, DeliverEffect DEF BlameKept
  <2>2. QED
    BY <1>7, <2>1, DeliverEffect, ShownByReader DEF Claims
<1>8. ASSUME NEW w \in Workers, ReadJob(w) \/ CheckApprovals(w) PROVE Shown(j)'
  <2>1. Quiet(w) /\ pass[w].pc \in {"read", "approvals"}
    BY <1>8 DEF Quiet, ReadJob, CheckApprovals
  <2>2. Shown(j)
    BY <1>2, <2>1, QuietPassEffect
  <2>3. UNCHANGED <<job, mirror, api>>
    BY <1>8 DEF ReadJob, CheckApprovals
  <2>4. (\A v \in Workers \ {w} : PassKept(v)) /\ pass'[w].pc \in {"approvals", "mark", "idle"}
    BY <2>1, QuietPassEffect DEF PassMoved, PassEnded
  <2>5. QED
    BY <2>1, <2>2, <2>3, <2>4, ShownByReader DEF Claims
<1>9. ASSUME NEW w \in Workers, MarkRunning(w) PROVE Shown(j)'
  <2>1. Shown(j)
    BY <1>2, <1>9, MarkRunningEffect
  <2>2. QED
    BY <1>1, <1>9, <2>1, ShownByClaim
<1>10. ASSUME NEW w \in Workers, WriterWork(w) PROVE Shown(j)'
  <2>1. Quiet(w) \/ Settle(w)
    BY <1>10 DEF WriterWork, Quiet
  <2>2. Shown(j)
    BY <1>2, <2>1, QuietPassEffect, SettleEffect
  <2>3. QED
    BY <1>1, <1>10, <2>2, ShownByWriter
<1>11. ASSUME NEW w \in Workers, WorkerCrash(w) PROVE Shown(j)'
  <2>1. Quiet(w)
    BY <1>11 DEF Quiet
  <2>2. Shown(j) /\ pass[w].job \in JobIds
    BY <1>2, <2>1, QuietPassEffect
  <2>3. TypeOK
    BY DEF Shape
  <2>4. "crash" \in blame'[pass[w].job]
    BY <1>11, <2>2, <2>3, FaultBlames DEF WorkerCrash
  <2>5. j # pass[w].job
    BY <1>1, <2>4 DEF StaysWatched
  <2>6. PassEnded(w) /\ UNCHANGED <<job, mirror, api>>
    BY <1>11, <2>3, PassEnds DEF WorkerCrash
  <2>7. \A h \in Handlers : CallStill(h, j)
    BY <2>6, SameHolders
  <2>8. \A v \in Workers : PassStill(v, j)
    BY <2>5, <2>6, OtherPassStill DEF PassEnded, Writes, Claims
  <2>9. QED
    BY <2>2, <2>6, <2>7, <2>8, StillShown DEF RowStill, MirrorStill
<1>12. ASSUME UNCHANGED <<job, mirror, api, pass, blame>> PROVE Shown(j)'
  <2>1. Shown(j)
    BY <1>2, <1>12 DEF BlameKept
  <2>2. /\ \A h \in Handlers : CallStill(h, j)
        /\ \A w \in Workers : PassStill(w, j)
    BY <1>12, SameHolders, SameWriters
  <2>3. QED
    BY <1>12, <2>1, <2>2, StillShown DEF RowStill, MirrorStill
<1>13. ASSUME NEW i \in JobIds, Decide(i) PROVE Shown(j)'
  BY <1>12, <1>13, ApprovalEffect
<1>14. CASE UNCHANGED vars
  BY <1>12, <1>14 DEF vars
<1>15. QED
  BY <1>3, <1>4, <1>5, <1>6, <1>7, <1>8, <1>9, <1>10, <1>11, <1>13, <1>14
  DEF Next, HandlerStep, WorkerStep, Begin, HandlerWork, Late, WriterWork, Settle, Decide

\* Once nobody is at work on a job, the browser sees in the mirror what the row
\* says (jobstatus is written after the row, by the process that wrote the row),
\* unless a write was lost, its writer died, a statement failed, or two wrote it.
THEOREM MirrorFollowsRow == Spec => []MirrorAgrees
<1>1. Init => Shape /\ MirrorIsKept
  <2> SUFFICES ASSUME Init PROVE Shape /\ MirrorIsKept
    OBVIOUS
  <2>1. /\ \A j \in JobIds : job[j] = NoRow /\ mirror[j] = "none"
        /\ \A h \in Handlers : api[h] = NoCall
        /\ \A w \in Workers : pass[w] = NoPass
    BY DEF Init
  <2>2. \A w \in Workers : ~ Claims(w)
    BY <2>1 DEF Claims, NoPass
  <2>3. ASSUME NEW j \in JobIds PROVE Shown(j)
    <3>1. (\A h \in Handlers : ~ Holds(h, j)) /\ \A w \in Workers : ~ Writes(w, j)
      BY <2>1, <2>2 DEF Holds, NoCall, JobIds, Writes
    <3>2. mirror[j] = MirrorOf(job[j].status)
      BY <2>1 DEF NoRow, MirrorOf
    <3>3. QED
      BY <3>1, <3>2 DEF Shown, ShownAtRest
  <2>4. QED
    BY <2>3, ShapeInit DEF MirrorIsKept
<1>2. Shape /\ MirrorIsKept /\ [Next]_vars => (Shape /\ MirrorIsKept)'
  BY ShapeStep, MirrorStep
<1>3. MirrorIsKept => MirrorAgrees
  BY DEF MirrorIsKept, Shown, ShownAtRest, Watched, Holds, Writes, MirrorAgrees
<1>4. QED
  BY <1>1, <1>2, <1>3, PTL DEF Spec

-----------------------------------------------------------------------------
(* The refinement.                                                         *)

\* A step that leaves status and retry count of every row alone stutters.
LEMMA RowsAlone ==
  ASSUME \A j \in JobIds : job'[j].status = job[j].status /\ job'[j].retry = job[j].retry
  PROVE  UNCHANGED Contract!contractVars
BY DEF Contract!contractVars

\* A step that sets one row's, as the contract allows, is a step of it.
LEMMA RowMoves ==
  ASSUME NEW j \in JobIds, NEW state, NEW n, RowSet(j, state, n),
         \/ /\ job[j].status \in {"queued", "running"} /\ state = "running"
            /\ n = job[j].retry
         \/ /\ job[j].status = "queued" /\ state = "queued" /\ n \in Nat
         \/ /\ job[j].status # "none" /\ state = "failed" /\ n = job[j].retry
         \/ /\ job[j].status \notin {"none", "queued"} /\ state = "succeeded"
            /\ n = job[j].retry
         \/ /\ job[j].status \notin {"none", "queued"} /\ state = "retryable"
            /\ n = job[j].retry + 1
  PROVE  [Contract!ContractNext]_(Contract!contractVars)
<1> DEFINE status == [i \in JobIds |-> job[i].status]
           retry == [i \in JobIds |-> job[i].retry]
<1>1. /\ status' = [status EXCEPT ![j] = state]
      /\ retry' = [retry EXCEPT ![j] = n]
      /\ n = job[j].retry => retry' = retry
      /\ state = job[j].status => status' = status
      /\ status[j] = job[j].status /\ retry[j] = job[j].retry /\ retry'[j] = n
  BY DEF RowSet, RowKept
<1>2. CASE job[j].status = "running" /\ state = "running" /\ n = job[j].retry
  BY <1>1, <1>2 DEF Contract!contractVars
<1>3. CASE job[j].status = "queued" /\ state = "running" /\ n = job[j].retry
  <2>1. Contract!Claimed(j)
    BY <1>1, <1>3 DEF Contract!Claimed
  <2>2. QED
    BY <2>1 DEF Contract!ContractNext
<1>4. CASE job[j].status = "queued" /\ state = "queued" /\ n \in Nat
  <2>1. Contract!Stamped(j)
    BY <1>1, <1>4 DEF Contract!Stamped
  <2>2. QED
    BY <2>1 DEF Contract!ContractNext
<1>5. CASE job[j].status # "none" /\ state = "failed" /\ n = job[j].retry
  <2>1. Contract!GivenUp(j)
    BY <1>1, <1>5 DEF Contract!GivenUp
  <2>2. QED
    BY <2>1 DEF Contract!ContractNext
<1>6. CASE /\ job[j].status \notin {"none", "queued"} /\ state = "succeeded"
           /\ n = job[j].retry
  <2>1. Contract!Succeeded(j)
    BY <1>1, <1>6 DEF Contract!Succeeded
  <2>2. QED
    BY <2>1 DEF Contract!ContractNext
<1>7. CASE /\ job[j].status \notin {"none", "queued"} /\ state = "retryable"
           /\ n = job[j].retry + 1
  <2>1. Contract!PutAside(j)
    BY <1>1, <1>7 DEF Contract!PutAside
  <2>2. QED
    BY <2>1 DEF Contract!ContractNext
<1>8. QED
  BY <1>2, <1>3, <1>4, <1>5, <1>6, <1>7

\* Every step is one of the contract, or none.
LEMMA ContractStep ==
  Shape /\ [Next]_vars
    => [Contract!ContractNext]_(Contract!contractVars)
<1> SUFFICES ASSUME Shape, [Next]_vars
             PROVE  [Contract!ContractNext]_(Contract!contractVars)
  OBVIOUS
<1>1. ASSUME NEW h \in Handlers, CreateProcessingJob(h)
      PROVE  [Contract!ContractNext]_(Contract!contractVars)
  <2>1. PICK new \in JobIds :
          new = created + 1 /\ job[new].status = "none" /\ job[new].retry = 0
    BY <1>1, CreateEffect, BoundsAssumption DEF Shape, Placed, RowsExist, TypeOK
  <2> DEFINE status == [i \in JobIds |-> job[i].status]
             retry == [i \in JobIds |-> job[i].retry]
  <2>2. /\ \A i \in JobIds : job'[i].retry = job[i].retry
        /\ \A i \in JobIds : job'[i].status = IF i = new THEN "queued" ELSE job[i].status
    BY <1>1, <2>1, CreateEffect
  <2>3. status' = [status EXCEPT ![new] = "queued"] /\ retry' = retry /\ status[new] = "none"
    BY <2>1, <2>2
  <2>4. Contract!Born(new)
    BY <2>3 DEF Contract!Born
  <2>5. QED
    BY <2>4 DEF Contract!ContractNext
<1>2. ASSUME NEW h \in Handlers, SetProcessingJobRetryCount(h)
      PROVE  [Contract!ContractNext]_(Contract!contractVars)
  <2>1. job[api[h].job].status = "queued" /\ api[h].retry \in Nat
    BY <1>2, SetRetryEffect DEF Shape, TypeOK, Call, Placed, MadeBeforeTask, Making
  <2>2. QED
    BY <1>2, <2>1, SetRetryEffect, RowMoves, RowsAlone
<1>3. ASSUME NEW h \in Handlers, TryFail(h)
      PROVE  [Contract!ContractNext]_(Contract!contractVars)
  <2>1. job[api[h].job].status # "none"
    BY <1>3, TryFailEffect DEF Shape, Placed, CallsHaveJobs, RowsExist, Holding
  <2>2. QED
    BY <1>3, <2>1, TryFailEffect, RowMoves, RowsAlone
<1>4. ASSUME NEW w \in Workers, MarkRunning(w)
      PROVE  [Contract!ContractNext]_(Contract!contractVars)
  BY <1>4, MarkRunningEffect, RowMoves, RowsAlone
<1>5. ASSUME NEW w \in Workers, Settle(w)
      PROVE  [Contract!ContractNext]_(Contract!contractVars)
  <2>1. job[pass[w].job].status \notin {"none", "queued"}
    BY <1>5, SettleEffect DEF Shape, Placed, PassesClaim
  <2>2. QED
    BY <1>5, <2>1, SettleEffect, RowMoves, RowsAlone
<1>6. CASE UNCHANGED job
  BY <1>6, RowsAlone
<1>7. ASSUME NEW h \in Handlers, NEW d \in Documents, Begin(h, d) \/ AutoResumeScan(h, d)
      PROVE  UNCHANGED job
  BY <1>7, BeginEffect, ScanEffect
<1>8. ASSUME NEW h \in Handlers, AutoResumeRecheck(h) \/ Late(h) \/ ExecuteApprovedPlan(h)
      PROVE  UNCHANGED job
  BY <1>8, RecheckEffect, LateCallEffect, ExecuteEffect
<1>9. ASSUME NEW j \in JobIds, Decide(j) \/ \E w \in Workers : Deliver(w, j)
      PROVE  UNCHANGED job
  BY <1>9, ApprovalEffect, DeliverEffect
<1>10. ASSUME NEW w \in Workers, Quiet(w)
       PROVE  UNCHANGED job
  BY <1>10, QuietPassEffect
<1>11. QED
  BY <1>1, <1>2, <1>3, <1>4, <1>5, <1>6, <1>7, <1>8, <1>9, <1>10
  DEF Next, HandlerStep, WorkerStep, vars, Begin, Late, Quiet, Settle, Decide

\* Whatever the API, the queue and the workers do, the row of a job goes from
\* its INSERT to its end as JobContract says.
THEOREM ImplementsJobContract == Spec => RowKeepsContract
<1>1. Init => Contract!ContractInit
  BY DEF Init, Contract!ContractInit, NoRow
<1>2. Inv /\ [Next]_vars => [Contract!ContractNext]_(Contract!contractVars)
  BY ContractStep DEF Inv
<1>3. QED
  BY <1>1, <1>2, Invariance, PTL DEF Spec, RowKeepsContract, Contract!ContractSpec

=============================================================================
