------------------------------ MODULE AgentRun ------------------------------
(***************************************************************************)
(* One worker instance running the agent of several jobs of a workspace.   *)
(* Each delivery of a job starts a pass: an agent that alternates model    *)
(* calls and tool calls.  Hooks around a tool call nudge an agent that     *)
(* repeats itself, answer from the job's checkpoint when there is one, and *)
(* write the checkpoint of what the tool returned.  persist_knowledge_tree *)
(* stores its items in the workspace's tree one statement at a time.       *)
(*                                                                         *)
(* The orchestrator of an instance is one object: the current job, the     *)
(* job context, the repeat guard and the working memory are shared by the  *)
(* passes that overlap.  The usage counters are kept by job: two passes of *)
(* one job, which nothing here excludes, share them, and the start of the  *)
(* second sets them back.                                                  *)
(*                                                                         *)
(* The model's choices are arbitrary: which tool, with which arguments and *)
(* when to stop.  generate_brief stands for the stage tools that write no  *)
(* item.  MaxToolRuns is 0 in every capability, so tool runs have no limit *)
(* of their own.                                                           *)
(***************************************************************************)
EXTENDS Integers, Sequences, FiniteSets

CONSTANTS
  Jobs,            \* jobs delivered to the instance, each for its own document
  JobOf,           \* the job of each delivery, and of the pass it starts
  NoJob,           \* "" or nil where a job is expected
  LocalIds,        \* local ids of generated items
  NoItem,          \* "": an item without a parent
  Briefing,        \* jobs whose agent may call generate_brief
  Media,           \* jobs whose document is an image, an audio or a video file
  Batches,         \* for each job, the item lists its agent may persist
  MaxLLMCalls,     \* of each job's capability
  MaxItemCreations,
  repeatThreshold,
  Allowances       \* bounds: the deliveries, the capabilities that cannot be read at the
                   \* start of a pass, and the other faults (failed statements, reads and
                   \* writes, crashes) that one behaviour may have

\* A generated item: its local id, its parent's, the tree item it is merged into
\* (0 for none) and whether its content links to another item of the list.
GeneratedItem == [id : LocalIds, under : LocalIds \cup {NoItem}, into : Nat, links : BOOLEAN]

ASSUME NamesAssumption ==
  /\ NoJob \notin Jobs
  /\ NoItem \notin LocalIds
  /\ JobOf \in Seq(Jobs)
  /\ Briefing \subseteq Jobs
  /\ Media \subseteq Jobs
ASSUME BatchesAssumption == Batches \in [Jobs -> SUBSET Seq(GeneratedItem)]
ASSUME LimitsAssumption ==
  /\ MaxLLMCalls \in [Jobs -> Nat \ {0}]
  /\ MaxItemCreations \in Nat \ {0}
  /\ repeatThreshold \in Nat \ {0}
  /\ Allowances \subseteq [runs : SUBSET DOMAIN JobOf, unread : Nat, faults : Nat]

VARIABLES
  pass,        \* the agent run of each delivery
  job,         \* base.Job
  currentJobID,
  repeatGuard,
  memory,      \* whose document map and whose brief every prompt shows
  counters,    \* UsageLimiter.jobs
  checkpoints, \* .checkpoints/<job>/<stage>.json
  tree,        \* tree_items of the workspace, in order of creation
  mutations,   \* job_mutation_logs with target "item", counted by job
  allowance,   \* the deliveries and faults still allowed
  guardUsers,  \* history: the pass that made the repeat guard and those that used it
  mixed,       \* history: jobs whose hooks ran under another job's name
  raced,       \* history: jobs with two passes in one stage at the same time
  unsealed,    \* history: jobs that stored items and wrote no checkpoint of it
  unlogged,    \* history: items of each job stored without a log row or a count
  crowd,       \* history: for each job, the most passes between the count of its items
               \* and the log row of one when another pass counted
  misrooted    \* history: a root was looked for and another could appear

Passes == DOMAIN JobOf

instance == <<job, currentJobID, repeatGuard, memory>>
history == <<guardUsers, mixed, raced, unsealed, unlogged, crowd, misrooted>>
vars == <<pass, instance, counters, checkpoints, tree, mutations, allowance, history>>

-----------------------------------------------------------------------------

Stages == {"briefing", "persistence"}

\* The tool calls an agent of job j may issue.
Calls(j) == {[tool |-> "generate_brief", batch |-> <<>>] : k \in Briefing \cap {j}}
            \cup {[tool |-> "persist_knowledge_tree", batch |-> b] : b \in Batches[j]}

NoCall == [tool |-> "none", batch |-> <<>>]

AllCalls == {NoCall} \cup UNION {Calls(j) : j \in Jobs}

\* Broken variant: every stage is filed under one name.
OneKey(c) == "briefing"

\* stageTools: the stage whose checkpoint a call reads and writes; arguments do not count.
checkpointKey(c) == IF c.tool = "generate_brief" THEN "briefing" ELSE "persistence"

\* callKey: a brief is called with an outline, equal for equal documents; a
\* persist call names its job.
callKey(j, c) == [call |-> c, of |-> IF c.tool = "generate_brief" THEN NoJob ELSE j]

\* What a call is answered: the kind of answer, the job whose call produced it and
\* the item list it is about.
Output(kind, j, b) == [kind |-> kind, from |-> j, batch |-> b]

NoOutput == Output("none", NoJob, <<>>)

Outputs == [kind : {"none", "error", "nudge", "brief", "empty", "saved"},
            from : Jobs \cup {NoJob}, batch : {c.batch : c \in AllCalls}]

\* CheckpointEnvelope: the job whose document it names, and the outputs.
NoCheckpoint == [doc |-> NoJob, outputs |-> NoOutput]

newRepeatTracker == [lastKey |-> callKey(NoJob, NoCall), streak |-> 0, nudged |-> {}]

Keys == {callKey(j, c) : j \in Jobs, c \in AllCalls} \cup {callKey(NoJob, NoCall)}

EmptyMemory == [map |-> NoJob, brief |-> NoJob]

FreshCounters == [llmCalls |-> 0, itemCreations |-> 0, capable |-> TRUE]

\* made are the model calls of the pass and granted those it may make; limited is
\* whether every capability it ran under could be read, resumed whether its call is
\* answered from a checkpoint.
NoPass == [at |-> "idle", alone |-> TRUE, limited |-> TRUE, granted |-> 0, made |-> 0,
           extracted |-> FALSE, briefed |-> FALSE,
           call |-> NoCall, outputs |-> NoOutput, resumed |-> FALSE,
           left |-> <<>>, itemIDs |-> [i \in LocalIds |-> 0], rootNodeID |-> 0,
           recent |-> <<>>, stuck |-> {}]

TypeOK ==
  /\ pass \in [Passes ->
       [at : {"idle", "begun", "extract", "think", "before", "brief", "persist", "create",
              "counted", "inserted", "after", "done", "failed", "interrupted"},
        alone : BOOLEAN, limited : BOOLEAN, granted : Nat, made : Nat,
        extracted : BOOLEAN, briefed : BOOLEAN,
        call : AllCalls, outputs : Outputs, resumed : BOOLEAN, left : Seq(GeneratedItem),
        itemIDs : [LocalIds -> Nat], rootNodeID : Nat,
        recent : Seq(AllCalls), stuck : SUBSET AllCalls]]
  /\ job \in Jobs \cup {NoJob}
  /\ currentJobID \in Jobs \cup {NoJob}
  /\ repeatGuard \in [lastKey : Keys, streak : Nat, nudged : SUBSET Keys]
  /\ memory \in [map : Jobs \cup {NoJob}, brief : Jobs \cup {NoJob}]
  /\ counters \in [Jobs -> [llmCalls : Nat, itemCreations : Nat, capable : BOOLEAN]]
  /\ checkpoints \in [Jobs -> [Stages -> [doc : Jobs \cup {NoJob}, outputs : {o \in Outputs : o.kind # "error"}]]]
  /\ tree \in Seq([job : Jobs, id : LocalIds, under : LocalIds \cup {NoItem},
                   parent : Nat])
  /\ mutations \in [Jobs -> Nat]
  /\ allowance \in [runs : SUBSET Passes, unread : Nat, faults : Nat]
  /\ guardUsers \in SUBSET Passes
  /\ mixed \in SUBSET Jobs
  /\ raced \in SUBSET Jobs
  /\ unsealed \in SUBSET Jobs
  /\ unlogged \in [Jobs -> Nat]
  /\ crowd \in [Jobs -> Nat]
  /\ misrooted \in BOOLEAN

Init ==
  /\ pass = [p \in Passes |-> NoPass]
  /\ job = NoJob
  /\ currentJobID = NoJob
  /\ repeatGuard = newRepeatTracker
  /\ memory = EmptyMemory
  /\ counters = [j \in Jobs |-> FreshCounters]
  /\ checkpoints = [j \in Jobs |-> [s \in Stages |-> NoCheckpoint]]
  /\ tree = <<>>
  /\ mutations = [j \in Jobs |-> 0]
  /\ allowance \in Allowances
  /\ guardUsers = {}
  /\ mixed = {}
  /\ raced = {}
  /\ unsealed = {}
  /\ unlogged = [j \in Jobs |-> 0]
  /\ crowd = [j \in Jobs |-> 0]
  /\ misrooted = FALSE

Resting == {"idle", "done", "failed", "interrupted"}

Running(p) == pass[p].at \notin Resting

\* A pass that is over, at s: what it held is gone.
Ended(s) == [NoPass EXCEPT !.at = s]

\* One fault more, of those still allowed.
Fault ==
  /\ allowance.faults > 0
  /\ allowance' = [allowance EXCEPT !.faults = @ - 1]

At(p, s) == pass[p].at = s

\* Counts are kept up to the first value every comparison treats like the later
\* ones: a bound of the model, for a pass whose limits are unknown.
UpTo(m, n) == IF n < m THEN n ELSE m

ModelCalls(j, n) == UpTo(MaxLLMCalls[j] + 2, n)

-----------------------------------------------------------------------------
(* The start of a pass.                                                    *)

\* The calls a document costs before the agent starts: an image, an audio or a
\* video file is transcribed by the model, in no session and counted for nobody.
Transcriptions(p) == IF JobOf[p] \in Media THEN 1 ELSE 0

\* A pass begins; every capability it may come to run under is still to be read.
Begun(p, capable) ==
  [NoPass EXCEPT !.at = "begun", !.alone = \A q \in Passes \ {p} : ~Running(q),
                 !.limited = capable, !.granted = MaxLLMCalls[JobOf[p]] + Transcriptions(p)]

\* What the beginning of p means to a pass q that runs: a pass of the same job goes
\* on under the counters and the capability of p.
Joined(q, p, capable) ==
  [pass[q] EXCEPT !.alone = FALSE,
                  !.limited = @ /\ (JobOf[q] = JobOf[p] => capable),
                  !.granted = IF JobOf[q] = JobOf[p] THEN @ + MaxLLMCalls[JobOf[p]] ELSE @]

\* base.BeginJob: the job context is replaced and the job's counters start over,
\* whoever uses them; a capability that could not be read leaves them without
\* limits.  Deliveries of one job are numbered in the order they begin.
BeginJob(p) ==
  /\ At(p, "idle")
  /\ p \in allowance.runs
  /\ \A q \in allowance.runs : q < p /\ JobOf[q] = JobOf[p] => ~At(q, "idle")
  /\ job' = JobOf[p]
  /\ \E capable \in BOOLEAN :
       /\ capable \/ allowance.unread > 0
       /\ allowance' = [allowance EXCEPT !.unread = IF capable THEN @ ELSE @ - 1]
       /\ counters' = [counters EXCEPT ![JobOf[p]] = [FreshCounters EXCEPT !.capable = capable]]
       /\ pass' = [q \in Passes |-> IF q = p THEN Begun(p, capable)
                                   ELSE IF Running(q) THEN Joined(q, p, capable) ELSE pass[q]]
  /\ UNCHANGED <<currentJobID, repeatGuard, memory, checkpoints, tree, mutations, history>>

\* Broken variant: an extracted map does not replace the one that is there.
FirstMapKept(j) == IF memory.map = NoJob THEN [memory EXCEPT !.map = j] ELSE memory

\* The document's chunks are the document map.
DocumentMapOf(j) == [memory EXCEPT !.map = j]

\* ProcessDocument names the current job and starts a new repeat guard, in the
\* place of those of any other pass.
ProcessDocument(p) ==
  /\ At(p, "begun")
  /\ pass' = [pass EXCEPT ![p].at = "extract"]
  /\ currentJobID' = JobOf[p]
  /\ repeatGuard' = newRepeatTracker
  /\ guardUsers' = {p}
  /\ UNCHANGED <<job, memory, counters, checkpoints, tree, mutations, allowance, mixed, raced,
                 unsealed, unlogged, crowd, misrooted>>

\* prepareDocumentMap makes the document's chunks the document map; when they cannot
\* be had, the map stays as it is.
prepareDocumentMap(p) ==
  /\ At(p, "extract")
  /\ \/ /\ memory' = DocumentMapOf(JobOf[p])
        /\ pass' = [pass EXCEPT ![p].at = "think", ![p].extracted = TRUE,
                                ![p].made = Transcriptions(p)]
        /\ UNCHANGED allowance
     \/ /\ Fault
        /\ \E n \in 0..Transcriptions(p) :
             pass' = [pass EXCEPT ![p].at = "think", ![p].made = n]
        /\ UNCHANGED memory
  /\ UNCHANGED <<job, currentJobID, repeatGuard, counters, checkpoints, tree, mutations, history>>

-----------------------------------------------------------------------------
(* The limits of a capability and a model call.                            *)

\* Broken variant: the model call at the limit is let through once more.
LateLimit(j, u) ==
  u.capable /\ (u.llmCalls > MaxLLMCalls[j] + 1 \/ u.itemCreations > MaxItemCreations)

\* Broken variant: only the items are limited.
NoCallLimit(j, u) == u.capable /\ u.itemCreations > MaxItemCreations

\* UsageLimiter.increment: whichever counter was incremented, every limit is compared.
LimitExceeded(j, u) ==
  u.capable /\ (u.llmCalls > MaxLLMCalls[j] \/ u.itemCreations > MaxItemCreations)

\* IncrementLLMCalls.
OneMoreLLMCall(j) == [counters[j] EXCEPT !.llmCalls = ModelCalls(j, @ + 1)]

\* One more call of the model, kept up to the first that is too many.
OneMoreMade(p) == UpTo(pass[p].granted + 1, pass[p].made + 1)

\* The call is counted, and with it every pass of the job is one nearer its limit.
CountLLMCall(p) == counters' = [counters EXCEPT ![JobOf[p]] = OneMoreLLMCall(JobOf[p])]

Ends(p, s) == pass' = [pass EXCEPT ![p] = Ended(s)]

\* The model is asked, with the working memory in its prompt, and calls a tool.
CallTool(p) ==
  /\ At(p, "think")
  /\ CountLLMCall(p)
  /\ ~LimitExceeded(JobOf[p], counters'[JobOf[p]])
  /\ \E c \in Calls(JobOf[p]) :
       pass' = [pass EXCEPT ![p].at = "before", ![p].call = c, ![p].made = OneMoreMade(p)]
  /\ UNCHANGED <<instance, checkpoints, tree, mutations, allowance, history>>

\* The model answers without a tool call: the pass ends and the job completes.
FinalResponse(p) ==
  /\ At(p, "think")
  /\ CountLLMCall(p)
  /\ ~LimitExceeded(JobOf[p], counters'[JobOf[p]])
  /\ Ends(p, "done")
  /\ UNCHANGED <<instance, checkpoints, tree, mutations, allowance, history>>

\* The limit is exceeded, or the model call fails: the run ends and the job fails.
AgentRunFails(p) ==
  /\ At(p, "think")
  /\ CountLLMCall(p)
  /\ \/ LimitExceeded(JobOf[p], counters'[JobOf[p]]) /\ UNCHANGED allowance
     \/ ~LimitExceeded(JobOf[p], counters'[JobOf[p]]) /\ Fault
  /\ Ends(p, "failed")
  /\ UNCHANGED <<instance, checkpoints, tree, mutations, history>>

-----------------------------------------------------------------------------
(* The hook before a tool.                                                 *)

\* Broken variant: the tracker forgets which calls it has nudged.
ForgetfulGuard(g, k) ==
  LET streak == IF k = g.lastKey THEN UpTo(repeatThreshold + 1, g.streak + 1) ELSE 1 IN
  [g EXCEPT !.lastKey = k, !.streak = streak]

\* repeatTracker.observe: the tracker after one more call.
observe(g, k) ==
  LET streak == IF k = g.lastKey THEN UpTo(repeatThreshold + 1, g.streak + 1) ELSE 1 IN
  [lastKey |-> k, streak |-> streak,
   nudged |-> IF streak > repeatThreshold THEN g.nudged \cup {k} ELSE g.nudged]

ShouldNudge(g, k) == observe(g, k).streak > repeatThreshold /\ k \notin g.nudged

\* Broken variant: no checkpoint is ever used.
NeverResumed(p) == FALSE

\* ReadCheckpoint and the two checks before its outputs are used.
Resumable(p) ==
  LET envelope == checkpoints[currentJobID][checkpointKey(pass[p].call)] IN
  envelope # NoCheckpoint /\ envelope.doc = job

\* A hook of p runs: the jobs it confuses.
Confuses(p) ==
  IF currentJobID = JobOf[p] /\ job = JobOf[p] THEN {} ELSE {JobOf[p], currentJobID, job} \ {NoJob}

\* p is between the two hooks of a call of stage s.
InStage(p, s) ==
  /\ pass[p].at \in {"brief", "persist", "create", "counted", "inserted", "after"}
  /\ checkpointKey(pass[p].call) = s

\* Another pass of the job is in the stage that p enters.
Races(p) ==
  {JobOf[q] : q \in {r \in Passes \ {p} : JobOf[r] = JobOf[p]
                                        /\ InStage(r, checkpointKey(pass[p].call))}}

Before(p) ==
  /\ At(p, "before")
  /\ repeatGuard' = observe(repeatGuard, callKey(JobOf[p], pass[p].call))
  /\ guardUsers' = guardUsers \cup {p}
  /\ mixed' = mixed \cup Confuses(p)
  /\ raced' = raced \cup Races(p)
  /\ UNCHANGED <<job, currentJobID, memory, counters, checkpoints, tree, mutations,
                 unlogged, crowd, misrooted>>

Nudged(p) == ShouldNudge(repeatGuard, callKey(JobOf[p], pass[p].call))

\* The guard answers in the tool's place.
Nudge(p) ==
  /\ Before(p)
  /\ Nudged(p)
  /\ pass' = [pass EXCEPT ![p].at = "after", ![p].outputs = Output("nudge", JobOf[p], <<>>)]
  /\ UNCHANGED <<allowance, unsealed>>

\* The checkpoint answers in the tool's place.
ResumeFromCheckpoint(p) ==
  /\ Before(p)
  /\ ~Nudged(p) /\ Resumable(p)
  /\ pass' = [pass EXCEPT ![p].at = "after", ![p].resumed = TRUE,
                          ![p].outputs = checkpoints[currentJobID][checkpointKey(pass[p].call)].outputs]
  /\ UNCHANGED <<allowance, unsealed>>

\* There is no checkpoint to answer from, or it cannot be read: the tool runs.
\* IncrementToolRuns compares the limits the model call has just passed.
EnterTool(p) ==
  /\ Before(p)
  /\ ~Nudged(p)
  /\ pass' = [pass EXCEPT ![p].at = IF pass[p].call.tool = "generate_brief"
                                    THEN "brief" ELSE "persist"]
  /\ \/ ~Resumable(p) /\ UNCHANGED <<allowance, unsealed>>
     \/ Resumable(p) /\ Fault /\ unsealed' = unsealed \cup {JobOf[p]}

-----------------------------------------------------------------------------
(* The tools.                                                              *)

\* generate_brief asks the model itself, and makes the brief up when it may not
\* or cannot; either way it becomes the brief of the working memory.
generate_brief(p) ==
  /\ At(p, "brief")
  /\ CountLLMCall(p)
  /\ pass' = [pass EXCEPT ![p].at = "after", ![p].outputs = Output("brief", JobOf[p], <<>>),
                          ![p].briefed = TRUE,
                          ![p].made = IF LimitExceeded(JobOf[p], counters'[JobOf[p]])
                                      THEN @ ELSE OneMoreMade(p)]
  /\ memory' = [memory EXCEPT !.brief = JobOf[p]]
  /\ UNCHANGED <<job, currentJobID, repeatGuard, checkpoints, tree, mutations, allowance, history>>

\* The items of b, and those at the places in S, in the order of b.
ItemsOf(b) == {b[n] : n \in DOMAIN b}

Listed(b, S) ==
  LET kept[n \in 0..Len(b)] ==
        IF n = 0 THEN <<>>
        ELSE IF n \in S THEN Append(kept[n - 1], b[n]) ELSE kept[n - 1]
  IN kept[Len(b)]

\* Nothing keeps the model from using a local id twice.
IDs(b) == {b[n].id : n \in DOMAIN b}

IsFirst(b, n) == \A m \in DOMAIN b : b[m].id = b[n].id => n =< m

IsLast(b, n) == \A m \in DOMAIN b : b[m].id = b[n].id => m =< n

\* itemMap: the last item of a local id stands for it.
itemMap(b, id) == b[CHOOSE n \in DOMAIN b : b[n].id = id /\ IsLast(b, n)]

\* The parents that the items of a local id have in the list.
ParentsIn(b, id) == {i.under : i \in {j \in ItemsOf(b) : j.id = id}} \cap IDs(b)

\* Where the local ids are listed that wait for the n-th of the queue and, after
\* it, for no other: their last item under it.
Released(b, queue, n) ==
  {m \in DOMAIN b :
     /\ b[m].under = queue[n].id
     /\ ParentsIn(b, b[m].id) \subseteq {queue[k].id : k \in 1..n}
     /\ \A k \in DOMAIN b : b[k].id = b[m].id /\ b[k].under = b[m].under => k =< m}

\* Broken variant: the items in the order the model listed them.
AsListed(b) == b

\* Parents before children, level by level, one item for each local id; items whose
\* local id is on a cycle come last, all of them and as listed.
sortItemsTopologically(b) ==
  LET queue[n \in 0..Len(b)] ==
        IF n = 0 THEN Listed(b, {m \in DOMAIN b : IsFirst(b, m) /\ ParentsIn(b, b[m].id) = {}})
        ELSE LET q == queue[n - 1] IN
             IF n > Len(q) THEN q ELSE q \o Listed(b, Released(b, q, n))
      sorted == queue[Len(b)]
  IN [k \in DOMAIN sorted |-> itemMap(b, sorted[k].id)]
       \o Listed(b, {m \in DOMAIN b : b[m].id \notin IDs(sorted)})

\* sortedItems, for every list an agent may persist.
sortedItems == [b \in UNION {Batches[j] : j \in Jobs} |-> sortItemsTopologically(b)]

\* The tool returns o and stores nothing more.
Return(p, o) ==
  pass' = [pass EXCEPT ![p].at = "after", ![p].outputs = o, ![p].left = <<>>,
                       ![p].itemIDs = NoPass.itemIDs, ![p].rootNodeID = 0]

\* An empty list is answered Success false and no error.
PersistNothing(p) ==
  /\ At(p, "persist")
  /\ pass[p].call.batch = <<>>
  /\ Return(p, Output("empty", JobOf[p], <<>>))
  /\ UNCHANGED <<instance, counters, checkpoints, tree, mutations, allowance, history>>

\* IncrementItemCreations: the whole list is counted before the first item.
Reserve(p) ==
  /\ At(p, "persist")
  /\ pass[p].call.batch # <<>>
  /\ counters' = [counters EXCEPT ![JobOf[p]].itemCreations =
                              UpTo(MaxItemCreations + 1, @ + Len(pass[p].call.batch))]
  /\ UNCHANGED <<instance, checkpoints, tree, mutations, guardUsers, mixed, raced, unsealed,
                 unlogged, crowd>>

\* The limit is exceeded, or the job's capability cannot be read.
PersistRefused(p) ==
  /\ Reserve(p)
  /\ Return(p, Output("error", JobOf[p], pass[p].call.batch))
  /\ \/ LimitExceeded(JobOf[p], counters'[JobOf[p]]) /\ UNCHANGED allowance
     \/ ~LimitExceeded(JobOf[p], counters'[JobOf[p]]) /\ Fault
  /\ UNCHANGED misrooted

\* Broken variant: every list makes a root of its own.
RootOfItsOwn == 0

Roots == {n \in DOMAIN tree : tree[n].parent = 0}

\* resolveRootNodeID: the oldest item without a parent, 0 when there is none.
resolveRootNodeID ==
  IF Roots = {} THEN 0 ELSE CHOOSE n \in Roots : \A m \in Roots : n =< m

\* p is storing a list.
Persisting(p) == pass[p].at \in {"create", "counted", "inserted"}

\* Another pass is between looking for a root and making one.
RootPending(p) ==
  \E q \in Passes \ {p} : Persisting(q) /\ pass[q].rootNodeID = 0

\* The items are sorted and the root is read, once and before the first item; a
\* failed read counts as an empty tree.
StartPersist(p) ==
  /\ Reserve(p)
  /\ ~LimitExceeded(JobOf[p], counters'[JobOf[p]])
  /\ \E root \in {resolveRootNodeID, 0} :
       /\ pass' = [pass EXCEPT ![p].at = "create", ![p].left = sortedItems[pass[p].call.batch],
                               ![p].rootNodeID = root]
       /\ \/ /\ root = resolveRootNodeID
             /\ misrooted' = (misrooted \/ (root = 0 /\ RootPending(p)))
             /\ UNCHANGED allowance
          \/ /\ root # resolveRootNodeID
             /\ Fault
             /\ misrooted' = TRUE

\* The next item of the list is stored.
Storing(p) == At(p, "create") /\ pass[p].left # <<>>

NextItem(p) == Head(pass[p].left)

\* The mapped parent when there is one, else the root, else none.
ParentFor(p) ==
  LET mapped == IF NextItem(p).under = NoItem THEN 0 ELSE pass[p].itemIDs[NextItem(p).under]
  IN IF mapped # 0 THEN mapped ELSE pass[p].rootNodeID

\* The n-th item of b is on a cycle of parents, or under one.
OnCycle(b, n) ==
  \E S \in SUBSET DOMAIN b : n \in S /\ \A m \in S : \E k \in S : b[k].id = b[m].under

\* History: the parent an item must end up under, one that the same list creates.
CreatedParent(b, i) ==
  IF /\ \A n \in DOMAIN b : b[n].id = i.id => ~OnCycle(b, n)
     /\ \E n \in DOMAIN b : b[n].id = i.under /\ IsLast(b, n) /\ b[n].into = 0
  THEN i.under ELSE NoItem

TreeItem(p) ==
  [job |-> JobOf[p], id |-> NextItem(p).id,
   under |-> CreatedParent(pass[p].call.batch, NextItem(p)), parent |-> ParentFor(p)]

\* The item has been stored as the tree's n-th, and p goes on at s: the rest of the
\* list is left.
Stored(p, n, s) ==
  pass' = [pass EXCEPT ![p].at = s, ![p].left = Tail(@), ![p].itemIDs[NextItem(p).id] = n,
                       ![p].rootNodeID = IF NextItem(p).into = 0 /\ ParentFor(p) = 0
                                         THEN n ELSE @]

\* Broken variant: only this pass's own count limits the items of a job.
NeverFull(p) == FALSE

\* n more rows of the mutation log.
Logged(j, n) == mutations' = [mutations EXCEPT ![j] = UpTo(MaxItemCreations, @ + n)]

\* The job's mutations of items, of every pass, have reached the limit.
Full(p) == mutations[JobOf[p]] >= MaxItemCreations

\* The passes of j that have counted an item whose log row is not there yet.
Unlogged(j) == {q \in Passes : JobOf[q] = j /\ pass[q].at \in {"counted", "inserted"}}

\* CreateStructuredItemWithCapability counts the job's mutations, inserts the item
\* and logs it, in three statements.  A count that cannot be read is 0.
CountItems(p) ==
  /\ Storing(p)
  /\ NextItem(p).into = 0
  /\ \/ ~Full(p) /\ UNCHANGED <<allowance, unlogged>>
     \/ Full(p) /\ Fault /\ unlogged' = [unlogged EXCEPT ![JobOf[p]] = @ + 1]
  /\ pass' = [pass EXCEPT ![p].at = "counted"]
  /\ LET others == Cardinality(Unlogged(JobOf[p])) IN
     crowd' = [crowd EXCEPT ![JobOf[p]] = IF @ < others THEN others ELSE @]
  /\ UNCHANGED <<instance, counters, checkpoints, tree, mutations, guardUsers, mixed, raced,
                 unsealed, misrooted>>

CreateItem(p) ==
  /\ At(p, "counted")
  /\ tree' = Append(tree, TreeItem(p))
  /\ Stored(p, Len(tree) + 1, "inserted")
  /\ UNCHANGED <<instance, counters, checkpoints, mutations, allowance, history>>

\* The log row, and after it the item's sources.
LogItem(p) ==
  /\ At(p, "inserted")
  /\ Logged(JobOf[p], 1)
  /\ pass' = [pass EXCEPT ![p].at = "create"]
  /\ UNCHANGED <<instance, counters, checkpoints, tree, allowance, history>>

\* MergeItemWithCapability: the item's text, which the tree here does not keep, is
\* rewritten, and the rewriting logged, in one transaction.
MergeItem(p) ==
  /\ Storing(p)
  /\ NextItem(p).into \in DOMAIN tree
  /\ Logged(JobOf[p], 1)
  /\ Stored(p, NextItem(p).into, "create")
  /\ UNCHANGED <<instance, counters, checkpoints, tree, allowance, history>>

\* Something of this call is in the tree.
HasStored(p) == \E i \in LocalIds : pass[p].itemIDs[i] # 0

\* Broken variant: an item that cannot be stored is passed over, and the tool
\* reports success.
StopAsSuccess(p, stays) ==
  /\ Return(p, Output("saved", JobOf[p], pass[p].call.batch))
  /\ UNCHANGED <<instance, counters, checkpoints, tree, guardUsers, mixed, raced, unsealed, crowd,
                 misrooted>>

\* The tool stops at this item; those before it stay, and the item when stays.
StopAt(p, stays) ==
  /\ Return(p, Output("error", JobOf[p], pass[p].call.batch))
  /\ unsealed' = IF stays \/ HasStored(p) THEN unsealed \cup {JobOf[p]} ELSE unsealed
  /\ UNCHANGED <<instance, counters, checkpoints, tree, guardUsers, mixed, raced, crowd, misrooted>>

\* The limit of the job, or a merge target that does not exist.
ItemRefused(p) ==
  /\ Storing(p)
  /\ \/ NextItem(p).into = 0 /\ Full(p)
     \/ NextItem(p).into # 0 /\ NextItem(p).into \notin DOMAIN tree
  /\ StopAt(p, FALSE)
  /\ UNCHANGED <<mutations, allowance, unlogged>>

\* A statement fails: the item's or the merge's, its log row's, or one of its sources'.
StoringFails(p) ==
  /\ Fault
  /\ \/ /\ At(p, "counted") \/ (Storing(p) /\ NextItem(p).into # 0)
        /\ StopAt(p, FALSE)
        /\ UNCHANGED <<mutations, unlogged>>
     \/ /\ At(p, "inserted")
        /\ StopAt(p, TRUE)
        /\ unlogged' = [unlogged EXCEPT ![JobOf[p]] = @ + 1]
        /\ UNCHANGED mutations
     \/ /\ At(p, "inserted") \/ (Storing(p) /\ NextItem(p).into \in DOMAIN tree)
        /\ StopAt(p, TRUE)
        /\ Logged(JobOf[p], 1)
        /\ UNCHANGED unlogged

\* Links between the items are rewritten to the stored ids, one logged mutation
\* for each item that has some, and a failure is ignored; the tool reports success.
RewriteLinks(p) ==
  /\ At(p, "create")
  /\ pass[p].left = <<>>
  /\ LET sorted == sortedItems[pass[p].call.batch]
         linked == Cardinality({n \in DOMAIN sorted : sorted[n].links}) IN
     \/ Logged(JobOf[p], linked) /\ UNCHANGED allowance
     \/ Fault /\ \E n \in 0..linked - 1 : Logged(JobOf[p], n)
  /\ Return(p, Output("saved", JobOf[p], pass[p].call.batch))
  /\ UNCHANGED <<instance, counters, checkpoints, tree, history>>

-----------------------------------------------------------------------------
(* The hook after a tool.                                                  *)

\* The last repeatThreshold calls of the pass were the one it makes again, and it
\* has not been stuck on it before.
IsStuck(p) ==
  /\ Len(pass[p].recent) = repeatThreshold
  /\ \A n \in DOMAIN pass[p].recent : pass[p].recent[n] = pass[p].call
  /\ pass[p].call \notin pass[p].stuck

\* The pass goes on to its next model call; history keeps the last calls of the
\* pass and those it was stuck on.
Answered(p) ==
  LET recent == Append(pass[p].recent, pass[p].call) IN
  pass' = [pass EXCEPT
             ![p].at = "think", ![p].call = NoCall, ![p].outputs = NoOutput, ![p].resumed = FALSE,
             ![p].recent = IF Len(recent) > repeatThreshold THEN Tail(recent) ELSE recent,
             ![p].stuck = IF IsStuck(p) THEN @ \cup {pass[p].call} ELSE @]

\* Broken variant: the envelope does not name its document.
NamelessEnvelope(o) == [doc |-> NoJob, outputs |-> o]

Envelope(o) == [doc |-> job, outputs |-> o]

\* Broken variant: an error is checkpointed like any other answer.
EvenAnError(o) == TRUE

\* What the hook writes a checkpoint of: a nudge and Success false included.
Checkpointed(o) == o.kind # "error"

\* Whatever was answered without an error is the stage's checkpoint from here on,
\* filed under the current job; a write that fails is logged only.
AfterTool(p) ==
  /\ At(p, "after")
  /\ Answered(p)
  /\ mixed' = mixed \cup Confuses(p)
  /\ \/ /\ ~Checkpointed(pass[p].outputs)
        /\ UNCHANGED <<checkpoints, allowance, unsealed>>
     \/ /\ Checkpointed(pass[p].outputs)
        /\ checkpoints' = [checkpoints EXCEPT ![currentJobID][checkpointKey(pass[p].call)] =
                             Envelope(pass[p].outputs)]
        /\ UNCHANGED <<allowance, unsealed>>
     \/ /\ Checkpointed(pass[p].outputs)
        /\ Fault
        /\ unsealed' = IF pass[p].outputs.kind = "saved" THEN unsealed \cup {JobOf[p]} ELSE unsealed
        /\ UNCHANGED checkpoints
  /\ UNCHANGED <<instance, counters, tree, mutations, guardUsers, raced, unlogged, crowd, misrooted>>

-----------------------------------------------------------------------------
(* Interruptions.                                                          *)

\* p leaves items of an unfinished persist call behind.
LeavesItems(p) ==
  \/ Persisting(p) /\ HasStored(p)
  \/ At(p, "after") /\ pass[p].outputs.kind = "saved"

\* The counters of a pass that is aborted: a list that was to be persisted is
\* counted, and the model call that ends the run is.
AbortCounters(p) ==
  [OneMoreLLMCall(JobOf[p]) EXCEPT !.itemCreations =
     IF At(p, "persist") THEN UpTo(MaxItemCreations + 1, @ + Len(pass[p].call.batch)) ELSE @]

\* The agent's budget is over at a call its context cancels: the job is requeued
\* and delivered again.  A brief, an empty list, the links and the checkpoint do
\* not fail with the context: the tool returns and the next model call ends the run.
BudgetAbort(p) ==
  /\ \/ At(p, "think")
     \/ At(p, "persist") /\ pass[p].call.batch # <<>>
     \/ Storing(p)
     \/ At(p, "counted")
     \/ At(p, "inserted")
  /\ Ends(p, "interrupted")
  /\ counters' = [counters EXCEPT ![JobOf[p]] = AbortCounters(p)]
  /\ unsealed' = IF LeavesItems(p) THEN unsealed \cup {JobOf[p]} ELSE unsealed
  /\ unlogged' = IF At(p, "inserted") THEN [unlogged EXCEPT ![JobOf[p]] = @ + 1] ELSE unlogged
  /\ UNCHANGED <<instance, checkpoints, tree, mutations, allowance, guardUsers, mixed, raced, crowd,
                 misrooted>>

\* The instance dies and is replaced by an empty one.
Crash ==
  /\ Fault
  /\ pass' = [p \in Passes |-> IF Running(p) THEN Ended("interrupted") ELSE pass[p]]
  /\ job' = NoJob
  /\ currentJobID' = NoJob
  /\ repeatGuard' = newRepeatTracker
  /\ memory' = EmptyMemory
  /\ counters' = [j \in Jobs |-> FreshCounters]
  /\ guardUsers' = {}
  /\ unsealed' = unsealed \cup {JobOf[p] : p \in {q \in Passes : LeavesItems(q)}}
  /\ unlogged' = [j \in Jobs |->
                    unlogged[j] + Cardinality({p \in Unlogged(j) : At(p, "inserted")})]
  /\ UNCHANGED <<checkpoints, tree, mutations, mixed, raced, crowd, misrooted>>

-----------------------------------------------------------------------------

\* A step the pass takes of itself.
AgentStep(p) ==
  \/ ProcessDocument(p) \/ prepareDocumentMap(p)
  \/ CallTool(p) \/ FinalResponse(p) \/ AgentRunFails(p)
  \/ Nudge(p) \/ ResumeFromCheckpoint(p) \/ EnterTool(p)
  \/ generate_brief(p)
  \/ PersistNothing(p) \/ PersistRefused(p) \/ StartPersist(p)
  \/ CountItems(p) \/ CreateItem(p) \/ LogItem(p)
  \/ MergeItem(p) \/ ItemRefused(p) \/ StoringFails(p) \/ RewriteLinks(p)
  \/ AfterTool(p)

Next ==
  \/ \E p \in Passes : BeginJob(p) \/ AgentStep(p) \/ BudgetAbort(p)
  \/ Crash

Spec == Init /\ [][Next]_vars

\* The runtime keeps running the goroutine of a pass; nothing makes a job be
\* delivered, an agent stop or a budget run out.
FairSpec == Spec /\ \A p \in Passes : WF_vars(AgentStep(p))

-----------------------------------------------------------------------------
(* What the run of an agent guarantees.                                    *)

\* A pass makes no more model calls than its job's capability allows, those its
\* tools make included, however often other passes of the instance come between.
\* Two things add to it: every pass of the job that begins meanwhile sets the
\* counters back, so the limit is granted once more; and the transcription of an
\* image, an audio or a video file is a call that nothing counts.  No limit holds
\* once a capability could not be read.
ModelCallsWithinLimit == \A p \in Passes : pass[p].limited => pass[p].made =< pass[p].granted

\* Over all its passes a job adds no more items to the tree than its capability
\* allows: the counters start over with every pass, only the mutation log remembers.
\* One more for each item whose log row or count failed, and one more for each other
\* pass of the job that had counted and not yet logged when a pass counted.
ItemsWithinCap ==
  \A j \in Jobs : Cardinality({n \in DOMAIN tree : tree[n].job = j})
                   =< MaxItemCreations + unlogged[j] + crowd[j]

\* A call is nudged the first time that the pass's own last repeatThreshold calls
\* were the same one, and only then, or when an earlier nudge is read from the
\* stage's checkpoint; as long as no other pass made or used the guard of the pass.
NudgeFollowsOwnStreak ==
  \A p \in Passes : At(p, "after") /\ guardUsers = {p} =>
    /\ IsStuck(p) => pass[p].outputs.kind = "nudge"
    /\ pass[p].outputs.kind = "nudge" => IsStuck(p) \/ pass[p].resumed

\* A pass that was alone on its instance prompts the model with its own document
\* map once its document was extracted, and with its own brief once it made one:
\* nothing resets the working memory between jobs, and a brief answered from the
\* checkpoint does not enter it.
PromptIsOwn ==
  \A p \in Passes : At(p, "think") /\ pass[p].alone =>
    /\ pass[p].extracted => memory.map = JobOf[p]
    /\ pass[p].briefed => memory.brief = JobOf[p]

\* What a pass is answered was produced by a call of its own job and its own
\* stage, unless its hooks ran under another job's name.
AnswersAreOwn ==
  \A p \in Passes : At(p, "after") /\ JobOf[p] \notin mixed =>
    /\ pass[p].outputs.from = JobOf[p]
    /\ pass[p].outputs.kind = "brief" => pass[p].call.tool = "generate_brief"
    /\ pass[p].outputs.kind \in {"empty", "saved"} => pass[p].call.tool = "persist_knowledge_tree"

\* An answer "saved", fresh or in a checkpoint and whoever is given it, is about
\* items that are in the tree: all of them when the list repeats no local id, and
\* of the items with one local id at least the last, although an earlier one that
\* is dropped is reported as saved too.
IsStored(o) ==
  o.kind = "saved" =>
    \A n \in DOMAIN o.batch : IsLast(o.batch, n) =>
      \E m \in DOMAIN tree :
        IF o.batch[n].into = 0 THEN tree[m].job = o.from /\ tree[m].id = o.batch[n].id
        ELSE m = o.batch[n].into

SavedIsStored ==
  /\ \A p \in Passes : IsStored(pass[p].outputs)
  /\ \A j \in Jobs, s \in Stages : IsStored(checkpoints[j][s].outputs)

\* A list that stores a local id twice: the sort does not drop what is on a cycle.
KeepsBoth(b) == \E m, n \in DOMAIN b : m # n /\ b[m].id = b[n].id /\ OnCycle(b, n)

\* A job's item is in the tree twice only if one of its persist calls stopped
\* half-way, its checkpoint was not written or not read, the hooks were mixed, two of
\* its passes were in the stage at the same time, or its list repeats a local id on
\* a cycle: a pass that starts again does not repeat what an earlier one finished.
ItemsOnce ==
  \A m, n \in DOMAIN tree :
    tree[m].job = tree[n].job /\ tree[m].id = tree[n].id /\ m # n
    => \/ tree[m].job \in unsealed \cup mixed \cup raced
       \/ \E b \in Batches[tree[m].job] : KeepsBoth(b)

\* The tree has one root, unless a root was looked for while another pass, of this
\* or another job, was about to make one, or the tree could not be read.
OneRoot == misrooted \/ Cardinality(Roots) =< 1

\* An item whose parent its own list creates hangs off that parent, whatever the
\* order of the list and whatever other passes store in between.
PlacedUnderParent ==
  \A n \in DOMAIN tree : tree[n].under # NoItem =>
    /\ tree[n].parent \in 1..n - 1
    /\ tree[tree[n].parent].id = tree[n].under
    /\ tree[tree[n].parent].job = tree[n].job

\* A stage's checkpoint, once written, is replaced only by a nudge, after a read
\* that failed, by hooks that were mixed, or when two passes of the job were in the
\* stage at the same time.
FirstAnswerStands ==
  [][\A j \in Jobs, s \in Stages :
       checkpoints[j][s] # NoCheckpoint /\ checkpoints'[j][s] # checkpoints[j][s]
       => \/ checkpoints'[j][s].outputs.kind = "nudge"
          \/ j \in unsealed' \cup mixed' \cup raced']_vars

\* A pass whose limits are known ends, whatever its agent does: the limit on model
\* calls stops an agent that never gives a final answer.
PassEnds ==
  \A p \in Passes : (Running(p) /\ pass[p].limited) ~> ~(Running(p) /\ pass[p].limited)

=============================================================================
