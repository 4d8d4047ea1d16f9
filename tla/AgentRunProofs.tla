---------------------------- MODULE AgentRunProofs ----------------------------
(***************************************************************************)
(* Proofs about AgentRun: its types, the names and the shape of a pass,    *)
(* and what follows from them for the counts (model calls, items), the     *)
(* checkpoints and the working memory (whose answers a pass is given), the *)
(* repeat guard, and the stages that are answered already.  The tree that  *)
(* the passes store is the subject of AgentTreeProofs.                     *)
(***************************************************************************)
EXTENDS TopologicalSortProofs

-----------------------------------------------------------------------------
(* Types.                                                                  *)

Lists == {c.batch : c \in AllCalls}

PassTypes ==
  [at : {"idle", "begun", "extract", "think", "before", "brief", "persist", "create",
         "counted", "inserted", "after", "done", "failed", "interrupted"},
   alone : BOOLEAN, limited : BOOLEAN, granted : Nat, made : Nat,
   extracted : BOOLEAN, briefed : BOOLEAN,
   call : AllCalls, outputs : Outputs, resumed : BOOLEAN, left : Seq(GeneratedItem),
   itemIDs : [LocalIds -> Nat], rootNodeID : Nat,
   recent : Seq(AllCalls), stuck : SUBSET AllCalls]

Guards == [lastKey : Keys, streak : Nat, nudged : SUBSET Keys]

Answers == {o \in Outputs : o.kind # "error"}

Envelopes == [doc : Jobs \cup {NoJob}, outputs : Answers]

TreeItems == [job : Jobs, id : LocalIds, under : LocalIds \cup {NoItem}, parent : Nat]

UsageCounters == [llmCalls : Nat, itemCreations : Nat, capable : BOOLEAN]

Supplies == [runs : SUBSET Passes, unread : Nat, faults : Nat]

\* Every delivery is one of a job, and there are finitely many.
LEMMA JobIs ==
  /\ \A p \in Passes : JobOf[p] \in Jobs
  /\ Passes \in SUBSET Nat
  /\ IsFiniteSet(Passes)
<1>1. JobOf \in Seq(Jobs)
  BY NamesAssumption
<1>2. Passes = 1..Len(JobOf) /\ Len(JobOf) \in Nat
  BY <1>1 DEF Passes
<1>3. IsFiniteSet(1..Len(JobOf))
  BY <1>2, FS_Interval
<1> QED
  BY <1>1, <1>2, <1>3

\* The calls of a job, and what they carry.
LEMMA CallTypes ==
  /\ NoCall \in AllCalls
  /\ \A j \in Jobs : Calls(j) \subseteq AllCalls
  /\ \A j \in Jobs : \A c \in Calls(j) :
       c.tool \in {"generate_brief", "persist_knowledge_tree"}
       /\ (c.tool = "generate_brief" => c.batch = <<>>)
       /\ (c.tool = "persist_knowledge_tree" => c.batch \in Batches[j])
  /\ \A c \in AllCalls : c.batch \in Seq(GeneratedItem) /\ c.batch \in Lists
<1>1. NoCall \in AllCalls
  BY DEF AllCalls
<1>2. \A j \in Jobs : Calls(j) \subseteq AllCalls
  BY DEF AllCalls
<1>3. ASSUME NEW j \in Jobs, NEW c \in Calls(j)
      PROVE  /\ c.tool \in {"generate_brief", "persist_knowledge_tree"}
             /\ c.tool = "generate_brief" => c.batch = <<>>
             /\ c.tool = "persist_knowledge_tree" => c.batch \in Batches[j]
  BY <1>3 DEF Calls
<1>4. ASSUME NEW c \in AllCalls PROVE c.batch \in Seq(GeneratedItem) /\ c.batch \in Lists
  <2>1. CASE c = NoCall
    <3>1. c.batch = <<>>
      BY <2>1 DEF NoCall
    <3> QED
      BY <3>1 DEF Lists
  <2>2. CASE \E j \in Jobs : c \in Calls(j)
    <3>1. PICK j \in Jobs : c \in Calls(j)
      BY <2>2
    <3>2. c.batch = <<>> \/ c.batch \in Batches[j]
      BY <1>3, <3>1
    <3>3. \A b \in Batches[j] : b \in Seq(GeneratedItem)
      BY BatchesAssumption
    <3>4. <<>> \in Seq(GeneratedItem)
      OBVIOUS
    <3>5. c.batch \in Seq(GeneratedItem)
      BY <3>2, <3>3, <3>4
    <3> QED
      BY <3>5 DEF Lists
  <2> QED
    BY <2>1, <2>2 DEF AllCalls
<1> QED
  BY <1>1, <1>2, <1>3, <1>4

\* A pass calls the tools of its job.
LEMMA CallsOfPass ==
  ASSUME NEW p \in Passes, NEW c \in Calls(JobOf[p])
  PROVE  /\ c \in AllCalls
         /\ c.tool \in {"generate_brief", "persist_knowledge_tree"}
         /\ c.tool = "generate_brief" => c.batch = <<>>
         /\ c.tool = "persist_knowledge_tree" => c.batch \in Batches[JobOf[p]]
BY JobIs, CallTypes

\* The lists that are persisted have been sorted.
LEMMA SortedIs ==
  ASSUME NEW j \in Jobs, NEW b \in Batches[j]
  PROVE  sortedItems[b] = sortItemsTopologically(b)
BY DEF sortedItems

\* A list sorted is a list.
LEMMA SortedTypes ==
  ASSUME NEW j \in Jobs, NEW b \in Batches[j]
  PROVE  b \in Seq(GeneratedItem) /\ sortedItems[b] \in Seq(GeneratedItem)
<1>1. b \in Seq(GeneratedItem)
  BY BatchesAssumption
<1>2. sortItemsTopologically(b) \in Seq(GeneratedItem)
  BY <1>1, SortedParentsFirst
<1> QED
  BY <1>1, <1>2, SortedIs

\* What an answer can be about.
LEMMA OutputTypes ==
  /\ <<>> \in Lists
  /\ \A k \in {"none", "error", "nudge", "brief", "empty", "saved"},
        i \in Jobs \cup {NoJob}, b \in Lists :
       /\ Output(k, i, b) \in Outputs
       /\ Output(k, i, b).kind = k /\ Output(k, i, b).from = i /\ Output(k, i, b).batch = b
  /\ NoOutput \in Outputs /\ NoOutput.kind = "none"
  /\ \A o \in Outputs : o.from \in Jobs \cup {NoJob} /\ o.batch \in Lists
<1>1. <<>> \in Lists
  <2>1. NoCall.batch = <<>>
    BY DEF NoCall
  <2> QED
    BY <2>1, CallTypes
<1>2. \A k \in {"none", "error", "nudge", "brief", "empty", "saved"},
        i \in Jobs \cup {NoJob}, b \in Lists :
       /\ Output(k, i, b) \in Outputs
       /\ Output(k, i, b).kind = k /\ Output(k, i, b).from = i /\ Output(k, i, b).batch = b
  <2>1. Outputs = [kind : {"none", "error", "nudge", "brief", "empty", "saved"},
                   from : Jobs \cup {NoJob}, batch : Lists]
    BY Zenon DEF Outputs, Lists
  <2> QED
    BY <2>1 DEF Output
<1>3. NoOutput \in Outputs /\ NoOutput.kind = "none"
  BY <1>1, <1>2 DEF NoOutput
<1>4. \A o \in Outputs : o.from \in Jobs \cup {NoJob} /\ o.batch \in Lists
  BY DEF Outputs, Lists
<1> QED
  BY <1>1, <1>2, <1>3, <1>4

\* The tracker stays a tracker.
LEMMA GuardTypes ==
  /\ newRepeatTracker \in Guards
  /\ \A j \in Jobs, c \in AllCalls : callKey(j, c) \in Keys
  /\ \A g \in Guards, k \in Keys : observe(g, k) \in Guards
<1>1. callKey(NoJob, NoCall) \in Keys
  BY DEF Keys
<1>2. newRepeatTracker \in Guards
  BY <1>1 DEF newRepeatTracker, Guards
<1>3. \A j \in Jobs, c \in AllCalls : callKey(j, c) \in Keys
  BY DEF Keys
<1>4. ASSUME NEW g \in Guards, NEW k \in Keys PROVE observe(g, k) \in Guards
  <2>1. repeatThreshold \in Nat
    BY LimitsAssumption
  <2>2. g.streak \in Nat /\ g.nudged \in SUBSET Keys
    BY DEF Guards
  <2> QED
    BY <2>1, <2>2 DEF Guards, observe, UpTo
<1> QED
  BY <1>2, <1>3, <1>4

\* A pass that has not begun, or is over.
LEMMA EndedTypes ==
  /\ NoPass \in PassTypes
  /\ \A s \in Resting : Ended(s) \in PassTypes
<1>1. /\ NoOutput \in Outputs /\ NoCall \in AllCalls
      /\ <<>> \in Seq(GeneratedItem) /\ <<>> \in Seq(AllCalls)
      /\ [i \in LocalIds |-> 0] \in [LocalIds -> Nat]
  BY CallTypes, OutputTypes
<1>2. NoPass \in PassTypes
  BY <1>1 DEF NoPass, PassTypes
<1>3. ASSUME NEW s \in Resting PROVE Ended(s) \in PassTypes
  BY <1>2 DEF Ended, PassTypes, Resting
<1> QED
  BY <1>2, <1>3

\* A pass whose hooks and tools may run: its document has been processed.
Hooked(p) ==
  pass[p].at \in {"extract", "think", "before", "brief", "persist", "create", "counted", "inserted",
                  "after"}

\* An instance that runs a pass has a job, and one that has processed a document
\* a current job.
Named ==
  \A p \in Passes : /\ Running(p) => job \in Jobs
                    /\ Hooked(p) => currentJobID \in Jobs

\* The types, part by part.
RestTypes ==
  /\ job \in Jobs \cup {NoJob}
  /\ currentJobID \in Jobs \cup {NoJob}
  /\ repeatGuard \in Guards
  /\ memory \in [map : Jobs \cup {NoJob}, brief : Jobs \cup {NoJob}]
  /\ counters \in [Jobs -> UsageCounters]
  /\ checkpoints \in [Jobs -> [Stages -> Envelopes]]
  /\ tree \in Seq(TreeItems)
  /\ mutations \in [Jobs -> Nat]
  /\ allowance \in Supplies
  /\ guardUsers \in SUBSET Passes
  /\ mixed \in SUBSET Jobs
  /\ raced \in SUBSET Jobs
  /\ unsealed \in SUBSET Jobs
  /\ unlogged \in [Jobs -> Nat]
  /\ crowd \in [Jobs -> Nat]

\* TypeOK is these types and the one of misrooted.
LEMMA TypeParts ==
  TypeOK <=> pass \in [Passes -> PassTypes] /\ RestTypes /\ misrooted \in BOOLEAN
BY DEF TypeOK, RestTypes, PassTypes, Guards, UsageCounters, Envelopes, Answers, TreeItems, Supplies

\* The types hold at first.
LEMMA InitTypes == Init => TypeOK
<1> SUFFICES ASSUME Init PROVE pass \in [Passes -> PassTypes] /\ RestTypes /\ misrooted \in BOOLEAN
  BY TypeParts
<1>1. pass \in [Passes -> PassTypes]
  BY EndedTypes DEF Init
<1>2. NoCheckpoint \in Envelopes
  BY OutputTypes DEF NoCheckpoint, Envelopes, Answers
<1>3. checkpoints \in [Jobs -> [Stages -> Envelopes]]
  BY <1>2 DEF Init
<1>4. repeatGuard \in Guards
  BY GuardTypes DEF Init
<1>5. allowance \in Supplies
  BY LimitsAssumption DEF Init, Supplies, Passes
<1>6. counters \in [Jobs -> UsageCounters]
  BY DEF Init, UsageCounters, FreshCounters
<1>7. memory \in [map : Jobs \cup {NoJob}, brief : Jobs \cup {NoJob}]
  BY DEF Init, EmptyMemory
<1>8. /\ job \in Jobs \cup {NoJob} /\ currentJobID \in Jobs \cup {NoJob}
      /\ tree \in Seq(TreeItems)
      /\ guardUsers \in SUBSET Passes
      /\ mixed \in SUBSET Jobs /\ raced \in SUBSET Jobs /\ unsealed \in SUBSET Jobs
      /\ mutations \in [Jobs -> Nat] /\ unlogged \in [Jobs -> Nat] /\ crowd \in [Jobs -> Nat]
  BY DEF Init
<1>9. misrooted \in BOOLEAN
  BY DEF Init
<1> QED
  BY <1>1, <1>3, <1>4, <1>5, <1>6, <1>7, <1>8, <1>9 DEF RestTypes

-----------------------------------------------------------------------------
(* What each action does to the passes, field by field.                    *)

\* What the run of a pass is told, and the calls it has made.
SameTerms(w, q) == q.alone = w.alone /\ q.limited = w.limited /\ q.granted = w.granted

SameRun(w, q) ==
  /\ SameTerms(w, q)
  /\ q.extracted = w.extracted /\ q.briefed = w.briefed /\ q.made = w.made

SameCall(w, q) == q.call = w.call /\ q.recent = w.recent /\ q.stuck = w.stuck

SameTool(w, q) == q.left = w.left /\ q.itemIDs = w.itemIDs /\ q.rootNodeID = w.rootNodeID

\* The tool has nothing in hand.
Idle(q) == q.left = <<>> /\ q.itemIDs = [i \in LocalIds |-> 0] /\ q.rootNodeID = 0

\* The step is of pass p, and stays in its types.
Only(p) ==
  /\ pass' \in [Passes -> PassTypes]
  /\ \A k \in Passes : k # p => pass'[k] = pass[k]

\* A step that changes one pass.
LEMMA OnlyOne ==
  ASSUME pass \in [Passes -> PassTypes], NEW p \in Passes, NEW w \in PassTypes,
         pass' = [pass EXCEPT ![p] = w]
  PROVE  Only(p) /\ pass'[p] = w
BY DEF Only

\* A pass is one of those.
LEMMA PassIs ==
  ASSUME pass \in [Passes -> PassTypes], NEW p \in Passes
  PROVE  \E u \in PassTypes : u = pass[p]
OBVIOUS

\* ProcessDocument: the pass goes on to its document, and is as it was.
LEMMA ProcessDocumentDoes ==
  ASSUME pass \in [Passes -> PassTypes], NEW p \in Passes, ProcessDocument(p)
  PROVE  /\ Only(p) /\ pass[p].at = "begun" /\ pass'[p].at = "extract"
         /\ SameRun(pass[p], pass'[p]) /\ SameCall(pass[p], pass'[p]) /\ SameTool(pass[p], pass'[p])
         /\ pass'[p].outputs = pass[p].outputs
<1>0. PICK u \in PassTypes : u = pass[p]
  BY PassIs
<1> DEFINE w == [u EXCEPT !.at = "extract"]
<1>1. /\ w \in PassTypes /\ w.at = "extract" /\ w.outputs = u.outputs
      /\ SameRun(u, w) /\ SameCall(u, w) /\ SameTool(u, w)
  BY DEF PassTypes, SameRun, SameTerms, SameTerms, SameCall, SameTool
<1>2. pass' = [pass EXCEPT ![p] = w]
  BY <1>0 DEF ProcessDocument
<1> HIDE DEF w
<1> QED
  BY <1>0, <1>1, <1>2, OnlyOne DEF ProcessDocument, At

\* A pass goes on from its document, with so many transcriptions made.
LEMMA PreparedDoes ==
  ASSUME pass \in [Passes -> PassTypes], NEW p \in Passes, NEW e \in BOOLEAN, NEW m \in Nat,
         pass' = [pass EXCEPT ![p] = [pass[p] EXCEPT !.at = "think", !.extracted = e, !.made = m]]
  PROVE  /\ Only(p) /\ pass'[p].at = "think"
         /\ SameTerms(pass[p], pass'[p])
         /\ SameCall(pass[p], pass'[p]) /\ SameTool(pass[p], pass'[p])
         /\ pass'[p].outputs = pass[p].outputs /\ pass'[p].briefed = pass[p].briefed
         /\ pass'[p].made = m
         /\ pass'[p].extracted = e
<1>0. PICK u \in PassTypes : u = pass[p]
  BY PassIs
<1> DEFINE w == [u EXCEPT !.at = "think", !.extracted = e, !.made = m]
<1>1. /\ w \in PassTypes /\ w.at = "think" /\ w.made = m
      /\ SameTerms(u, w) /\ SameCall(u, w) /\ SameTool(u, w)
      /\ w.outputs = u.outputs
  BY DEF PassTypes, SameTerms, SameCall, SameTool
<1>2. w.extracted = e /\ w.briefed = u.briefed
  BY DEF PassTypes
<1>3. pass' = [pass EXCEPT ![p] = w]
  BY <1>0
<1> HIDE DEF w
<1> QED
  BY <1>0, <1>1, <1>2, <1>3, OnlyOne

\* prepareDocumentMap: the document is ready to be asked about, the transcriptions
\* have been made, and the call and the tool are as they were.
LEMMA PrepareDoes ==
  ASSUME pass \in [Passes -> PassTypes], NEW p \in Passes, prepareDocumentMap(p)
  PROVE  /\ Only(p) /\ pass[p].at = "extract" /\ pass'[p].at = "think"
         /\ SameTerms(pass[p], pass'[p])
         /\ SameCall(pass[p], pass'[p]) /\ SameTool(pass[p], pass'[p])
         /\ pass'[p].outputs = pass[p].outputs /\ pass'[p].briefed = pass[p].briefed
         /\ pass'[p].made \in 0..Transcriptions(p)
         /\ \/ memory' = DocumentMapOf(JobOf[p])
            \/ memory' = memory /\ pass'[p].extracted = pass[p].extracted
<1>1. PICK t \in Nat : t = Transcriptions(p)
  BY DEF Transcriptions
<1>2. pass[p].at = "extract"
  BY DEF prepareDocumentMap, At
<1>3. CASE /\ memory' = DocumentMapOf(JobOf[p])
           /\ pass' = [pass EXCEPT ![p].at = "think", ![p].extracted = TRUE, ![p].made = t]
  <2>1. pass' = [pass EXCEPT ![p] = [pass[p] EXCEPT !.at = "think", !.extracted = TRUE, !.made = t]]
    BY <1>3
  <2>2. t \in 0..t /\ TRUE \in BOOLEAN
    OBVIOUS
  <2>3. /\ Only(p) /\ pass'[p].at = "think"
        /\ SameTerms(pass[p], pass'[p])
        /\ SameCall(pass[p], pass'[p]) /\ SameTool(pass[p], pass'[p])
        /\ pass'[p].outputs = pass[p].outputs /\ pass'[p].briefed = pass[p].briefed
        /\ pass'[p].made = t
    BY <1>1, <2>1, <2>2, PreparedDoes, Zenon
  <2> QED
    BY <1>1, <1>2, <1>3, <2>2, <2>3
<1>4. CASE /\ \E n \in 0..t : pass' = [pass EXCEPT ![p].at = "think", ![p].made = n]
           /\ memory' = memory
  <2>1. PICK n \in 0..t : pass' = [pass EXCEPT ![p].at = "think", ![p].made = n]
    BY <1>4
  <2>2. PICK u \in PassTypes : u = pass[p]
    BY PassIs
  <2>3. PICK e : e = u.extracted
    OBVIOUS
  <2>4. e \in BOOLEAN
    BY <2>3 DEF PassTypes
  <2>5. [u EXCEPT !.at = "think", !.made = n] = [u EXCEPT !.at = "think", !.extracted = e, !.made = n]
    BY <2>3 DEF PassTypes
  <2>6. pass' = [pass EXCEPT ![p] = [pass[p] EXCEPT !.at = "think", !.extracted = e, !.made = n]]
    BY <2>1, <2>2, <2>5
  <2>7. n \in Nat
    BY <1>1
  <2>8. /\ Only(p) /\ pass'[p].at = "think"
        /\ SameTerms(pass[p], pass'[p])
        /\ SameCall(pass[p], pass'[p]) /\ SameTool(pass[p], pass'[p])
        /\ pass'[p].outputs = pass[p].outputs /\ pass'[p].briefed = pass[p].briefed
        /\ pass'[p].made = n
        /\ pass'[p].extracted = e
    BY <2>4, <2>6, <2>7, PreparedDoes, Zenon
  <2> QED
    BY <1>1, <1>2, <1>4, <2>2, <2>3, <2>8
<1> QED
  BY <1>1, <1>3, <1>4, Zenon DEF prepareDocumentMap

\* A count kept up to a bound is a count.
LEMMA MadeTypes ==
  ASSUME pass \in [Passes -> PassTypes], NEW p \in Passes
  PROVE  OneMoreMade(p) \in Nat
<1>1. pass[p].made \in Nat /\ pass[p].granted \in Nat
  BY DEF PassTypes
<1> QED
  BY <1>1 DEF OneMoreMade, UpTo

\* So is the count of a job's calls.
LEMMA ModelCallsType == \A j \in Jobs, n \in Nat : ModelCalls(j, n) \in Nat
BY LimitsAssumption DEF ModelCalls, UpTo

\* CallTool: one call more is made, and a tool of the job is asked for.
LEMMA CallToolDoes ==
  ASSUME pass \in [Passes -> PassTypes], NEW p \in Passes, CallTool(p)
  PROVE  /\ Only(p) /\ pass[p].at = "think" /\ pass'[p].at = "before"
         /\ pass'[p].call \in Calls(JobOf[p])
         /\ pass'[p].recent = pass[p].recent /\ pass'[p].stuck = pass[p].stuck
         /\ SameTool(pass[p], pass'[p])
         /\ pass'[p].outputs = pass[p].outputs
         /\ SameTerms(pass[p], pass'[p])
         /\ pass'[p].extracted = pass[p].extracted /\ pass'[p].briefed = pass[p].briefed
         /\ pass'[p].made = OneMoreMade(p)
<1>0. PICK u \in PassTypes : u = pass[p]
  BY PassIs
<1>1. PICK c \in Calls(JobOf[p]) :
        pass' = [pass EXCEPT ![p].at = "before", ![p].call = c, ![p].made = OneMoreMade(p)]
  BY DEF CallTool
<1>2. PICK m : m = OneMoreMade(p)
  OBVIOUS
<1>3. m \in Nat
  BY <1>2, MadeTypes
<1>4. c \in AllCalls
  BY CallsOfPass
<1> DEFINE w == [u EXCEPT !.at = "before", !.call = c, !.made = m]
<1>5. /\ w \in PassTypes /\ w.at = "before" /\ w.call = c /\ w.made = m
      /\ w.recent = u.recent /\ w.stuck = u.stuck /\ SameTool(u, w)
      /\ w.outputs = u.outputs /\ SameTerms(u, w)
      /\ w.extracted = u.extracted /\ w.briefed = u.briefed
  BY <1>3, <1>4 DEF PassTypes, SameTool, SameTerms
<1>6. pass' = [pass EXCEPT ![p] = w]
  BY <1>0, <1>1, <1>2
<1> HIDE DEF w
<1> QED
  BY <1>0, <1>2, <1>5, <1>6, OnlyOne DEF CallTool, At

\* A pass that is over.
LEMMA EndsDoes ==
  ASSUME pass \in [Passes -> PassTypes], NEW p \in Passes, NEW s \in Resting, Ends(p, s)
  PROVE  Only(p) /\ pass'[p] = Ended(s) /\ pass'[p].at = s
<1>1. Ended(s).at = s
  BY DEF Ended, NoPass
<1> QED
  BY <1>1, EndedTypes, OnlyOne DEF Ends

\* Nudge: the guard answers, and the call stays.
LEMMA NudgeDoes ==
  ASSUME pass \in [Passes -> PassTypes], NEW p \in Passes, Nudge(p)
  PROVE  /\ Only(p) /\ pass[p].at = "before" /\ pass'[p].at = "after"
         /\ SameRun(pass[p], pass'[p]) /\ SameCall(pass[p], pass'[p]) /\ SameTool(pass[p], pass'[p])
         /\ pass'[p].outputs = Output("nudge", JobOf[p], <<>>)
<1>0. PICK u \in PassTypes : u = pass[p]
  BY PassIs
<1>1. PICK o : o = Output("nudge", JobOf[p], <<>>)
  OBVIOUS
<1>2. o \in Outputs
  BY <1>1, JobIs, OutputTypes
<1> DEFINE w == [u EXCEPT !.at = "after", !.outputs = o]
<1>3. /\ w \in PassTypes /\ w.at = "after" /\ w.outputs = o
      /\ SameRun(u, w) /\ SameCall(u, w) /\ SameTool(u, w)
  BY <1>2 DEF PassTypes, SameRun, SameTerms, SameCall, SameTool
<1>4. pass' = [pass EXCEPT ![p] = w]
  BY <1>0, <1>1 DEF Nudge
<1> HIDE DEF w
<1> QED
  BY <1>0, <1>1, <1>3, <1>4, OnlyOne DEF Nudge, Before, At

\* ResumeFromCheckpoint: the checkpoint's answer is given, and the call stays.
LEMMA ResumeDoes ==
  ASSUME pass \in [Passes -> PassTypes], NEW p \in Passes, ResumeFromCheckpoint(p),
         checkpoints[currentJobID][checkpointKey(pass[p].call)].outputs \in Outputs
  PROVE  /\ Only(p) /\ pass[p].at = "before" /\ pass'[p].at = "after"
         /\ SameRun(pass[p], pass'[p]) /\ SameCall(pass[p], pass'[p]) /\ SameTool(pass[p], pass'[p])
         /\ pass'[p].outputs = checkpoints[currentJobID][checkpointKey(pass[p].call)].outputs
         /\ pass'[p].resumed = TRUE
<1>0. PICK u \in PassTypes : u = pass[p]
  BY PassIs
<1>1. PICK o : o = checkpoints[currentJobID][checkpointKey(pass[p].call)].outputs
  OBVIOUS
<1> DEFINE w == [u EXCEPT !.at = "after", !.resumed = TRUE, !.outputs = o]
<1>3. /\ w \in PassTypes /\ w.at = "after" /\ w.outputs = o
      /\ SameRun(u, w) /\ SameCall(u, w) /\ SameTool(u, w)
  BY <1>1 DEF PassTypes, SameRun, SameTerms, SameCall, SameTool
<1>4. pass' = [pass EXCEPT ![p] = w]
  BY <1>0, <1>1 DEF ResumeFromCheckpoint
<1>5. w.resumed = TRUE
  BY DEF PassTypes
<1> HIDE DEF w
<1> QED
  BY <1>0, <1>1, <1>3, <1>4, <1>5, OnlyOne DEF ResumeFromCheckpoint, Before, At

\* EnterTool: the tool of the call runs.
LEMMA EnterToolDoes ==
  ASSUME pass \in [Passes -> PassTypes], NEW p \in Passes, EnterTool(p)
  PROVE  /\ Only(p) /\ pass[p].at = "before"
         /\ pass'[p].at = IF pass[p].call.tool = "generate_brief" THEN "brief" ELSE "persist"
         /\ SameRun(pass[p], pass'[p]) /\ SameCall(pass[p], pass'[p]) /\ SameTool(pass[p], pass'[p])
         /\ pass'[p].outputs = pass[p].outputs
<1>0. PICK u \in PassTypes : u = pass[p]
  BY PassIs
<1>1. PICK s : s = IF pass[p].call.tool = "generate_brief" THEN "brief" ELSE "persist"
  OBVIOUS
<1> DEFINE w == [u EXCEPT !.at = s]
<1>3. /\ w \in PassTypes /\ w.at = s /\ w.outputs = u.outputs
      /\ SameRun(u, w) /\ SameCall(u, w) /\ SameTool(u, w)
  BY <1>1 DEF PassTypes, SameRun, SameTerms, SameCall, SameTool
<1>4. pass' = [pass EXCEPT ![p] = w]
  BY <1>0, <1>1 DEF EnterTool
<1> HIDE DEF w
<1> QED
  BY <1>0, <1>1, <1>3, <1>4, OnlyOne DEF EnterTool, Before, At

\* generate_brief: a brief is answered, and the pass has one.
LEMMA BriefDoes ==
  ASSUME pass \in [Passes -> PassTypes], NEW p \in Passes, generate_brief(p)
  PROVE  /\ Only(p) /\ pass[p].at = "brief" /\ pass'[p].at = "after"
         /\ SameCall(pass[p], pass'[p]) /\ SameTool(pass[p], pass'[p])
         /\ pass'[p].outputs = Output("brief", JobOf[p], <<>>)
         /\ SameTerms(pass[p], pass'[p])
         /\ pass'[p].extracted = pass[p].extracted /\ pass'[p].briefed = TRUE
         /\ pass'[p].made = IF LimitExceeded(JobOf[p], counters'[JobOf[p]]) THEN pass[p].made
                            ELSE OneMoreMade(p)
<1>0. PICK u \in PassTypes : u = pass[p]
  BY PassIs
<1>1. PICK o : o = Output("brief", JobOf[p], <<>>)
  OBVIOUS
<1>2. o \in Outputs
  BY <1>1, JobIs, OutputTypes
<1>3. PICK m : m = IF LimitExceeded(JobOf[p], counters'[JobOf[p]]) THEN pass[p].made
                   ELSE OneMoreMade(p)
  OBVIOUS
<1>4. m \in Nat
  <2>1. pass[p].made \in Nat
    BY DEF PassTypes
  <2> QED
    BY <1>3, <2>1, MadeTypes
<1> DEFINE w == [u EXCEPT !.at = "after", !.outputs = o, !.briefed = TRUE, !.made = m]
<1>5. /\ w \in PassTypes /\ w.at = "after" /\ w.outputs = o /\ w.made = m
      /\ SameCall(u, w) /\ SameTool(u, w)
      /\ SameTerms(u, w) /\ w.extracted = u.extracted
  BY <1>2, <1>4 DEF PassTypes, SameCall, SameTool, SameTerms
<1>6. w.briefed = TRUE
  BY DEF PassTypes
<1>7. pass' = [pass EXCEPT ![p] = w]
  BY <1>0, <1>1, <1>3 DEF generate_brief
<1> HIDE DEF w
<1> QED
  BY <1>0, <1>1, <1>3, <1>5, <1>6, <1>7, OnlyOne DEF generate_brief, At

\* A tool that returns.
LEMMA ReturnDoes ==
  ASSUME pass \in [Passes -> PassTypes], NEW p \in Passes, NEW o \in Outputs, Return(p, o)
  PROVE  /\ Only(p) /\ pass'[p].at = "after" /\ pass'[p].outputs = o
         /\ SameRun(pass[p], pass'[p]) /\ SameCall(pass[p], pass'[p]) /\ Idle(pass'[p])
<1>0. PICK u \in PassTypes : u = pass[p]
  BY PassIs
<1>1. PICK e : e = [i \in LocalIds |-> 0]
  OBVIOUS
<1>2. e \in [LocalIds -> Nat] /\ NoPass.itemIDs = e
  BY <1>1 DEF NoPass
<1> DEFINE w == [u EXCEPT !.at = "after", !.outputs = o, !.left = <<>>,
                                !.itemIDs = e, !.rootNodeID = 0]
<1>3. /\ w \in PassTypes /\ w.at = "after" /\ w.outputs = o
      /\ SameRun(u, w) /\ SameCall(u, w)
      /\ w.left = <<>> /\ w.itemIDs = e /\ w.rootNodeID = 0
  <2>1. PICK l : l = <<>>
    OBVIOUS
  <2>2. l \in Seq(GeneratedItem)
    BY <2>1
  <2> DEFINE q == [u EXCEPT !.at = "after", !.outputs = o, !.left = l]
  <2>3. q \in PassTypes /\ q.at = "after" /\ q.outputs = o /\ q.left = l
    BY <2>2 DEF PassTypes
  <2>4. SameRun(u, q) /\ SameCall(u, q)
    BY DEF PassTypes, SameRun, SameTerms, SameCall
  <2>5. w = [q EXCEPT !.itemIDs = e, !.rootNodeID = 0]
    BY <2>1 DEF PassTypes
  <2> HIDE DEF w, q
  <2>6. /\ w \in PassTypes /\ w.at = "after" /\ w.outputs = o
        /\ w.left = l /\ w.itemIDs = e /\ w.rootNodeID = 0
    BY <1>2, <2>3, <2>5 DEF PassTypes
  <2>7. SameRun(q, w) /\ SameCall(q, w)
    BY <2>3, <2>5 DEF PassTypes, SameRun, SameTerms, SameCall
  <2> QED
    BY <2>1, <2>4, <2>6, <2>7 DEF SameRun, SameTerms, SameCall
<1>4. pass' = [pass EXCEPT ![p] = w]
  BY <1>0, <1>2 DEF Return
<1> HIDE DEF w
<1> QED
  BY <1>0, <1>1, <1>3, <1>4, OnlyOne DEF Idle

\* StartPersist: the sorted items are in hand, and a root or none.
LEMMA StartPersistDoes ==
  ASSUME pass \in [Passes -> PassTypes], NEW p \in Passes, StartPersist(p), resolveRootNodeID \in Nat,
         sortedItems[pass[p].call.batch] \in Seq(GeneratedItem)
  PROVE  /\ Only(p) /\ pass[p].at = "persist" /\ pass'[p].at = "create"
         /\ SameRun(pass[p], pass'[p]) /\ SameCall(pass[p], pass'[p])
         /\ pass'[p].outputs = pass[p].outputs /\ pass'[p].itemIDs = pass[p].itemIDs
         /\ pass'[p].left = sortedItems[pass[p].call.batch]
         /\ pass'[p].rootNodeID \in {resolveRootNodeID, 0}
         /\ \/ /\ pass'[p].rootNodeID = resolveRootNodeID
               /\ misrooted' = (misrooted \/ (pass'[p].rootNodeID = 0 /\ RootPending(p)))
               /\ UNCHANGED allowance
            \/ /\ pass'[p].rootNodeID # resolveRootNodeID
               /\ Fault
               /\ misrooted' = TRUE
<1>00. PICK u \in PassTypes : u = pass[p]
  BY PassIs
<1>0. PICK sorted : sorted = sortedItems[pass[p].call.batch]
  OBVIOUS
<1>1. PICK root \in {resolveRootNodeID, 0} :
        /\ pass' = [pass EXCEPT ![p].at = "create", ![p].left = sorted, ![p].rootNodeID = root]
        /\ \/ /\ root = resolveRootNodeID
              /\ misrooted' = (misrooted \/ (root = 0 /\ RootPending(p)))
              /\ UNCHANGED allowance
           \/ /\ root # resolveRootNodeID
              /\ Fault
              /\ misrooted' = TRUE
  BY <1>0, Zenon DEF StartPersist
<1>2. root \in Nat
  OBVIOUS
<1>3. sorted \in Seq(GeneratedItem)
  BY <1>0
<1> DEFINE w == [u EXCEPT !.at = "create", !.left = sorted, !.rootNodeID = root]
<1>4. /\ w \in PassTypes /\ w.at = "create" /\ w.left = sorted /\ w.rootNodeID = root
      /\ SameRun(u, w) /\ SameCall(u, w)
      /\ w.outputs = u.outputs /\ w.itemIDs = u.itemIDs
  BY <1>2, <1>3 DEF PassTypes, SameRun, SameTerms, SameCall
<1>5. pass' = [pass EXCEPT ![p] = w]
  BY <1>00, <1>1
<1> HIDE DEF w
<1>6. Only(p) /\ pass'[p] = w
  BY <1>4, <1>5, OnlyOne
<1>7. pass[p].at = "persist"
  BY DEF StartPersist, Reserve, At
<1> QED
  BY <1>00, <1>0, <1>1, <1>4, <1>6, <1>7, Zenon

\* The item at hand is stored, or counted first.
LEMMA StoredDoes ==
  ASSUME pass \in [Passes -> PassTypes], NEW p \in Passes, NEW n \in Nat,
         NEW s \in {"create", "inserted"}, pass[p].left # <<>>, Stored(p, n, s)
  PROVE  /\ Only(p) /\ pass'[p].at = s
         /\ SameRun(pass[p], pass'[p]) /\ SameCall(pass[p], pass'[p])
         /\ pass'[p].outputs = pass[p].outputs
         /\ pass'[p].left = Tail(pass[p].left)
         /\ pass'[p].itemIDs = [pass[p].itemIDs EXCEPT ![NextItem(p).id] = n]
         /\ pass'[p].rootNodeID = IF NextItem(p).into = 0 /\ ParentFor(p) = 0
                                  THEN n ELSE pass[p].rootNodeID
<1>0. PICK u \in PassTypes : u = pass[p]
  BY PassIs
<1>1. PICK l : l = Tail(pass[p].left)
  OBVIOUS
<1>2. l \in Seq(GeneratedItem)
  BY <1>1 DEF PassTypes
<1>3. PICK k : k = IF NextItem(p).into = 0 /\ ParentFor(p) = 0 THEN n ELSE pass[p].rootNodeID
  OBVIOUS
<1>4. k \in Nat
  BY <1>3 DEF PassTypes
<1>5. PICK e : e = [pass[p].itemIDs EXCEPT ![NextItem(p).id] = n]
  OBVIOUS
<1>6. e \in [LocalIds -> Nat]
  BY <1>5 DEF PassTypes
<1> DEFINE w == [u EXCEPT !.at = s, !.left = l, !.itemIDs = e, !.rootNodeID = k]
<1>7. /\ w \in PassTypes /\ w.at = s /\ w.left = l /\ w.itemIDs = e /\ w.rootNodeID = k
      /\ SameRun(u, w) /\ SameCall(u, w)
      /\ w.outputs = u.outputs
  BY <1>2, <1>4, <1>6 DEF PassTypes, SameRun, SameTerms, SameCall
<1>8. pass' = [pass EXCEPT ![p] = w]
  BY <1>0, <1>1, <1>3, <1>5 DEF Stored
<1> HIDE DEF w
<1>9. Only(p) /\ pass'[p] = w
  BY <1>7, <1>8, OnlyOne
<1> QED
  BY <1>0, <1>1, <1>3, <1>5, <1>7, <1>9

\* CountItems and LogItem move the pass on, and nothing else of it.
LEMMA MovedDoes ==
  ASSUME pass \in [Passes -> PassTypes], NEW p \in Passes, NEW s \in {"create", "counted"},
         pass' = [pass EXCEPT ![p].at = s]
  PROVE  /\ Only(p) /\ pass'[p].at = s
         /\ SameRun(pass[p], pass'[p]) /\ SameCall(pass[p], pass'[p]) /\ SameTool(pass[p], pass'[p])
         /\ pass'[p].outputs = pass[p].outputs
<1>0. PICK u \in PassTypes : u = pass[p]
  BY PassIs
<1> DEFINE w == [u EXCEPT !.at = s]
<1>1. /\ w \in PassTypes /\ w.at = s /\ w.outputs = u.outputs
      /\ SameRun(u, w) /\ SameCall(u, w) /\ SameTool(u, w)
  BY DEF PassTypes, SameRun, SameTerms, SameCall, SameTool
<1>2. pass' = [pass EXCEPT ![p] = w]
  BY <1>0
<1> HIDE DEF w
<1> QED
  BY <1>0, <1>1, <1>2, OnlyOne

\* A call that was answered.
LEMMA AnsweredDoes ==
  ASSUME pass \in [Passes -> PassTypes], NEW p \in Passes, Answered(p)
  PROVE  /\ Only(p) /\ pass'[p].at = "think"
         /\ pass'[p].call = NoCall /\ pass'[p].outputs = NoOutput
         /\ SameRun(pass[p], pass'[p]) /\ SameTool(pass[p], pass'[p])
         /\ pass'[p].recent = LET recent == Append(pass[p].recent, pass[p].call) IN
                              IF Len(recent) > repeatThreshold THEN Tail(recent) ELSE recent
         /\ pass'[p].stuck = IF IsStuck(p) THEN pass[p].stuck \cup {pass[p].call} ELSE pass[p].stuck
<1>0. PICK u \in PassTypes : u = pass[p]
  BY PassIs
<1>1. PICK r : r = LET recent == Append(pass[p].recent, pass[p].call) IN
                   IF Len(recent) > repeatThreshold THEN Tail(recent) ELSE recent
  OBVIOUS
<1>2. pass[p].recent \in Seq(AllCalls) /\ pass[p].call \in AllCalls /\ pass[p].stuck \in SUBSET AllCalls
  BY DEF PassTypes
<1>3. r \in Seq(AllCalls)
  <2>1. PICK a : a = Append(pass[p].recent, pass[p].call)
    OBVIOUS
  <2>2. a \in Seq(AllCalls) /\ a # <<>>
    BY <1>2, <2>1
  <2> QED
    BY <1>1, <2>1, <2>2
<1>4. PICK s : s = IF IsStuck(p) THEN pass[p].stuck \cup {pass[p].call} ELSE pass[p].stuck
  OBVIOUS
<1>5. s \in SUBSET AllCalls
  BY <1>2, <1>4
<1>6. NoCall \in AllCalls /\ NoOutput \in Outputs
  BY CallTypes, OutputTypes
<1> DEFINE w == [u EXCEPT !.at = "think", !.call = NoCall, !.outputs = NoOutput, !.resumed = FALSE,
                          !.recent = r, !.stuck = s]
<1>7. /\ w \in PassTypes /\ w.at = "think" /\ w.call = NoCall /\ w.outputs = NoOutput
      /\ w.recent = r /\ w.stuck = s /\ SameRun(u, w) /\ SameTool(u, w)
  <2>1. w \in PassTypes
    <3> DEFINE q == [u EXCEPT !.at = "think", !.call = NoCall, !.outputs = NoOutput, !.resumed = FALSE]
    <3>1. q \in PassTypes
      BY <1>6 DEF PassTypes
    <3>2. w = [q EXCEPT !.recent = r, !.stuck = s]
      BY DEF PassTypes
    <3> HIDE DEF w, q
    <3> QED
      BY <1>3, <1>5, <3>1, <3>2 DEF PassTypes
  <2>2. /\ w.at = "think" /\ w.call = NoCall /\ w.outputs = NoOutput
        /\ w.recent = r /\ w.stuck = s
    BY DEF PassTypes
  <2>3. SameRun(u, w) /\ SameTool(u, w)
    BY DEF PassTypes, SameRun, SameTerms, SameTool
  <2> QED
    BY <2>1, <2>2, <2>3
<1>8. pass' = [pass EXCEPT ![p] = w]
  BY <1>0, <1>1, <1>4 DEF Answered
<1> HIDE DEF w
<1> QED
  BY <1>0, <1>1, <1>4, <1>7, <1>8, OnlyOne

\* What goes on of a pass that another joins.
GoesOn(w, q) ==
  /\ q.at = w.at /\ q.made = w.made
  /\ q.extracted = w.extracted /\ q.briefed = w.briefed
  /\ q.outputs = w.outputs /\ q.resumed = w.resumed
  /\ SameCall(w, q) /\ SameTool(w, q)

\* A pass that has just begun has nothing.
Begins(w) ==
  /\ w.at = "begun" /\ Idle(w) /\ w.made = 0
  /\ w.call = NoCall /\ w.outputs = NoOutput /\ w.recent = <<>> /\ w.stuck = {}
  /\ w.extracted = FALSE /\ w.briefed = FALSE

\* The pass p begins; the others that run are no longer alone.
LEMMA BeginJobDoes ==
  ASSUME pass \in [Passes -> PassTypes], NEW p \in Passes, BeginJob(p)
  PROVE  /\ pass' \in [Passes -> PassTypes]
         /\ pass[p].at = "idle" /\ Begins(pass'[p])
         /\ pass'[p].alone => \A k \in Passes : k # p => ~Running(k)
         /\ \A k \in Passes : k # p =>
              /\ GoesOn(pass[k], pass'[k])
              /\ Running(k) => ~pass'[k].alone
              /\ ~Running(k) => pass'[k] = pass[k]
         /\ \E capable \in BOOLEAN :
              /\ counters' = [counters EXCEPT ![JobOf[p]] = [FreshCounters EXCEPT !.capable = capable]]
              /\ pass'[p].limited = capable
              /\ pass'[p].granted = MaxLLMCalls[JobOf[p]] + Transcriptions(p)
              /\ \A k \in Passes : k # p /\ Running(k) =>
                   /\ JobOf[k] # JobOf[p] => /\ pass'[k].limited = pass[k].limited
                                             /\ pass'[k].granted = pass[k].granted
                   /\ JobOf[k] = JobOf[p] => /\ pass'[k].limited = (pass[k].limited /\ capable)
                                             /\ pass'[k].granted = pass[k].granted + MaxLLMCalls[JobOf[p]]
<1>0. PICK capable \in BOOLEAN :
        /\ counters' = [counters EXCEPT ![JobOf[p]] = [FreshCounters EXCEPT !.capable = capable]]
        /\ pass' = [q \in Passes |-> IF q = p THEN Begun(p, capable)
                                     ELSE IF Running(q) THEN Joined(q, p, capable) ELSE pass[q]]
  BY DEF BeginJob
<1>1. MaxLLMCalls[JobOf[p]] \in Nat /\ Transcriptions(p) \in Nat
  BY JobIs, LimitsAssumption DEF Transcriptions
<1>2. PICK g : g = MaxLLMCalls[JobOf[p]] + Transcriptions(p)
  OBVIOUS
<1>3. g \in Nat
  BY <1>1, <1>2
<1> DEFINE b == \A q \in Passes \ {p} : ~Running(q)
           w == [NoPass EXCEPT !.at = "begun", !.alone = b, !.limited = capable, !.granted = g]
<1>4. b \in BOOLEAN
  OBVIOUS
<1>5. Begun(p, capable) = w
  BY <1>2 DEF Begun
<1>6. b => \A k \in Passes : k # p => ~Running(k)
  OBVIOUS
<1> HIDE DEF b
<1>7. w \in PassTypes
  BY <1>3, <1>4, EndedTypes DEF PassTypes
<1>8. Begins(w) /\ w.granted = g
  BY DEF NoPass, Begins, Idle
<1>9. w.alone = b /\ w.limited = capable
  BY <1>4 DEF NoPass
<1> HIDE DEF w
<1>10. pass'[p] = w
  BY <1>0, <1>5
<1>11. ASSUME NEW k \in Passes, k # p, Running(k)
       PROVE  /\ pass'[k] \in PassTypes /\ GoesOn(pass[k], pass'[k])
              /\ ~pass'[k].alone
              /\ JobOf[k] # JobOf[p] => /\ pass'[k].limited = pass[k].limited
                                        /\ pass'[k].granted = pass[k].granted
              /\ JobOf[k] = JobOf[p] => /\ pass'[k].limited = (pass[k].limited /\ capable)
                                        /\ pass'[k].granted = pass[k].granted + MaxLLMCalls[JobOf[p]]
  <2>1. PICK l \in BOOLEAN : l = (pass[k].limited /\ (JobOf[k] = JobOf[p] => capable))
    OBVIOUS
  <2>2. PICK h : h = IF JobOf[k] = JobOf[p] THEN pass[k].granted + MaxLLMCalls[JobOf[p]]
                     ELSE pass[k].granted
    OBVIOUS
  <2>3. pass[k] \in PassTypes /\ pass[k].granted \in Nat /\ pass[k].limited \in BOOLEAN
    BY DEF PassTypes
  <2>4. h \in Nat
    BY <1>1, <2>2, <2>3
  <2> DEFINE v == [pass[k] EXCEPT !.alone = FALSE, !.limited = l, !.granted = h]
  <2>5. pass'[k] = v
    BY <1>0, <1>11, <2>1, <2>2 DEF Joined
  <2>6. v \in PassTypes /\ GoesOn(pass[k], v) /\ v.granted = h
    BY <2>3, <2>4 DEF PassTypes, GoesOn, SameCall, SameTool
  <2>7. ~v.alone /\ v.limited = l
    BY <2>3 DEF PassTypes
  <2> HIDE DEF v
  <2>8. JobOf[k] # JobOf[p] => l = pass[k].limited
    BY <2>1, <2>3
  <2>9. JobOf[k] = JobOf[p] => l = (pass[k].limited /\ capable)
    BY <2>1, <2>3
  <2> QED
    BY <2>2, <2>5, <2>6, <2>7, <2>8, <2>9
<1>12. ASSUME NEW k \in Passes, k # p, ~Running(k) PROVE pass'[k] = pass[k]
  BY <1>0, <1>12
<1>13. \A k \in Passes : ~Running(k) => GoesOn(pass[k], pass[k])
  BY DEF GoesOn, SameCall, SameTool
<1>14. pass' \in [Passes -> PassTypes]
  <2>1. \A k \in Passes : pass'[k] \in PassTypes
    BY <1>7, <1>10, <1>11, <1>12
  <2>2. pass' = [k \in Passes |-> pass'[k]]
    BY <1>0
  <2> QED
    BY <2>1, <2>2
<1>15. pass[p].at = "idle"
  BY DEF BeginJob, At
<1>16. \A k \in Passes : k # p =>
              /\ GoesOn(pass[k], pass'[k])
              /\ Running(k) => ~pass'[k].alone
              /\ ~Running(k) => pass'[k] = pass[k]
  BY <1>11, <1>12, <1>13
<1>17. /\ pass'[p].limited = capable
       /\ pass'[p].granted = MaxLLMCalls[JobOf[p]] + Transcriptions(p)
  BY <1>2, <1>8, <1>9, <1>10
<1>18. pass'[p].alone => \A k \in Passes : k # p => ~Running(k)
  BY <1>6, <1>9, <1>10
<1>19. Begins(pass'[p])
  BY <1>8, <1>10
<1>20. \A k \in Passes : k # p /\ Running(k) =>
                   /\ JobOf[k] # JobOf[p] => /\ pass'[k].limited = pass[k].limited
                                             /\ pass'[k].granted = pass[k].granted
                   /\ JobOf[k] = JobOf[p] => /\ pass'[k].limited = (pass[k].limited /\ capable)
                                             /\ pass'[k].granted = pass[k].granted + MaxLLMCalls[JobOf[p]]
  BY <1>11
<1> HIDE DEF Begins, GoesOn
<1> QED
  BY <1>0, <1>14, <1>15, <1>16, <1>17, <1>18, <1>19, <1>20

\* Every pass that ran is interrupted.
LEMMA CrashDoes ==
  ASSUME pass \in [Passes -> PassTypes], Crash
  PROVE  /\ pass' \in [Passes -> PassTypes]
         /\ \A k \in Passes : pass'[k] = IF Running(k) THEN Ended("interrupted") ELSE pass[k]
BY EndedTypes DEF Crash, Resting

\* What a pass that is over still shows.
LEMMA EndedIs ==
  \A s : /\ Ended(s).at = s /\ Idle(Ended(s)) /\ Ended(s).made = 0
         /\ Ended(s).call = NoCall /\ Ended(s).outputs = NoOutput
         /\ Ended(s).recent = <<>> /\ Ended(s).stuck = {}
BY DEF Ended, NoPass, Idle

-----------------------------------------------------------------------------

\* A fault is one of those allowed.
LEMMA FaultTypes ==
  ASSUME RestTypes, Fault
  PROVE  allowance' \in Supplies
<1>1. allowance \in Supplies
  BY DEF RestTypes
<1>2. allowance.faults > 0 /\ allowance' = [allowance EXCEPT !.faults = allowance.faults - 1]
  BY DEF Fault
<1>3. PICK n : n = allowance.faults - 1
  OBVIOUS
<1>4. n \in Nat
  BY <1>1, <1>2, <1>3 DEF Supplies
<1>5. allowance' = [allowance EXCEPT !.faults = n]
  BY <1>2, <1>3
<1> QED
  BY <1>1, <1>4, <1>5 DEF Supplies

\* The stage of a call is a stage.
LEMMA StageOf == \A c : checkpointKey(c) \in Stages
BY DEF checkpointKey, Stages

\* The root that is found is an item of the tree.
LEMMA RootFound ==
  ASSUME tree \in Seq(TreeItems)
  PROVE  /\ resolveRootNodeID \in Nat
         /\ Roots = {} => resolveRootNodeID = 0
         /\ Roots # {} => resolveRootNodeID \in Roots
         /\ 0 \notin Roots
<1>1. Roots \in SUBSET Nat /\ 0 \notin Roots
  BY DEF Roots
<1>2. CASE Roots = {}
  BY <1>1, <1>2 DEF resolveRootNodeID
<1>3. CASE Roots # {}
  <2>1. \E n \in Roots : \A m \in Roots : n =< m
    BY <1>1, <1>3, LeastNatural
  <2>2. resolveRootNodeID = CHOOSE n \in Roots : \A m \in Roots : n =< m
    BY <1>3 DEF resolveRootNodeID
  <2>3. resolveRootNodeID \in Roots
    BY <2>1, <2>2
  <2> QED
    BY <1>1, <1>3, <2>3
<1> QED
  BY <1>2, <1>3

\* The item at hand, and where it goes.
LEMMA NextItemTypes ==
  ASSUME pass \in [Passes -> PassTypes], NEW p \in Passes, pass[p].left # <<>>
  PROVE  /\ NextItem(p) \in GeneratedItem
         /\ NextItem(p).id \in LocalIds /\ NextItem(p).under \in LocalIds \cup {NoItem}
         /\ NextItem(p).into \in Nat
         /\ NextItem(p) = pass[p].left[1] /\ 1 \in DOMAIN pass[p].left
         /\ pass[p].call \in AllCalls
         /\ ParentFor(p) \in Nat /\ TreeItem(p) \in TreeItems
<1>1. /\ pass[p].left \in Seq(GeneratedItem)
      /\ pass[p].itemIDs \in [LocalIds -> Nat] /\ pass[p].rootNodeID \in Nat
      /\ pass[p].call \in AllCalls
  BY DEF PassTypes
<1>2. PICK i : i = NextItem(p)
  OBVIOUS
<1>3. i \in GeneratedItem /\ i = pass[p].left[1] /\ 1 \in DOMAIN pass[p].left
  BY <1>1, <1>2 DEF NextItem
<1>4. i.id \in LocalIds /\ i.under \in LocalIds \cup {NoItem} /\ i.into \in Nat
  BY <1>3 DEF GeneratedItem
<1>5. ParentFor(p) \in Nat
  BY <1>1, <1>2, <1>4 DEF ParentFor
<1>6. CreatedParent(pass[p].call.batch, i) \in LocalIds \cup {NoItem}
  BY <1>4 DEF CreatedParent
<1>7. TreeItem(p) \in TreeItems
  BY <1>2, <1>4, <1>5, <1>6, JobIs DEF TreeItem, TreeItems
<1> QED
  BY <1>1, <1>2, <1>3, <1>4, <1>5, <1>7

\* The steps of the rest of the state.
LEMMA CountTypes ==
  ASSUME RestTypes, NEW j \in Jobs
  PROVE  /\ OneMoreLLMCall(j) \in UsageCounters
         /\ FreshCounters \in UsageCounters
<1>1. counters[j] \in UsageCounters /\ counters[j].llmCalls + 1 \in Nat
  <2>1. counters[j] \in UsageCounters
    BY DEF RestTypes
  <2> QED
    BY <2>1 DEF UsageCounters
<1>2. PICK n : n = ModelCalls(j, counters[j].llmCalls + 1)
  OBVIOUS
<1>3. n \in Nat
  BY <1>1, <1>2, ModelCallsType
<1>4. OneMoreLLMCall(j) = [counters[j] EXCEPT !.llmCalls = n]
  BY <1>2 DEF OneMoreLLMCall
<1>5. OneMoreLLMCall(j) \in UsageCounters
  BY <1>1, <1>3, <1>4 DEF UsageCounters
<1> QED
  BY <1>5 DEF FreshCounters, UsageCounters

\* A call is counted.
LEMMA CallTypesStep ==
  ASSUME RestTypes, NEW p \in Passes, CountLLMCall(p)
  PROVE  counters' \in [Jobs -> UsageCounters]
<1>1. counters' = [counters EXCEPT ![JobOf[p]] = OneMoreLLMCall(JobOf[p])]
  BY DEF CountLLMCall
<1>2. counters \in [Jobs -> UsageCounters]
  BY DEF RestTypes
<1> QED
  BY <1>1, <1>2, JobIs, CountTypes

\* The mutation log counts.
LEMMA LoggedTypes ==
  ASSUME RestTypes, NEW j \in Jobs, NEW n \in Nat, Logged(j, n)
  PROVE  mutations' \in [Jobs -> Nat]
<1>1. MaxItemCreations \in Nat
  BY LimitsAssumption
<1>2. mutations \in [Jobs -> Nat] /\ mutations[j] + n \in Nat
  <2>1. mutations \in [Jobs -> Nat]
    BY DEF RestTypes
  <2> QED
    BY <2>1
<1>3. UpTo(MaxItemCreations, mutations[j] + n) \in Nat
  BY <1>1, <1>2 DEF UpTo
<1> QED
  BY <1>2, <1>3 DEF Logged

\* The items of a list and a number of them are counted.
LEMMA BatchLen ==
  ASSUME pass \in [Passes -> PassTypes], NEW p \in Passes
  PROVE  pass[p].call.batch \in Seq(GeneratedItem) /\ pass[p].call.batch \in Lists
         /\ Len(pass[p].call.batch) \in Nat
<1>1. pass[p].call.batch \in Seq(GeneratedItem) /\ pass[p].call.batch \in Lists
  BY CallTypes DEF PassTypes
<1> QED
  BY <1>1

\* The items of a list are counted.
LEMMA ReserveTypes ==
  ASSUME pass \in [Passes -> PassTypes], RestTypes, NEW p \in Passes, Reserve(p)
  PROVE  counters' \in [Jobs -> UsageCounters]
<1>1. PICK j \in Jobs : j = JobOf[p]
  BY JobIs
<1>2. Len(pass[p].call.batch) \in Nat
  BY BatchLen
<1>3. MaxItemCreations \in Nat
  BY LimitsAssumption
<1>4. counters[j] \in UsageCounters /\ counters[j].itemCreations \in Nat
  <2>1. counters[j] \in UsageCounters
    BY DEF RestTypes
  <2> QED
    BY <2>1 DEF UsageCounters
<1>5. PICK n : n = UpTo(MaxItemCreations + 1, counters[j].itemCreations + Len(pass[p].call.batch))
  OBVIOUS
<1>6. n \in Nat
  BY <1>2, <1>3, <1>4, <1>5 DEF UpTo
<1>7. counters' = [counters EXCEPT ![j] = [counters[j] EXCEPT !.itemCreations = n]]
  BY <1>1, <1>5 DEF Reserve
<1>8. [counters[j] EXCEPT !.itemCreations = n] \in UsageCounters
  BY <1>4, <1>6 DEF UsageCounters
<1> QED
  BY <1>7, <1>8 DEF RestTypes

\* The passes that have counted an item, those that have inserted it, and how many.
LEMMA UnloggedCount ==
  ASSUME NEW j \in Jobs
  PROVE  /\ IsFiniteSet(Unlogged(j)) /\ Cardinality(Unlogged(j)) \in Nat
         /\ IsFiniteSet({p \in Unlogged(j) : At(p, "inserted")})
         /\ Cardinality({p \in Unlogged(j) : At(p, "inserted")}) \in Nat
<1>1. Unlogged(j) \subseteq Passes /\ {p \in Unlogged(j) : At(p, "inserted")} \subseteq Passes
  BY DEF Unlogged
<1>2. IsFiniteSet(Unlogged(j)) /\ IsFiniteSet({p \in Unlogged(j) : At(p, "inserted")})
  BY <1>1, JobIs, FS_Subset
<1> QED
  BY <1>2, FS_CardinalityType

\* A checkpoint that answers is an answer.
LEMMA ResumedOutputs ==
  ASSUME RestTypes, Named, NEW p \in Passes, pass[p].at = "before"
  PROVE  checkpoints[currentJobID][checkpointKey(pass[p].call)].outputs \in Answers
<1>1. checkpoints \in [Jobs -> [Stages -> Envelopes]]
  BY DEF RestTypes
<1>2. currentJobID \in Jobs
  <2>1. Hooked(p)
    BY DEF Hooked
  <2> QED
    BY <2>1 DEF Named
<1>3. checkpointKey(pass[p].call) \in Stages
  BY StageOf
<1> QED
  BY <1>1, <1>2, <1>3 DEF Envelopes

\* PersistRefused: an error of the job is answered.
LEMMA PersistRefusedDoes ==
  ASSUME pass \in [Passes -> PassTypes], NEW p \in Passes, PersistRefused(p)
  PROVE  /\ Only(p) /\ pass[p].at = "persist" /\ pass'[p].at = "after"
         /\ pass'[p].outputs \in Outputs /\ pass'[p].outputs.kind = "error" /\ pass'[p].outputs.from = JobOf[p]
         /\ SameRun(pass[p], pass'[p]) /\ SameCall(pass[p], pass'[p]) /\ Idle(pass'[p])
<1>1. pass[p].call.batch \in Lists
  BY BatchLen
<1>2. PICK o : o = Output("error", JobOf[p], pass[p].call.batch)
  OBVIOUS
<1>3. o \in Outputs /\ o.kind = "error" /\ o.from = JobOf[p]
  BY <1>1, <1>2, JobIs, OutputTypes
<1>4. Return(p, o) /\ pass[p].at = "persist"
  BY <1>2 DEF PersistRefused, Reserve, At
<1> QED
  BY <1>3, <1>4, ReturnDoes

\* A tool that stops at an item: an error of the job is answered.
LEMMA StopAtDoes ==
  ASSUME pass \in [Passes -> PassTypes], NEW p \in Passes, NEW stays \in BOOLEAN, StopAt(p, stays)
  PROVE  /\ Only(p) /\ pass'[p].at = "after"
         /\ pass'[p].outputs \in Outputs /\ pass'[p].outputs.kind = "error" /\ pass'[p].outputs.from = JobOf[p]
         /\ SameRun(pass[p], pass'[p]) /\ SameCall(pass[p], pass'[p]) /\ Idle(pass'[p])
<1>1. pass[p].call.batch \in Lists
  BY BatchLen
<1>2. PICK o : o = Output("error", JobOf[p], pass[p].call.batch)
  OBVIOUS
<1>3. o \in Outputs /\ o.kind = "error" /\ o.from = JobOf[p]
  BY <1>1, <1>2, JobIs, OutputTypes
<1>4. Return(p, o)
  BY <1>2 DEF StopAt
<1> QED
  BY <1>3, <1>4, ReturnDoes

\* RewriteLinks: the end of the list is answered, with the list of the call.
LEMMA RewriteLinksDoes ==
  ASSUME pass \in [Passes -> PassTypes], NEW p \in Passes, RewriteLinks(p)
  PROVE  /\ Only(p) /\ pass[p].at = "create" /\ pass[p].left = <<>> /\ pass'[p].at = "after"
         /\ pass'[p].outputs = Output("saved", JobOf[p], pass[p].call.batch)
         /\ pass'[p].outputs \in Outputs /\ pass'[p].outputs.kind = "saved" /\ pass'[p].outputs.from = JobOf[p]
         /\ pass'[p].outputs.batch = pass[p].call.batch
         /\ SameRun(pass[p], pass'[p]) /\ SameCall(pass[p], pass'[p]) /\ Idle(pass'[p])
<1>1. pass[p].call.batch \in Lists
  BY BatchLen
<1>2. PICK o : o = Output("saved", JobOf[p], pass[p].call.batch)
  OBVIOUS
<1>3. o \in Outputs /\ o.kind = "saved" /\ o.from = JobOf[p] /\ o.batch = pass[p].call.batch
  BY <1>1, <1>2, JobIs, OutputTypes
<1>4. Return(p, o) /\ pass[p].at = "create" /\ pass[p].left = <<>>
  BY <1>2 DEF RewriteLinks, At
<1> QED
  BY <1>2, <1>3, <1>4, ReturnDoes

\* As many rows are logged as items were rewritten.
LEMMA LinksLogged ==
  ASSUME pass \in [Passes -> PassTypes], NEW p \in Passes, RewriteLinks(p),
         sortedItems[pass[p].call.batch] \in Seq(GeneratedItem)
  PROVE  \E n \in Nat : Logged(JobOf[p], n)
<1> DEFINE b == sortedItems[pass[p].call.batch]
           S == {n \in DOMAIN b : b[n].links}
<1>1. b \in Seq(GeneratedItem)
  OBVIOUS
<1> HIDE DEF b
<1>2. DOMAIN b = 1..Len(b) /\ Len(b) \in Nat
  BY <1>1
<1>3. IsFiniteSet(S)
  <2>1. IsFiniteSet(1..Len(b))
    BY <1>2, FS_Interval
  <2>2. S \subseteq 1..Len(b)
    BY <1>2
  <2> QED
    BY <2>1, <2>2, FS_Subset
<1>4. Cardinality(S) \in Nat
  BY <1>3, FS_CardinalityType
<1>5. Logged(JobOf[p], Cardinality(S)) \/ \E n \in 0..Cardinality(S) - 1 : Logged(JobOf[p], n)
  BY DEF RewriteLinks, b
<1> HIDE DEF S
<1>6. 0..Cardinality(S) - 1 \subseteq Nat
  BY <1>4
<1> QED
  BY <1>4, <1>5, <1>6

-----------------------------------------------------------------------------
(* What a pass holds, by where it is.                                      *)

\* A pass whose call is under way, and one that is storing a list.
CallsNow == {"before", "brief", "persist", "create", "counted", "inserted", "after"}

StoresNow == {"create", "counted", "inserted"}

ShapeOf(p, w) ==
  /\ w.at \in CallsNow => w.call \in Calls(JobOf[p])
  /\ w.at = "brief" => w.call.tool = "generate_brief"
  /\ w.at \in StoresNow \cup {"persist"} => w.call.tool = "persist_knowledge_tree"
  /\ w.at # "after" => w.outputs = NoOutput
  /\ w.at \notin StoresNow => Idle(w)
  /\ w.at \in Resting \cup {"begun", "extract"} => w.recent = <<>> /\ w.stuck = {} /\ w.made = 0
  /\ w.at = "counted" => w.left # <<>> /\ Head(w.left).into = 0

Shaped == \A p \in Passes : ShapeOf(p, pass[p])

\* The invariants every proof below starts from.
Base == TypeOK /\ Named /\ Shaped

\* Their parts.
LEMMA BaseParts ==
  ASSUME Base
  PROVE  /\ pass \in [Passes -> PassTypes] /\ RestTypes /\ Named /\ Shaped /\ misrooted \in BOOLEAN
         /\ tree \in Seq(TreeItems) /\ Len(tree) \in Nat /\ Len(tree) + 1 \in Nat
         /\ \A p \in Passes : ShapeOf(p, pass[p])
<1>1. pass \in [Passes -> PassTypes] /\ RestTypes /\ misrooted \in BOOLEAN
  BY TypeParts DEF Base
<1>2. tree \in Seq(TreeItems)
  BY <1>1 DEF RestTypes
<1>3. Len(tree) \in Nat /\ Len(tree) + 1 \in Nat
  BY <1>2
<1> QED
  BY <1>1, <1>2, <1>3 DEF Base, Shaped

\* A checkpoint that answers is one of those.
LEMMA ResumedIs ==
  ASSUME Base, NEW p \in Passes, ResumeFromCheckpoint(p)
  PROVE  checkpoints[currentJobID][checkpointKey(pass[p].call)].outputs \in Outputs
<1>1. pass[p].at = "before"
  BY DEF ResumeFromCheckpoint, Before, At
<1> QED
  BY <1>1, BaseParts, ResumedOutputs DEF Answers

\* The list of a persist call has been sorted.
LEMMA CallSorted ==
  ASSUME Base, NEW p \in Passes, pass[p].at \in StoresNow \cup {"persist"}
  PROVE  /\ pass[p].call \in Calls(JobOf[p])
         /\ pass[p].call.tool = "persist_knowledge_tree"
         /\ pass[p].call.batch \in Batches[JobOf[p]]
         /\ pass[p].call.batch \in Seq(GeneratedItem)
         /\ sortedItems[pass[p].call.batch] \in Seq(GeneratedItem)
         /\ sortedItems[pass[p].call.batch] = sortItemsTopologically(pass[p].call.batch)
<1>1. pass[p].call \in Calls(JobOf[p]) /\ pass[p].call.tool = "persist_knowledge_tree"
  BY BaseParts DEF ShapeOf, CallsNow, StoresNow
<1>2. PICK j \in Jobs : j = JobOf[p]
  BY JobIs
<1>3. PICK b \in Batches[j] : b = pass[p].call.batch
  BY <1>1, <1>2, CallTypes
<1> QED
  BY <1>1, <1>2, <1>3, SortedIs, SortedTypes

\* StartPersist: what it does, to a pass that has its shape.
LEMMA StartDoes ==
  ASSUME Base, NEW p \in Passes, StartPersist(p)
  PROVE  /\ Only(p) /\ pass[p].at = "persist" /\ pass'[p].at = "create"
         /\ SameRun(pass[p], pass'[p]) /\ SameCall(pass[p], pass'[p])
         /\ pass'[p].outputs = pass[p].outputs /\ pass'[p].itemIDs = pass[p].itemIDs
         /\ pass'[p].left = sortedItems[pass[p].call.batch]
         /\ pass'[p].rootNodeID \in {resolveRootNodeID, 0}
         /\ \/ /\ pass'[p].rootNodeID = resolveRootNodeID
               /\ misrooted' = (misrooted \/ (pass'[p].rootNodeID = 0 /\ RootPending(p)))
               /\ UNCHANGED allowance
            \/ /\ pass'[p].rootNodeID # resolveRootNodeID
               /\ Fault
               /\ misrooted' = TRUE
<1>1. pass[p].at = "persist"
  BY DEF StartPersist, Reserve, At
<1>2. sortedItems[pass[p].call.batch] \in Seq(GeneratedItem)
  BY <1>1, CallSorted
<1>3. resolveRootNodeID \in Nat
  BY BaseParts, RootFound
<1> QED
  BY <1>2, <1>3, BaseParts, StartPersistDoes, Zenon

\* CountItems: the item at hand stays at hand.
LEMMA CountItemsDoes ==
  ASSUME Base, NEW p \in Passes, CountItems(p)
  PROVE  /\ Only(p) /\ pass[p].at = "create" /\ pass'[p].at = "counted"
         /\ pass[p].left # <<>> /\ NextItem(p).into = 0
         /\ SameRun(pass[p], pass'[p]) /\ SameCall(pass[p], pass'[p]) /\ SameTool(pass[p], pass'[p])
         /\ pass'[p].outputs = pass[p].outputs
<1>1. pass' = [pass EXCEPT ![p].at = "counted"] /\ NextItem(p).into = 0
      /\ pass[p].at = "create" /\ pass[p].left # <<>>
  BY DEF CountItems, Storing, At
<1> QED
  BY <1>1, BaseParts, MovedDoes

\* CreateItem: the item that was counted is stored.
LEMMA CreateItemDoes ==
  ASSUME Base, NEW p \in Passes, CreateItem(p)
  PROVE  /\ Only(p) /\ pass[p].at = "counted" /\ pass'[p].at = "inserted"
         /\ pass[p].left # <<>> /\ NextItem(p).into = 0
         /\ SameRun(pass[p], pass'[p]) /\ SameCall(pass[p], pass'[p])
         /\ pass'[p].outputs = pass[p].outputs
         /\ pass'[p].left = Tail(pass[p].left)
         /\ pass'[p].itemIDs = [pass[p].itemIDs EXCEPT ![NextItem(p).id] = Len(tree) + 1]
         /\ pass'[p].rootNodeID = IF ParentFor(p) = 0 THEN Len(tree) + 1 ELSE pass[p].rootNodeID
<1>1. pass[p].at = "counted" /\ Stored(p, Len(tree) + 1, "inserted")
  BY DEF CreateItem, At
<1>2. pass[p].left # <<>> /\ NextItem(p).into = 0
  BY <1>1, BaseParts DEF ShapeOf, NextItem
<1>3. PICK n \in Nat : n = Len(tree) + 1
  BY BaseParts
<1> QED
  BY <1>1, <1>2, <1>3, BaseParts, StoredDoes

\* LogItem: the pass goes on to its next item.
LEMMA LogItemDoes ==
  ASSUME Base, NEW p \in Passes, LogItem(p)
  PROVE  /\ Only(p) /\ pass[p].at = "inserted" /\ pass'[p].at = "create"
         /\ SameRun(pass[p], pass'[p]) /\ SameCall(pass[p], pass'[p]) /\ SameTool(pass[p], pass'[p])
         /\ pass'[p].outputs = pass[p].outputs
<1>1. pass' = [pass EXCEPT ![p].at = "create"] /\ pass[p].at = "inserted"
  BY DEF LogItem, At
<1> QED
  BY <1>1, BaseParts, MovedDoes

\* MergeItem: the item at hand is what it was merged into.
LEMMA MergeItemDoes ==
  ASSUME Base, NEW p \in Passes, MergeItem(p)
  PROVE  /\ Only(p) /\ pass[p].at = "create" /\ pass'[p].at = "create"
         /\ pass[p].left # <<>> /\ NextItem(p).into \in DOMAIN tree /\ NextItem(p).into # 0
         /\ SameRun(pass[p], pass'[p]) /\ SameCall(pass[p], pass'[p])
         /\ pass'[p].outputs = pass[p].outputs
         /\ pass'[p].left = Tail(pass[p].left)
         /\ pass'[p].itemIDs = [pass[p].itemIDs EXCEPT ![NextItem(p).id] = NextItem(p).into]
         /\ pass'[p].rootNodeID = pass[p].rootNodeID
<1>1. /\ pass[p].at = "create" /\ pass[p].left # <<>> /\ NextItem(p).into \in DOMAIN tree
      /\ Stored(p, NextItem(p).into, "create")
  BY DEF MergeItem, Storing, At
<1>2. PICK n \in Nat : n = NextItem(p).into
  BY <1>1, BaseParts, NextItemTypes
<1>3. n # 0
  BY <1>1, <1>2, BaseParts
<1> QED
  BY <1>1, <1>2, <1>3, BaseParts, StoredDoes

\* A tool that stops at an item: an error of the job is answered.
LEMMA StopDoes ==
  ASSUME Base, NEW p \in Passes, ItemRefused(p) \/ StoringFails(p)
  PROVE  /\ Only(p) /\ pass[p].at \in StoresNow /\ pass'[p].at = "after"
         /\ pass'[p].outputs \in Outputs /\ pass'[p].outputs.kind = "error"
         /\ pass'[p].outputs.from = JobOf[p]
         /\ SameRun(pass[p], pass'[p]) /\ SameCall(pass[p], pass'[p]) /\ Idle(pass'[p])
         /\ UNCHANGED <<instance, counters, checkpoints, tree, guardUsers, mixed, raced, crowd, misrooted>>
<1>1. PICK b \in BOOLEAN : StopAt(p, b)
  BY DEF ItemRefused, StoringFails
<1>2. pass[p].at \in StoresNow
  BY DEF ItemRefused, StoringFails, Storing, At, StoresNow
<1> QED
  BY <1>1, <1>2, BaseParts, StopAtDoes DEF StopAt

\* Every step keeps the types.
LEMMA TypeStep == Base /\ [Next]_vars => TypeOK'
<1> SUFFICES ASSUME Base, pass \in [Passes -> PassTypes], RestTypes, Named, misrooted \in BOOLEAN, [Next]_vars
             PROVE  pass' \in [Passes -> PassTypes] /\ RestTypes' /\ misrooted' \in BOOLEAN
  <2>1. (TypeOK <=> pass \in [Passes -> PassTypes] /\ RestTypes /\ misrooted \in BOOLEAN)'
    BY TypeParts, PTL
  <2> QED
    BY <2>1, TypeParts DEF Base
<1>1. ASSUME NEW p \in Passes, BeginJob(p) PROVE pass' \in [Passes -> PassTypes] /\ RestTypes' /\ misrooted' \in BOOLEAN
  <2>1. pass' \in [Passes -> PassTypes]
    BY <1>1, BeginJobDoes
  <2>2. counters' \in [Jobs -> UsageCounters]
    <3>1. PICK capable \in BOOLEAN :
            counters' = [counters EXCEPT ![JobOf[p]] = [FreshCounters EXCEPT !.capable = capable]]
      BY <1>1 DEF BeginJob
    <3>2. [FreshCounters EXCEPT !.capable = capable] \in UsageCounters
      BY DEF FreshCounters, UsageCounters
    <3>3. counters \in [Jobs -> UsageCounters]
      BY DEF RestTypes
    <3> QED
      BY <3>1, <3>2, <3>3, JobIs
  <2>3. allowance' \in Supplies
    <3>1. PICK capable \in BOOLEAN :
            /\ capable \/ allowance.unread > 0
            /\ allowance' = [allowance EXCEPT !.unread = IF capable THEN @ ELSE @ - 1]
      BY <1>1 DEF BeginJob
    <3>2. allowance \in Supplies
      BY DEF RestTypes
    <3>3. PICK m : m = IF capable THEN allowance.unread ELSE allowance.unread - 1
      OBVIOUS
    <3>4. m \in Nat
      BY <3>1, <3>2, <3>3 DEF Supplies
    <3>5. allowance' = [allowance EXCEPT !.unread = m]
      BY <3>1, <3>3
    <3> QED
      BY <3>2, <3>4, <3>5 DEF Supplies
  <2>4. job' \in Jobs \cup {NoJob} /\ UNCHANGED <<currentJobID, repeatGuard, memory, checkpoints,
                                                   tree, mutations, guardUsers, mixed, raced, unsealed, unlogged, crowd, misrooted>>
    BY <1>1, JobIs DEF BeginJob, history
  <2> QED
    BY <2>1, <2>2, <2>3, <2>4 DEF RestTypes
<1>2. ASSUME NEW p \in Passes, ProcessDocument(p) PROVE pass' \in [Passes -> PassTypes] /\ RestTypes' /\ misrooted' \in BOOLEAN
  <2>1. pass' \in [Passes -> PassTypes]
    BY <1>2, ProcessDocumentDoes DEF Only
  <2>2. currentJobID' \in Jobs \cup {NoJob} /\ repeatGuard' \in Guards /\ guardUsers' \in SUBSET Passes
    BY <1>2, GuardTypes, JobIs DEF ProcessDocument
  <2>3. UNCHANGED <<job, memory, counters, checkpoints, tree, mutations, allowance, mixed, raced,
                    unsealed, unlogged, crowd, misrooted>>
    BY <1>2 DEF ProcessDocument
  <2> QED
    BY <2>1, <2>2, <2>3 DEF RestTypes
<1>16. ASSUME NEW p \in Passes, prepareDocumentMap(p) PROVE pass' \in [Passes -> PassTypes] /\ RestTypes' /\ misrooted' \in BOOLEAN
  <2>1. pass' \in [Passes -> PassTypes]
    BY <1>16, PrepareDoes DEF Only
  <2>2. memory' \in [map : Jobs \cup {NoJob}, brief : Jobs \cup {NoJob}]
    <3>1. memory \in [map : Jobs \cup {NoJob}, brief : Jobs \cup {NoJob}]
      BY DEF RestTypes
    <3>2. memory' = memory \/ memory' = [memory EXCEPT !.map = JobOf[p]]
      BY <1>16, PrepareDoes DEF DocumentMapOf
    <3> QED
      BY <3>1, <3>2, JobIs
  <2>3. allowance' \in Supplies
    <3>1. UNCHANGED allowance \/ Fault
      BY <1>16 DEF prepareDocumentMap
    <3> QED
      BY <3>1, FaultTypes DEF RestTypes
  <2>4. UNCHANGED <<job, currentJobID, repeatGuard, counters, checkpoints, tree, mutations, guardUsers, mixed, raced, unsealed, unlogged, crowd, misrooted>>
    BY <1>16 DEF prepareDocumentMap, history
  <2> QED
    BY <2>1, <2>2, <2>3, <2>4 DEF RestTypes
<1>3. ASSUME NEW p \in Passes, CallTool(p) PROVE pass' \in [Passes -> PassTypes] /\ RestTypes' /\ misrooted' \in BOOLEAN
  <2>1. pass' \in [Passes -> PassTypes]
    BY <1>3, CallToolDoes DEF Only
  <2>2. counters' \in [Jobs -> UsageCounters]
    BY <1>3, CallTypesStep DEF CallTool
  <2>3. UNCHANGED <<job, currentJobID, repeatGuard, memory, checkpoints, allowance,
                    tree, mutations, guardUsers, mixed, raced, unsealed, unlogged, crowd, misrooted>>
    BY <1>3 DEF CallTool, instance, history
  <2> QED
    BY <2>1, <2>2, <2>3 DEF RestTypes
<1>4. ASSUME NEW p \in Passes, NEW s \in Resting, Ends(p, s), UNCHANGED allowance \/ Fault,
             counters' \in [Jobs -> UsageCounters], unsealed' \in SUBSET Jobs, unlogged' \in [Jobs -> Nat],
             UNCHANGED <<instance, checkpoints, tree, mutations, guardUsers, mixed, raced, crowd, misrooted>>
      PROVE pass' \in [Passes -> PassTypes] /\ RestTypes' /\ misrooted' \in BOOLEAN
  <2>1. pass' \in [Passes -> PassTypes]
    BY <1>4, EndsDoes DEF Only
  <2>2. allowance' \in Supplies
    BY <1>4, FaultTypes DEF RestTypes
  <2>3. UNCHANGED <<job, currentJobID, repeatGuard, memory, checkpoints, tree, mutations,
                    guardUsers, mixed, raced, crowd, misrooted>>
    BY <1>4 DEF instance
  <2> QED
    BY <1>4, <2>1, <2>2, <2>3 DEF RestTypes
<1>5. ASSUME NEW p \in Passes, FinalResponse(p) \/ AgentRunFails(p) \/ BudgetAbort(p)
      PROVE pass' \in [Passes -> PassTypes] /\ RestTypes' /\ misrooted' \in BOOLEAN
  <2>1. unsealed \in SUBSET Jobs /\ unlogged \in [Jobs -> Nat] /\ JobOf[p] \in Jobs
    BY JobIs DEF RestTypes
  <2>2. CASE FinalResponse(p)
    <3>1. CountLLMCall(p) /\ Ends(p, "done") /\ UNCHANGED allowance
      BY <2>2 DEF FinalResponse
    <3>2. UNCHANGED <<instance, checkpoints, tree, mutations, guardUsers, mixed, raced, crowd, misrooted>>
          /\ unsealed' = unsealed /\ unlogged' = unlogged
      BY <2>2 DEF FinalResponse, history
    <3> QED
      BY <1>4, <2>1, <3>1, <3>2, CallTypesStep DEF Resting
  <2>3. CASE AgentRunFails(p)
    <3>1. CountLLMCall(p) /\ Ends(p, "failed") /\ (UNCHANGED allowance \/ Fault)
      BY <2>3 DEF AgentRunFails
    <3>2. UNCHANGED <<instance, checkpoints, tree, mutations, guardUsers, mixed, raced, crowd, misrooted>>
          /\ unsealed' = unsealed /\ unlogged' = unlogged
      BY <2>3 DEF AgentRunFails, history
    <3> QED
      BY <1>4, <2>1, <3>1, <3>2, CallTypesStep DEF Resting
  <2>4. CASE BudgetAbort(p)
    <3>1. Ends(p, "interrupted") /\ UNCHANGED allowance
          /\ UNCHANGED <<instance, checkpoints, tree, mutations, guardUsers, mixed, raced, crowd, misrooted>>
      BY <2>4 DEF BudgetAbort
    <3>2. unsealed' \in SUBSET Jobs
      BY <2>1, <2>4 DEF BudgetAbort
    <3>3. unlogged' \in [Jobs -> Nat]
      <4>1. unlogged' = unlogged \/ unlogged' = [unlogged EXCEPT ![JobOf[p]] = @ + 1]
        BY <2>4 DEF BudgetAbort
      <4> QED
        BY <2>1, <4>1
    <3>4. AbortCounters(p) \in UsageCounters
      <4>1. OneMoreLLMCall(JobOf[p]) \in UsageCounters
        BY <2>1, CountTypes
      <4>2. PICK c \in UsageCounters : c = OneMoreLLMCall(JobOf[p])
        BY <4>1
      <4>3. PICK m : m = IF At(p, "persist")
                         THEN UpTo(MaxItemCreations + 1, c.itemCreations + Len(pass[p].call.batch))
                         ELSE c.itemCreations
        OBVIOUS
      <4>4. c.itemCreations \in Nat /\ Len(pass[p].call.batch) \in Nat /\ MaxItemCreations \in Nat
        BY BatchLen, LimitsAssumption DEF UsageCounters
      <4>5. m \in Nat
        BY <4>3, <4>4 DEF UpTo
      <4>6. AbortCounters(p) = [c EXCEPT !.itemCreations = m]
        BY <4>2, <4>3 DEF AbortCounters
      <4> QED
        BY <4>5, <4>6 DEF UsageCounters
    <3>5. counters' \in [Jobs -> UsageCounters]
      <4>1. counters' = [counters EXCEPT ![JobOf[p]] = AbortCounters(p)] /\ counters \in [Jobs -> UsageCounters]
        BY <2>4 DEF BudgetAbort, RestTypes
      <4> QED
        BY <2>1, <3>4, <4>1
    <3> QED
      BY <1>4, <3>1, <3>2, <3>3, <3>5 DEF Resting
  <2> QED
    BY <1>5, <2>2, <2>3, <2>4
<1>6. ASSUME NEW p \in Passes, Before(p), pass' \in [Passes -> PassTypes],
             UNCHANGED <<allowance, unsealed>> \/ (Fault /\ unsealed' = unsealed \cup {JobOf[p]})
             \/ (UNCHANGED allowance /\ unsealed' = unsealed)
      PROVE pass' \in [Passes -> PassTypes] /\ RestTypes' /\ misrooted' \in BOOLEAN
  <2>1. repeatGuard' \in Guards
    <3>1. pass[p].call \in AllCalls
      BY DEF PassTypes
    <3>2. callKey(JobOf[p], pass[p].call) \in Keys /\ repeatGuard \in Guards
      BY <3>1, GuardTypes, JobIs DEF RestTypes
    <3>3. repeatGuard' = observe(repeatGuard, callKey(JobOf[p], pass[p].call))
      BY <1>6 DEF Before
    <3> QED
      BY <3>2, <3>3, GuardTypes
  <2>2. mixed' \in SUBSET Jobs
    <3>1. mixed \in SUBSET Jobs /\ Confuses(p) \in SUBSET Jobs
      BY JobIs DEF RestTypes, Confuses
    <3> QED
      BY <1>6, <3>1 DEF Before
  <2>6. raced' \in SUBSET Jobs
    <3>1. raced \in SUBSET Jobs /\ Races(p) \in SUBSET Jobs
      BY JobIs DEF RestTypes, Races
    <3> QED
      BY <1>6, <3>1 DEF Before
  <2>7. guardUsers' \in SUBSET Passes
    BY <1>6 DEF Before, RestTypes
  <2>3. allowance' \in Supplies
    BY <1>6, FaultTypes DEF RestTypes
  <2>4. unsealed' \in SUBSET Jobs
    <3>1. unsealed \in SUBSET Jobs
      BY DEF RestTypes
    <3> QED
      BY <1>6, <3>1, JobIs
  <2>5. UNCHANGED <<job, currentJobID, memory, counters, checkpoints, tree, mutations,
                    unlogged, crowd, misrooted>>
    BY <1>6 DEF Before
  <2> QED
    BY <1>6, <2>1, <2>2, <2>3, <2>4, <2>5, <2>6, <2>7 DEF RestTypes
<1>7. ASSUME NEW p \in Passes, Nudge(p) \/ ResumeFromCheckpoint(p) \/ EnterTool(p)
      PROVE pass' \in [Passes -> PassTypes] /\ RestTypes' /\ misrooted' \in BOOLEAN
  <2>1. CASE Nudge(p)
    <3>1. Before(p) /\ UNCHANGED <<allowance, unsealed>>
      BY <2>1 DEF Nudge
    <3>2. pass' \in [Passes -> PassTypes]
      BY <2>1, NudgeDoes DEF Only
    <3> QED
      BY <1>6, <3>1, <3>2
  <2>2. CASE ResumeFromCheckpoint(p)
    <3>1. Before(p) /\ UNCHANGED <<allowance, unsealed>>
      BY <2>2 DEF ResumeFromCheckpoint
    <3>2. checkpoints[currentJobID][checkpointKey(pass[p].call)].outputs \in Outputs
      BY <2>2, ResumedIs
    <3>3. pass' \in [Passes -> PassTypes]
      BY <2>2, <3>2, ResumeDoes DEF Only
    <3> QED
      BY <1>6, <3>1, <3>3
  <2>3. CASE EnterTool(p)
    <3>1. Before(p) /\ (UNCHANGED <<allowance, unsealed>> \/ (Fault /\ unsealed' = unsealed \cup {JobOf[p]}))
      BY <2>3 DEF EnterTool
    <3>2. pass' \in [Passes -> PassTypes]
      BY <2>3, EnterToolDoes DEF Only
    <3> QED
      BY <1>6, <3>1, <3>2
  <2> QED
    BY <1>7, <2>1, <2>2, <2>3
<1>8. ASSUME NEW p \in Passes, generate_brief(p) PROVE pass' \in [Passes -> PassTypes] /\ RestTypes' /\ misrooted' \in BOOLEAN
  <2>1. pass' \in [Passes -> PassTypes]
    BY <1>8, BriefDoes DEF Only
  <2>2. counters' \in [Jobs -> UsageCounters]
    BY <1>8, CallTypesStep DEF generate_brief
  <2>3. memory' \in [map : Jobs \cup {NoJob}, brief : Jobs \cup {NoJob}]
    <3>1. memory \in [map : Jobs \cup {NoJob}, brief : Jobs \cup {NoJob}]
      BY DEF RestTypes
    <3>2. memory' = [memory EXCEPT !.brief = JobOf[p]]
      BY <1>8 DEF generate_brief
    <3> QED
      BY <3>1, <3>2, JobIs
  <2>4. UNCHANGED <<job, currentJobID, repeatGuard, checkpoints, tree, mutations, allowance,
                    guardUsers, mixed, raced, unsealed, unlogged, crowd, misrooted>>
    BY <1>8 DEF generate_brief, history
  <2> QED
    BY <2>1, <2>2, <2>3, <2>4 DEF RestTypes
<1>9. ASSUME NEW p \in Passes, PersistNothing(p) \/ PersistRefused(p) \/ StartPersist(p)
      PROVE pass' \in [Passes -> PassTypes] /\ RestTypes' /\ misrooted' \in BOOLEAN
  <2>1. CASE PersistNothing(p)
    <3>1. pass' \in [Passes -> PassTypes]
      BY <2>1, ReturnDoes, OutputTypes, JobIs DEF Only, PersistNothing
    <3>2. UNCHANGED <<job, currentJobID, repeatGuard, memory, counters, checkpoints, tree, mutations, allowance,
                      guardUsers, mixed, raced, unsealed, unlogged, crowd, misrooted>>
      BY <2>1 DEF PersistNothing, instance, history
    <3> QED
      BY <3>1, <3>2 DEF RestTypes
  <2>2. ASSUME Reserve(p), UNCHANGED allowance \/ Fault PROVE RestTypes'
    <3>1. counters' \in [Jobs -> UsageCounters]
      BY <2>2, ReserveTypes
    <3>2. allowance' \in Supplies
      BY <2>2, FaultTypes DEF RestTypes
    <3>3. UNCHANGED <<job, currentJobID, repeatGuard, memory, checkpoints, tree, mutations,
                      guardUsers, mixed, raced, unsealed, unlogged, crowd>>
      BY <2>2 DEF Reserve, instance
    <3> QED
      BY <3>1, <3>2, <3>3 DEF RestTypes
  <2>3. CASE PersistRefused(p)
    <3>1. pass' \in [Passes -> PassTypes]
      BY <2>3, PersistRefusedDoes DEF Only
    <3>2. Reserve(p) /\ (UNCHANGED allowance \/ Fault) /\ UNCHANGED misrooted
      BY <2>3 DEF PersistRefused
    <3> QED
      BY <2>2, <3>1, <3>2
  <2>4. CASE StartPersist(p)
    <3>2. Only(p) /\ (UNCHANGED allowance \/ Fault) /\ misrooted' \in BOOLEAN
      BY <2>4, StartDoes
    <3>3. Reserve(p)
      BY <2>4 DEF StartPersist
    <3> QED
      BY <2>2, <3>2, <3>3 DEF Only
  <2> QED
    BY <1>9, <2>1, <2>3, <2>4
<1>10. ASSUME NEW p \in Passes, CountItems(p) \/ CreateItem(p) \/ LogItem(p) \/ MergeItem(p)
       PROVE pass' \in [Passes -> PassTypes] /\ RestTypes' /\ misrooted' \in BOOLEAN
  <2>1. JobOf[p] \in Jobs /\ tree \in Seq(TreeItems) /\ unlogged \in [Jobs -> Nat] /\ crowd \in [Jobs -> Nat]
    BY JobIs DEF RestTypes
  <2>2. CASE CountItems(p)
    <3>1. pass' \in [Passes -> PassTypes]
      BY <2>2, CountItemsDoes DEF Only
    <3>2. unlogged' \in [Jobs -> Nat]
      <4>1. unlogged' = unlogged \/ unlogged' = [unlogged EXCEPT ![JobOf[p]] = @ + 1]
        BY <2>2 DEF CountItems
      <4> QED
        BY <2>1, <4>1
    <3>3. crowd' \in [Jobs -> Nat]
      <4>1. PICK m \in Nat : m = Cardinality(Unlogged(JobOf[p]))
        BY <2>1, UnloggedCount
      <4>2. crowd' = [crowd EXCEPT ![JobOf[p]] = IF @ < m THEN m ELSE @]
        BY <2>2, <4>1 DEF CountItems
      <4> QED
        BY <2>1, <4>2
    <3>4. allowance' \in Supplies
      <4>1. UNCHANGED allowance \/ Fault
        BY <2>2 DEF CountItems
      <4> QED
        BY <4>1, FaultTypes DEF RestTypes
    <3>5. UNCHANGED <<job, currentJobID, repeatGuard, memory, counters, checkpoints, tree, mutations,
                      guardUsers, mixed, raced, unsealed, misrooted>>
      BY <2>2 DEF CountItems, instance
    <3> QED
      BY <3>1, <3>2, <3>3, <3>4, <3>5 DEF RestTypes
  <2>3. CASE CreateItem(p)
    <3>1. pass' \in [Passes -> PassTypes] /\ pass[p].left # <<>>
      BY <2>3, CreateItemDoes DEF Only
    <3>2. tree' \in Seq(TreeItems)
      <4>1. tree' = Append(tree, TreeItem(p))
        BY <2>3 DEF CreateItem
      <4>2. TreeItem(p) \in TreeItems
        BY <3>1, NextItemTypes
      <4> QED
        BY <2>1, <4>1, <4>2
    <3>3. UNCHANGED <<job, currentJobID, repeatGuard, memory, counters, checkpoints, mutations, allowance,
                      guardUsers, mixed, raced, unsealed, unlogged, crowd, misrooted>>
      BY <2>3 DEF CreateItem, instance, history
    <3> QED
      BY <3>1, <3>2, <3>3 DEF RestTypes
  <2>4. ASSUME LogItem(p) \/ MergeItem(p), pass' \in [Passes -> PassTypes] PROVE RestTypes' /\ misrooted' \in BOOLEAN
    <3>1. mutations' \in [Jobs -> Nat]
      BY <2>1, <2>4, LoggedTypes DEF LogItem, MergeItem
    <3>2. UNCHANGED <<job, currentJobID, repeatGuard, memory, counters, checkpoints, tree, allowance,
                      guardUsers, mixed, raced, unsealed, unlogged, crowd, misrooted>>
      BY <2>4 DEF LogItem, MergeItem, instance, history
    <3> QED
      BY <3>1, <3>2 DEF RestTypes
  <2>5. CASE LogItem(p)
    BY <2>4, <2>5, LogItemDoes DEF Only
  <2>6. CASE MergeItem(p)
    BY <2>4, <2>6, MergeItemDoes DEF Only
  <2> QED
    BY <1>10, <2>2, <2>3, <2>5, <2>6
<1>11. ASSUME NEW p \in Passes, ItemRefused(p) \/ StoringFails(p)
       PROVE pass' \in [Passes -> PassTypes] /\ RestTypes' /\ misrooted' \in BOOLEAN
  <2>1. /\ JobOf[p] \in Jobs /\ unlogged \in [Jobs -> Nat] /\ mutations \in [Jobs -> Nat]
        /\ unsealed \in SUBSET Jobs
    BY JobIs DEF RestTypes
  <2>2. /\ pass' \in [Passes -> PassTypes]
        /\ UNCHANGED <<instance, counters, checkpoints, tree, guardUsers, mixed, raced, crowd, misrooted>>
    BY <1>11, StopDoes DEF Only
  <2>3. unsealed' \in SUBSET Jobs
    <3>1. PICK b \in BOOLEAN : StopAt(p, b)
      BY <1>11 DEF ItemRefused, StoringFails
    <3> QED
      BY <2>1, <3>1 DEF StopAt
  <2>4. mutations' \in [Jobs -> Nat]
    <3>1. UNCHANGED mutations \/ Logged(JobOf[p], 1)
      BY <1>11 DEF ItemRefused, StoringFails
    <3> QED
      BY <2>1, <3>1, LoggedTypes
  <2>5. unlogged' \in [Jobs -> Nat]
    <3>1. UNCHANGED unlogged \/ unlogged' = [unlogged EXCEPT ![JobOf[p]] = @ + 1]
      BY <1>11 DEF ItemRefused, StoringFails
    <3> QED
      BY <2>1, <3>1
  <2>6. allowance' \in Supplies
    <3>1. UNCHANGED allowance \/ Fault
      BY <1>11 DEF ItemRefused, StoringFails
    <3> QED
      BY <3>1, FaultTypes DEF RestTypes
  <2>7. UNCHANGED <<job, currentJobID, repeatGuard, memory, counters, checkpoints, tree, guardUsers, mixed,
                    raced, crowd, misrooted>>
    BY <2>2 DEF instance
  <2> QED
    BY <2>2, <2>3, <2>4, <2>5, <2>6, <2>7 DEF RestTypes
<1>12. ASSUME NEW p \in Passes, RewriteLinks(p) PROVE pass' \in [Passes -> PassTypes] /\ RestTypes' /\ misrooted' \in BOOLEAN
  <2>1. pass' \in [Passes -> PassTypes]
    BY <1>12, RewriteLinksDoes DEF Only
  <2>2. mutations' \in [Jobs -> Nat]
    <3>1. PICK n \in Nat : Logged(JobOf[p], n)
      <4>1. sortedItems[pass[p].call.batch] \in Seq(GeneratedItem)
        BY <1>12, CallSorted DEF RewriteLinks, At, StoresNow
      <4> QED
        BY <1>12, <4>1, LinksLogged
    <3> QED
      BY <3>1, JobIs, LoggedTypes
  <2>3. allowance' \in Supplies
    <3>1. UNCHANGED allowance \/ Fault
      BY <1>12 DEF RewriteLinks
    <3> QED
      BY <3>1, FaultTypes DEF RestTypes
  <2>4. UNCHANGED <<job, currentJobID, repeatGuard, memory, counters, checkpoints, tree,
                    guardUsers, mixed, raced, unsealed, unlogged, crowd, misrooted>>
    BY <1>12 DEF RewriteLinks, instance, history
  <2> QED
    BY <2>1, <2>2, <2>3, <2>4 DEF RestTypes
<1>13. ASSUME NEW p \in Passes, AfterTool(p) PROVE pass' \in [Passes -> PassTypes] /\ RestTypes' /\ misrooted' \in BOOLEAN
  <2>1. pass' \in [Passes -> PassTypes]
    BY <1>13, AnsweredDoes DEF Only, AfterTool
  <2>2. mixed' \in SUBSET Jobs
    <3>1. mixed \in SUBSET Jobs /\ Confuses(p) \in SUBSET Jobs
      BY JobIs DEF RestTypes, Confuses
    <3> QED
      BY <1>13, <3>1 DEF AfterTool
  <2>3. unsealed' \in SUBSET Jobs
    <3>1. unsealed \in SUBSET Jobs
      BY DEF RestTypes
    <3> QED
      BY <1>13, <3>1, JobIs DEF AfterTool
  <2>4. allowance' \in Supplies
    <3>1. UNCHANGED allowance \/ Fault
      BY <1>13 DEF AfterTool
    <3> QED
      BY <3>1, FaultTypes DEF RestTypes
  <2>5. checkpoints' \in [Jobs -> [Stages -> Envelopes]]
    <3>1. checkpoints \in [Jobs -> [Stages -> Envelopes]] /\ job \in Jobs \cup {NoJob}
      BY DEF RestTypes
    <3>2. CASE UNCHANGED checkpoints
      BY <3>1, <3>2
    <3>3. CASE /\ Checkpointed(pass[p].outputs)
               /\ checkpoints' = [checkpoints EXCEPT ![currentJobID][checkpointKey(pass[p].call)] =
                                    Envelope(pass[p].outputs)]
      <4>1. pass[p].outputs \in Answers
        BY <3>3 DEF PassTypes, Answers, Checkpointed
      <4>2. PICK e : e = Envelope(pass[p].outputs)
        OBVIOUS
      <4>3. e \in Envelopes
        BY <3>1, <4>1, <4>2 DEF Envelope, Envelopes
      <4>4. checkpoints' = [checkpoints EXCEPT ![currentJobID][checkpointKey(pass[p].call)] = e]
        BY <3>3, <4>2
      <4> QED
        BY <3>1, <4>3, <4>4
    <3> QED
      BY <1>13, <3>2, <3>3 DEF AfterTool
  <2>6. UNCHANGED <<job, currentJobID, repeatGuard, memory, counters, tree, mutations, guardUsers, raced,
                    unlogged, crowd, misrooted>>
    BY <1>13 DEF AfterTool, instance
  <2> QED
    BY <2>1, <2>2, <2>3, <2>4, <2>5, <2>6 DEF RestTypes
<1>14. CASE Crash
  <2>1. pass' \in [Passes -> PassTypes]
    BY <1>14, CrashDoes
  <2>2. counters' \in [Jobs -> UsageCounters]
    <3>1. counters' = [j \in Jobs |-> FreshCounters]
      BY <1>14 DEF Crash
    <3> QED
      BY <3>1 DEF FreshCounters, UsageCounters
  <2>3. allowance' \in Supplies
    BY <1>14, FaultTypes DEF Crash
  <2>4. unsealed' \in SUBSET Jobs
    <3>1. unsealed \in SUBSET Jobs
      BY DEF RestTypes
    <3>2. unsealed' = unsealed \cup {JobOf[p] : p \in {q \in Passes : LeavesItems(q)}}
      BY <1>14 DEF Crash
    <3> QED
      BY <3>1, <3>2, JobIs
  <2>8. unlogged' \in [Jobs -> Nat]
    <3>1. unlogged \in [Jobs -> Nat]
      BY DEF RestTypes
    <3>2. \A j \in Jobs : unlogged[j] + Cardinality({p \in Unlogged(j) : At(p, "inserted")}) \in Nat
      BY <3>1, UnloggedCount
    <3>3. unlogged' = [j \in Jobs |->
                        unlogged[j] + Cardinality({p \in Unlogged(j) : At(p, "inserted")})]
      BY <1>14 DEF Crash
    <3> QED
      BY <3>2, <3>3
  <2>5. memory' \in [map : Jobs \cup {NoJob}, brief : Jobs \cup {NoJob}]
    BY <1>14 DEF Crash, EmptyMemory
  <2>6. job' = NoJob /\ currentJobID' = NoJob /\ repeatGuard' \in Guards /\ guardUsers' = {}
    BY <1>14, GuardTypes DEF Crash
  <2>7. UNCHANGED <<checkpoints, tree, mutations, mixed, raced, crowd, misrooted>>
    BY <1>14 DEF Crash
  <2> QED
    BY <2>1, <2>2, <2>3, <2>4, <2>5, <2>6, <2>7, <2>8 DEF RestTypes
<1>15. CASE UNCHANGED vars
  <2>1. UNCHANGED <<pass, job, currentJobID, repeatGuard, memory, counters, checkpoints, tree, mutations,
                    allowance, guardUsers, mixed, raced, unsealed, unlogged, crowd, misrooted>>
    BY <1>15 DEF vars, instance, history
  <2> QED
    BY <2>1 DEF RestTypes
<1> QED
  BY <1>1, <1>2, <1>3, <1>5, <1>7, <1>8, <1>9, <1>10, <1>11, <1>12, <1>13, <1>14, <1>15, <1>16 DEF Next, AgentStep

-----------------------------------------------------------------------------
(* The places, the names and the shape.                                    *)

\* A pass takes its own steps; it runs, and its document has been processed unless
\* that is the step.
LEMMA PlacesStep ==
  ASSUME Base, NEW p \in Passes, AgentStep(p)
  PROVE  /\ Only(p)
         /\ Running(p)
         /\ ProcessDocument(p) \/ Hooked(p)
<1>1. pass \in [Passes -> PassTypes] /\ RestTypes
  BY BaseParts
<1>2. ASSUME pass[p].at \in {"extract", "think", "before", "brief", "persist", "create", "counted",
                             "inserted", "after"}
      PROVE  Running(p) /\ Hooked(p)
  BY <1>2 DEF Running, Resting, Hooked
<1>3. CASE ProcessDocument(p)
  <2>1. Only(p) /\ pass[p].at = "begun"
    BY <1>1, <1>3, ProcessDocumentDoes
  <2> QED
    BY <1>3, <2>1 DEF Running, Resting
<1>4. CASE prepareDocumentMap(p)
  BY <1>1, <1>2, <1>4, PrepareDoes
<1>5. CASE CallTool(p)
  BY <1>1, <1>2, <1>5, CallToolDoes
<1>6. CASE FinalResponse(p) \/ AgentRunFails(p)
  <2>1. PICK s \in Resting : Ends(p, s) /\ pass[p].at = "think"
    BY <1>6 DEF FinalResponse, AgentRunFails, Resting, At
  <2> QED
    BY <1>1, <1>2, <2>1, EndsDoes
<1>7. CASE Nudge(p)
  BY <1>1, <1>2, <1>7, NudgeDoes
<1>8. CASE ResumeFromCheckpoint(p)
  BY <1>1, <1>2, <1>8, ResumeDoes, ResumedIs
<1>9. CASE EnterTool(p)
  BY <1>1, <1>2, <1>9, EnterToolDoes
<1>10. CASE generate_brief(p)
  BY <1>1, <1>2, <1>10, BriefDoes
<1>11. CASE PersistNothing(p)
  BY <1>1, <1>2, <1>11, ReturnDoes, OutputTypes, JobIs DEF PersistNothing, At
<1>12. CASE PersistRefused(p)
  BY <1>1, <1>2, <1>12, PersistRefusedDoes
<1>13. CASE StartPersist(p)
  BY <1>2, <1>13, StartDoes
<1>14. CASE CountItems(p)
  BY <1>2, <1>14, CountItemsDoes
<1>15. CASE CreateItem(p)
  BY <1>2, <1>15, CreateItemDoes
<1>16. CASE LogItem(p)
  BY <1>2, <1>16, LogItemDoes
<1>17. CASE MergeItem(p)
  BY <1>2, <1>17, MergeItemDoes
<1>18. CASE ItemRefused(p) \/ StoringFails(p)
  BY <1>2, <1>18, StopDoes DEF StoresNow
<1>19. CASE RewriteLinks(p)
  BY <1>1, <1>2, <1>19, RewriteLinksDoes
<1>20. CASE AfterTool(p)
  BY <1>1, <1>2, <1>20, AnsweredDoes DEF AfterTool, At
<1> QED
  BY <1>3, <1>4, <1>5, <1>6, <1>7, <1>8, <1>9, <1>10, <1>11, <1>12, <1>13, <1>14, <1>15, <1>16,
     <1>17, <1>18, <1>19, <1>20 DEF AgentStep

\* Only the start of a pass and a crash change the job, and only the processing of
\* a document and a crash the current job.
LEMMA NamesStep ==
  ASSUME NEW p \in Passes, AgentStep(p)
  PROVE  /\ job' = job
         /\ (ProcessDocument(p) /\ currentJobID' = JobOf[p]) \/ currentJobID' = currentJobID
<1>1. CASE ProcessDocument(p)
  BY <1>1 DEF ProcessDocument
<1>2. CASE CallTool(p) \/ FinalResponse(p) \/ AgentRunFails(p)
  BY <1>2 DEF CallTool, FinalResponse, AgentRunFails, instance
<1>3. CASE Nudge(p) \/ ResumeFromCheckpoint(p) \/ EnterTool(p)
  BY <1>3 DEF Nudge, ResumeFromCheckpoint, EnterTool, Before
<1>4. CASE prepareDocumentMap(p) \/ generate_brief(p)
  BY <1>4 DEF prepareDocumentMap, generate_brief
<1>5. CASE PersistNothing(p) \/ PersistRefused(p) \/ StartPersist(p)
  BY <1>5 DEF PersistNothing, PersistRefused, StartPersist, Reserve, instance
<1>6. CASE CountItems(p) \/ CreateItem(p) \/ LogItem(p) \/ MergeItem(p)
  BY <1>6 DEF CountItems, CreateItem, LogItem, MergeItem, instance
<1>7. CASE ItemRefused(p) \/ StoringFails(p)
  BY <1>7 DEF ItemRefused, StoringFails, StopAt, instance
<1>8. CASE RewriteLinks(p)
  BY <1>8 DEF RewriteLinks, instance
<1>9. CASE AfterTool(p)
  BY <1>9 DEF AfterTool, instance
<1> QED
  BY <1>1, <1>2, <1>3, <1>4, <1>5, <1>6, <1>7, <1>8, <1>9 DEF AgentStep

\* An instance that runs a pass goes on having its job and its current job.
LEMMA NamedStep == Base /\ [Next]_vars => Named'
<1> SUFFICES ASSUME Base, Named, [Next]_vars PROVE Named'
  BY DEF Base
<1>1. pass \in [Passes -> PassTypes] /\ RestTypes
  BY BaseParts
<1>2. ASSUME NEW p \in Passes, BeginJob(p) PROVE Named'
  <2>1. job' \in Jobs /\ currentJobID' = currentJobID
    BY <1>2, JobIs DEF BeginJob
  <2>2. ASSUME NEW k \in Passes PROVE Hooked(k)' => Hooked(k)
    <3>1. pass'[k].at = pass[k].at \/ pass'[k].at = "begun"
      BY <1>1, <1>2, BeginJobDoes DEF Begins, GoesOn
    <3> QED
      BY <3>1 DEF Hooked
  <2> QED
    BY <2>1, <2>2 DEF Named
<1>3. ASSUME NEW p \in Passes, AgentStep(p) PROVE Named'
  <2>1. Only(p) /\ Running(p) /\ (ProcessDocument(p) \/ Hooked(p))
    BY <1>3, PlacesStep
  <2>2. job' = job /\ (currentJobID' = JobOf[p] \/ currentJobID' = currentJobID) /\ JobOf[p] \in Jobs
    BY <1>3, NamesStep, JobIs
  <2>3. job \in Jobs
    BY <2>1 DEF Named
  <2>4. ASSUME NEW k \in Passes, Hooked(k)' PROVE currentJobID' \in Jobs
    <3>1. CASE ProcessDocument(p)
      BY <2>2, <3>1 DEF ProcessDocument
    <3>2. CASE Hooked(p)
      BY <2>2, <3>2 DEF Named
    <3> QED
      BY <2>1, <3>1, <3>2
  <2> QED
    BY <2>2, <2>3, <2>4 DEF Named
<1>4. ASSUME NEW p \in Passes, BudgetAbort(p) PROVE Named'
  <2>1. Ends(p, "interrupted") /\ UNCHANGED <<job, currentJobID>>
    BY <1>4 DEF BudgetAbort, instance
  <2>2. Only(p) /\ pass'[p].at = "interrupted"
    BY <1>1, <2>1, EndsDoes DEF Resting
  <2>3. ASSUME NEW k \in Passes
        PROVE  (Running(k)' => Running(k)) /\ (Hooked(k)' => Hooked(k))
    <3>1. CASE k = p
      BY <2>2, <3>1 DEF Running, Resting, Hooked
    <3>2. CASE k # p
      BY <2>2, <3>2 DEF Only, Running, Hooked
    <3> QED
      BY <3>1, <3>2
  <2> QED
    BY <2>1, <2>3 DEF Named
<1>5. CASE Crash
  <2>1. ASSUME NEW k \in Passes PROVE ~Running(k)' /\ ~Hooked(k)'
    <3>1. pass'[k].at \in Resting
      BY <1>1, <1>5, CrashDoes, EndedIs DEF Running, Resting
    <3> QED
      BY <3>1 DEF Running, Resting, Hooked
  <2> QED
    BY <2>1 DEF Named
<1>6. CASE UNCHANGED vars
  BY <1>6 DEF vars, instance, Named, Running, Hooked
<1> QED
  BY <1>2, <1>3, <1>4, <1>5, <1>6 DEF Next

\* At first no pass runs.
LEMMA InitNamed == Init => Named
BY DEF Init, Named, Running, Hooked, Resting, NoPass

\* A pass that is over holds nothing.
LEMMA EndedShape == \A p \in Passes : \A s \in Resting : ShapeOf(p, Ended(s))
BY EndedIs DEF ShapeOf, Resting, CallsNow, StoresNow

\* What two lists of fields that are the same leave of the shape.
LEMMA SameIdle ==
  ASSUME NEW w, NEW q, SameTool(w, q), Idle(w)
  PROVE  Idle(q)
BY DEF SameTool, Idle

\* A pass at a tool, or just past one, has the shape it should when it still has its
\* call, an answer where it belongs and, storing no list, nothing in hand.
LEMMA CallShape ==
  ASSUME NEW p \in Passes, NEW w, NEW v, ShapeOf(p, w), SameCall(w, v), w.at \in CallsNow,
         v.at \in {"brief", "persist", "create", "inserted", "after"},
         v.at = "brief" => w.call.tool = "generate_brief",
         v.at \in {"persist", "create", "inserted"} => w.call.tool = "persist_knowledge_tree",
         v.at # "after" => v.outputs = NoOutput,
         v.at \notin StoresNow => Idle(v)
  PROVE  ShapeOf(p, v)
<1>1. v.call = w.call /\ w.call \in Calls(JobOf[p])
  BY DEF ShapeOf, SameCall
<1> QED
  BY <1>1 DEF ShapeOf, CallsNow, StoresNow, Resting

\* A pass goes on holding what its place says.
LEMMA ShapedStep ==
  ASSUME Base, [Next]_vars
  PROVE  Shaped'
<1>1. pass \in [Passes -> PassTypes] /\ RestTypes
  BY BaseParts
<1>3. ASSUME NEW p \in Passes, AgentStep(p) PROVE Shaped'
  <2>1. Only(p)
    BY <1>3, PlacesStep
  <2>2. ShapeOf(p, pass[p])
    BY BaseParts
  <2> SUFFICES ShapeOf(p, pass'[p])
    BY <2>1, BaseParts DEF Shaped, Only
  <2>3. CASE ProcessDocument(p)
    <3>1. /\ pass[p].at = "begun" /\ pass'[p].at = "extract" /\ SameCall(pass[p], pass'[p])
          /\ SameTool(pass[p], pass'[p]) /\ pass'[p].outputs = pass[p].outputs
          /\ pass'[p].made = pass[p].made
      BY <1>1, <2>3, ProcessDocumentDoes DEF SameRun
    <3>2. Idle(pass'[p])
      BY <2>2, <3>1, SameIdle DEF ShapeOf, StoresNow
    <3> QED
      BY <2>2, <3>1, <3>2 DEF ShapeOf, Resting, SameCall, CallsNow, StoresNow
  <2>17. CASE prepareDocumentMap(p)
    <3>1. /\ pass[p].at = "extract" /\ pass'[p].at = "think"
          /\ SameTool(pass[p], pass'[p]) /\ pass'[p].outputs = pass[p].outputs
      BY <1>1, <2>17, PrepareDoes
    <3>2. Idle(pass'[p])
      BY <2>2, <3>1, SameIdle DEF ShapeOf, StoresNow
    <3> QED
      BY <2>2, <3>1, <3>2 DEF ShapeOf, Resting, CallsNow, StoresNow
  <2>4. CASE CallTool(p)
    <3>1. /\ pass[p].at = "think" /\ pass'[p].at = "before" /\ pass'[p].call \in Calls(JobOf[p])
          /\ SameTool(pass[p], pass'[p]) /\ pass'[p].outputs = pass[p].outputs
      BY <1>1, <2>4, CallToolDoes
    <3>2. Idle(pass'[p])
      BY <2>2, <3>1, SameIdle DEF ShapeOf, StoresNow
    <3> QED
      BY <2>2, <3>1, <3>2 DEF ShapeOf, Resting, CallsNow, StoresNow
  <2>5. CASE FinalResponse(p) \/ AgentRunFails(p)
    <3>1. PICK s \in Resting : Ends(p, s)
      BY <2>5 DEF FinalResponse, AgentRunFails, Resting
    <3> QED
      BY <1>1, <3>1, EndsDoes, EndedShape
  <2>6. CASE Nudge(p)
    <3>1. /\ pass[p].at = "before" /\ pass'[p].at = "after" /\ SameCall(pass[p], pass'[p])
          /\ SameTool(pass[p], pass'[p])
      BY <1>1, <2>6, NudgeDoes
    <3>2. Idle(pass'[p])
      BY <2>2, <3>1, SameIdle DEF ShapeOf, StoresNow
    <3> QED
      BY <2>2, <3>1, <3>2, CallShape DEF CallsNow
  <2>7. CASE ResumeFromCheckpoint(p)
    <3>1. /\ pass[p].at = "before" /\ pass'[p].at = "after" /\ SameCall(pass[p], pass'[p])
          /\ SameTool(pass[p], pass'[p])
      BY <1>1, <2>7, ResumeDoes, ResumedIs
    <3>2. Idle(pass'[p])
      BY <2>2, <3>1, SameIdle DEF ShapeOf, StoresNow
    <3> QED
      BY <2>2, <3>1, <3>2, CallShape DEF CallsNow
  <2>8. CASE EnterTool(p)
    <3>1. /\ pass[p].at = "before" /\ SameCall(pass[p], pass'[p]) /\ SameTool(pass[p], pass'[p])
          /\ pass'[p].outputs = pass[p].outputs
          /\ pass'[p].at = IF pass[p].call.tool = "generate_brief" THEN "brief" ELSE "persist"
      BY <1>1, <2>8, EnterToolDoes
    <3>2. pass[p].call \in Calls(JobOf[p]) /\ pass[p].outputs = NoOutput /\ Idle(pass'[p])
      BY <2>2, <3>1, SameIdle DEF ShapeOf, StoresNow, CallsNow
    <3>3. pass[p].call.tool \in {"generate_brief", "persist_knowledge_tree"}
      BY <3>2, CallsOfPass
    <3> QED
      BY <2>2, <3>1, <3>2, <3>3, CallShape DEF CallsNow
  <2>9. CASE generate_brief(p)
    <3>1. /\ pass[p].at = "brief" /\ pass'[p].at = "after" /\ SameCall(pass[p], pass'[p])
          /\ SameTool(pass[p], pass'[p])
      BY <1>1, <2>9, BriefDoes
    <3>2. Idle(pass'[p])
      BY <2>2, <3>1, SameIdle DEF ShapeOf, StoresNow
    <3> QED
      BY <2>2, <3>1, <3>2, CallShape DEF CallsNow
  <2>10. CASE PersistNothing(p)
    <3>1. Return(p, Output("empty", JobOf[p], <<>>)) /\ Output("empty", JobOf[p], <<>>) \in Outputs
          /\ pass[p].at = "persist"
      BY <2>10, OutputTypes, JobIs DEF PersistNothing, At
    <3>2. pass'[p].at = "after" /\ SameCall(pass[p], pass'[p]) /\ Idle(pass'[p])
      BY <1>1, <3>1, ReturnDoes
    <3> QED
      BY <2>2, <3>1, <3>2, CallShape DEF CallsNow
  <2>11. CASE PersistRefused(p)
    <3>1. pass[p].at = "persist" /\ pass'[p].at = "after" /\ SameCall(pass[p], pass'[p]) /\ Idle(pass'[p])
      BY <1>1, <2>11, PersistRefusedDoes
    <3> QED
      BY <2>2, <3>1, CallShape DEF CallsNow
  <2>12. CASE StartPersist(p)
    <3>1. /\ pass[p].at = "persist" /\ pass'[p].at = "create" /\ SameCall(pass[p], pass'[p])
          /\ pass'[p].outputs = pass[p].outputs
      BY <2>12, StartDoes
    <3>2. pass[p].outputs = NoOutput /\ pass[p].call.tool = "persist_knowledge_tree"
      BY <2>2, <3>1 DEF ShapeOf
    <3> QED
      BY <2>2, <3>1, <3>2, CallShape DEF CallsNow, StoresNow
  <2>13. CASE CountItems(p)
    <3>1. /\ pass[p].at = "create" /\ pass'[p].at = "counted" /\ SameCall(pass[p], pass'[p])
          /\ SameTool(pass[p], pass'[p]) /\ pass'[p].outputs = pass[p].outputs
          /\ pass[p].left # <<>> /\ Head(pass[p].left).into = 0
      BY <2>13, CountItemsDoes DEF NextItem
    <3>2. /\ pass[p].outputs = NoOutput /\ pass[p].call.tool = "persist_knowledge_tree"
          /\ pass[p].call \in Calls(JobOf[p])
      BY <2>2, <3>1 DEF ShapeOf, CallsNow, StoresNow
    <3> QED
      BY <3>1, <3>2 DEF ShapeOf, CallsNow, StoresNow, SameCall, SameTool, Resting
  <2>14. CASE CreateItem(p) \/ LogItem(p) \/ MergeItem(p)
    <3>1. /\ pass[p].at \in StoresNow /\ pass'[p].at \in {"create", "inserted"}
          /\ SameCall(pass[p], pass'[p]) /\ pass'[p].outputs = pass[p].outputs
      BY <2>14, CreateItemDoes, LogItemDoes, MergeItemDoes DEF StoresNow
    <3>2. pass[p].outputs = NoOutput /\ pass[p].call.tool = "persist_knowledge_tree"
      BY <2>2, <3>1 DEF ShapeOf, StoresNow
    <3> QED
      BY <2>2, <3>1, <3>2, CallShape DEF CallsNow, StoresNow
  <2>18. CASE ItemRefused(p) \/ StoringFails(p)
    <3>1. pass[p].at \in StoresNow /\ pass'[p].at = "after" /\ SameCall(pass[p], pass'[p]) /\ Idle(pass'[p])
      BY <2>18, StopDoes
    <3> QED
      BY <2>2, <3>1, CallShape DEF CallsNow, StoresNow
  <2>15. CASE RewriteLinks(p)
    <3>1. pass[p].at = "create" /\ pass'[p].at = "after" /\ SameCall(pass[p], pass'[p]) /\ Idle(pass'[p])
      BY <1>1, <2>15, RewriteLinksDoes
    <3> QED
      BY <2>2, <3>1, CallShape DEF CallsNow, StoresNow
  <2>16. CASE AfterTool(p)
    <3>1. Answered(p) /\ pass[p].at = "after"
      BY <2>16 DEF AfterTool, At
    <3>2. pass'[p].at = "think" /\ pass'[p].outputs = NoOutput /\ SameTool(pass[p], pass'[p])
      BY <1>1, <3>1, AnsweredDoes
    <3>3. Idle(pass'[p])
      BY <2>2, <3>1, <3>2, SameIdle DEF ShapeOf, StoresNow
    <3> QED
      BY <3>2, <3>3 DEF ShapeOf, Resting, CallsNow, StoresNow
  <2> QED
    BY <1>3, <2>3, <2>4, <2>5, <2>6, <2>7, <2>8, <2>9, <2>10, <2>11, <2>12, <2>13, <2>14, <2>15,
       <2>16, <2>17, <2>18 DEF AgentStep
<1>4. ASSUME NEW p \in Passes, BeginJob(p) PROVE Shaped'
  <2>1. ShapeOf(p, pass'[p])
    <3>1. Begins(pass'[p])
      BY <1>1, <1>4, BeginJobDoes
    <3> QED
      BY <3>1 DEF ShapeOf, Begins, CallsNow, StoresNow, Resting
  <2>2. ASSUME NEW k \in Passes, k # p PROVE ShapeOf(k, pass'[k])
    <3>1. ShapeOf(k, pass[k])
      BY BaseParts
    <3>2. GoesOn(pass[k], pass'[k])
      BY <1>1, <1>4, <2>2, BeginJobDoes
    <3>3. Idle(pass[k]) => Idle(pass'[k])
      BY <3>2 DEF GoesOn, SameTool, Idle
    <3> QED
      BY <3>1, <3>2, <3>3 DEF ShapeOf, SameCall, SameTool, GoesOn
  <2> QED
    BY <2>1, <2>2 DEF Shaped
<1>5. ASSUME NEW p \in Passes, BudgetAbort(p) PROVE Shaped'
  <2>1. Ends(p, "interrupted")
    BY <1>5 DEF BudgetAbort
  <2>2. Only(p) /\ pass'[p] = Ended("interrupted") /\ "interrupted" \in Resting
    BY <1>1, <2>1, EndsDoes DEF Resting
  <2> QED
    BY <2>2, EndedShape, BaseParts DEF Shaped, Only
<1>6. CASE Crash
  BY <1>1, <1>6, CrashDoes, EndedShape, BaseParts DEF Shaped, Resting
<1>7. CASE UNCHANGED vars
  BY <1>7, BaseParts DEF vars, Shaped
<1> QED
  BY <1>3, <1>4, <1>5, <1>6, <1>7 DEF Next

\* At first no pass holds anything.
LEMMA InitShaped == Init => Shaped
<1>1. \A p \in Passes : ShapeOf(p, NoPass)
  BY DEF NoPass, ShapeOf, Resting, Idle, CallsNow, StoresNow
<1> QED
  BY <1>1 DEF Init, Shaped

\* They hold at first.
LEMMA InitBase == Init => Base
BY InitTypes, InitNamed, InitShaped DEF Base

\* Every step keeps them.
LEMMA BaseStep == Base /\ [Next]_vars => Base'
BY TypeStep, NamedStep, ShapedStep DEF Base

\* The state of an instance keeps its types: that of the passes, of what they share
\* and of what is stored. A hook reads the checkpoints of the current job, so an
\* instance whose pass has processed its document must have one; and what a tool
\* stores comes from a list that its pass may persist, sorted.
THEOREM Types == Spec => []TypeOK
<1>1. Base => TypeOK
  BY DEF Base
<1> QED
  BY <1>1, InitBase, BaseStep, PTL DEF Spec

-----------------------------------------------------------------------------
(* The limit on model calls.                                               *)

\* The counters u come with limits; the capabilities of the pass w could be read.
Capable(u) == u.capable
Limited(w) == w.limited

\* The calls of the limit that are used up.
Used(p, u) == UpTo(MaxLLMCalls[JobOf[p]], u.llmCalls)

\* The calls that p has made and those its counters u leave it are what it was granted.
Covered(p, w, u) ==
  /\ w.at \in {"begun", "extract"} => MaxLLMCalls[JobOf[p]] + Transcriptions(p) =< w.granted
  /\ w.at \notin Resting /\ Limited(w) => Capable(u)
  /\ w.at \notin Resting \cup {"begun", "extract"} /\ Limited(w) =>
       w.made + MaxLLMCalls[JobOf[p]] =< w.granted + Used(p, u)

CallsAreCounted ==
  /\ \A j \in Jobs : counters[j].llmCalls =< MaxLLMCalls[j] + 2
  /\ \A p \in Passes : Covered(p, pass[p], counters[JobOf[p]])

\* The counters v are those of u, some calls later.
Later(j, u, v) ==
  /\ v \in UsageCounters
  /\ Capable(v) <=> Capable(u)
  /\ u.llmCalls =< v.llmCalls /\ v.llmCalls =< MaxLLMCalls[j] + 2

\* The numbers all this is about.
LEMMA Limits ==
  ASSUME NEW p \in Passes
  PROVE  JobOf[p] \in Jobs /\ MaxLLMCalls[JobOf[p]] \in Nat \ {0} /\ Transcriptions(p) \in {0, 1}
BY JobIs, LimitsAssumption DEF Transcriptions

\* A pass that is as it was stays covered as its job's counters grow.
LEMMA CoveredLater ==
  ASSUME NEW p \in Passes, NEW w \in PassTypes, NEW q \in PassTypes, NEW u \in UsageCounters, NEW v,
         Later(JobOf[p], u, v), Covered(p, w, u),
         SameTerms(w, q), q.made = w.made,
         q.at \in {"begun", "extract"} => w.at \in {"begun", "extract"},
         q.at \notin Resting => w.at \notin Resting,
         q.at \notin Resting \cup {"begun", "extract"} => w.at \notin Resting \cup {"begun", "extract"}
  PROVE  Covered(p, q, v)
<1>1. MaxLLMCalls[JobOf[p]] \in Nat
  BY Limits
<1>2. u.llmCalls \in Nat /\ v.llmCalls \in Nat /\ u.llmCalls =< v.llmCalls
  BY DEF Later, UsageCounters
<1>3. Used(p, u) \in Nat /\ Used(p, v) \in Nat /\ Used(p, u) =< Used(p, v)
  BY <1>1, <1>2 DEF Used, UpTo
<1>4. q.granted = w.granted /\ (Limited(q) <=> Limited(w))
  BY DEF SameTerms, Limited
<1>5. w.granted \in Nat /\ w.made \in Nat
  BY DEF PassTypes
<1>6. Capable(v) <=> Capable(u)
  BY DEF Later
<1> HIDE DEF PassTypes, UsageCounters
<1>7. q.at \in {"begun", "extract"} => MaxLLMCalls[JobOf[p]] + Transcriptions(p) =< q.granted
  BY <1>4 DEF Covered
<1>8. q.at \notin Resting /\ Limited(q) => Capable(v)
  BY <1>4, <1>6 DEF Covered
<1>9. ASSUME q.at \notin Resting \cup {"begun", "extract"}, Limited(q)
      PROVE  q.made + MaxLLMCalls[JobOf[p]] =< q.granted + Used(p, v)
  <2>1. w.made + MaxLLMCalls[JobOf[p]] =< w.granted + Used(p, u)
    BY <1>4, <1>9 DEF Covered
  <2> QED
    BY <1>1, <1>3, <1>4, <1>5, <2>1
<1> QED
  BY <1>7, <1>8, <1>9 DEF Covered

\* One more call is one more in the counters.
LEMMA OneMoreCall ==
  ASSUME RestTypes, NEW j \in Jobs, counters[j].llmCalls =< MaxLLMCalls[j] + 2
  PROVE  /\ Later(j, counters[j], OneMoreLLMCall(j))
         /\ OneMoreLLMCall(j).llmCalls =< MaxLLMCalls[j] =>
              OneMoreLLMCall(j).llmCalls = counters[j].llmCalls + 1
<1>1. counters[j] \in UsageCounters
  BY DEF RestTypes
<1>2. MaxLLMCalls[j] \in Nat /\ counters[j].llmCalls \in Nat
  BY <1>1, LimitsAssumption DEF UsageCounters
<1>3. PICK n : n = ModelCalls(j, counters[j].llmCalls + 1)
  OBVIOUS
<1>4. /\ n \in Nat /\ counters[j].llmCalls =< n /\ n =< MaxLLMCalls[j] + 2
      /\ n =< MaxLLMCalls[j] => n = counters[j].llmCalls + 1
  BY <1>2, <1>3 DEF ModelCalls, UpTo
<1>5. OneMoreLLMCall(j) = [counters[j] EXCEPT !.llmCalls = n]
  BY <1>3 DEF OneMoreLLMCall
<1>6. /\ OneMoreLLMCall(j) \in UsageCounters /\ OneMoreLLMCall(j).llmCalls = n
      /\ OneMoreLLMCall(j).capable = counters[j].capable
  BY <1>1, <1>4, <1>5 DEF UsageCounters
<1> QED
  BY <1>4, <1>6 DEF Later, Capable

\* A step that counts a call counts it for the job of its pass.
LEMMA CallCounted ==
  ASSUME RestTypes, CallsAreCounted, NEW p \in Passes, CountLLMCall(p)
  PROVE  /\ counters'[JobOf[p]] = OneMoreLLMCall(JobOf[p])
         /\ \A j \in Jobs : Later(j, counters[j], counters'[j])
<1>1. counters \in [Jobs -> UsageCounters] /\ JobOf[p] \in Jobs /\ MaxLLMCalls \in [Jobs -> Nat \ {0}]
  BY Limits, LimitsAssumption DEF RestTypes
<1>2. counters' = [counters EXCEPT ![JobOf[p]] = OneMoreLLMCall(JobOf[p])]
  BY DEF CountLLMCall
<1>3. counters'[JobOf[p]] = OneMoreLLMCall(JobOf[p]) /\ \A k \in Jobs : k # JobOf[p] => counters'[k] = counters[k]
  BY <1>1, <1>2
<1>4. ASSUME NEW j \in Jobs PROVE Later(j, counters[j], counters'[j])
  <2>1. counters[j].llmCalls =< MaxLLMCalls[j] + 2 /\ counters[j].llmCalls \in Nat /\ counters[j] \in UsageCounters
    BY <1>1 DEF CallsAreCounted, UsageCounters
  <2>2. CASE j = JobOf[p]
    BY <1>3, <2>1, <2>2, OneMoreCall
  <2>3. CASE j # JobOf[p]
    BY <1>3, <2>1, <2>3 DEF Later
  <2> QED
    BY <2>2, <2>3
<1> QED
  BY <1>3, <1>4

\* A call that may be made leaves the pass covered: it is counted, within the limit.
LEMMA OneMoreCovered ==
  ASSUME Base, CallsAreCounted, NEW p \in Passes, NEW q \in PassTypes,
         CountLLMCall(p), ~LimitExceeded(JobOf[p], counters'[JobOf[p]]),
         pass[p].at \notin Resting \cup {"begun", "extract"},
         q.at \notin Resting \cup {"begun", "extract"},
         SameTerms(pass[p], q), q.made = OneMoreMade(p)
  PROVE  Covered(p, q, counters'[JobOf[p]])
<1>1. pass \in [Passes -> PassTypes] /\ RestTypes
  BY BaseParts
<1>2. PICK v : v = counters'[JobOf[p]]
  OBVIOUS
<1>3. v = OneMoreLLMCall(JobOf[p]) /\ Later(JobOf[p], counters[JobOf[p]], v) /\ JobOf[p] \in Jobs
  BY <1>1, <1>2, CallCounted, Limits
<1>4. /\ pass[p].made \in Nat /\ pass[p].granted \in Nat /\ MaxLLMCalls[JobOf[p]] \in Nat
      /\ counters[JobOf[p]].llmCalls \in Nat /\ v.llmCalls \in Nat
      /\ counters[JobOf[p]].llmCalls =< MaxLLMCalls[JobOf[p]] + 2
      /\ counters[JobOf[p]].llmCalls =< v.llmCalls
  <2>1. pass[p] \in PassTypes /\ counters[JobOf[p]] \in UsageCounters /\ v \in UsageCounters
    BY <1>1, <1>3 DEF RestTypes, Later
  <2> QED
    BY <1>3, <2>1, Limits DEF PassTypes, UsageCounters, CallsAreCounted, Later
<1>5. q.granted = pass[p].granted /\ (Limited(q) <=> Limited(pass[p]))
  BY DEF SameTerms, Limited
<1>6. Covered(p, pass[p], counters[JobOf[p]])
  BY DEF CallsAreCounted
<1>7. Limited(q) => Capable(v) /\ Capable(counters[JobOf[p]])
  <2>1. Capable(v) <=> Capable(counters[JobOf[p]])
    BY <1>3 DEF Later
  <2> QED
    BY <1>5, <1>6, <2>1 DEF Covered
<1>8. ASSUME Limited(q)
      PROVE  q.made + MaxLLMCalls[JobOf[p]] =< q.granted + Used(p, v)
  <2>1. v.llmCalls =< MaxLLMCalls[JobOf[p]]
    <3>1. ~(v.llmCalls > MaxLLMCalls[JobOf[p]])
      BY <1>2, <1>7, <1>8, Zenon DEF LimitExceeded, Capable
    <3> QED
      BY <1>4, <3>1
  <2>2. v.llmCalls = counters[JobOf[p]].llmCalls + 1
    BY <1>1, <1>3, <1>4, <2>1, OneMoreCall
  <2>3. Used(p, v) = v.llmCalls /\ Used(p, counters[JobOf[p]]) = counters[JobOf[p]].llmCalls
    BY <1>4, <2>1, <2>2 DEF Used, UpTo
  <2>4. pass[p].made + MaxLLMCalls[JobOf[p]] =< pass[p].granted + Used(p, counters[JobOf[p]])
    BY <1>5, <1>6, <1>8 DEF Covered
  <2>5. q.made =< pass[p].made + 1 /\ q.made \in Nat
    BY <1>4 DEF OneMoreMade, UpTo
  <2> QED
    BY <1>4, <1>5, <2>2, <2>3, <2>4, <2>5
<1> QED
  BY <1>2, <1>7, <1>8 DEF Covered

\* A step that counts no call leaves every counter's calls and limits.
LEMMA NothingCounted ==
  ASSUME RestTypes, CallsAreCounted, UNCHANGED counters
  PROVE  \A j \in Jobs : Later(j, counters[j], counters'[j])
<1>1. counters \in [Jobs -> UsageCounters]
  BY DEF RestTypes
<1>2. ASSUME NEW j \in Jobs PROVE Later(j, counters[j], counters'[j])
  <2>1. counters[j] \in UsageCounters /\ counters[j].llmCalls \in Nat /\ counters'[j] = counters[j]
    BY <1>1 DEF UsageCounters
  <2>2. counters[j].llmCalls =< MaxLLMCalls[j] + 2
    BY DEF CallsAreCounted
  <2> QED
    BY <2>1, <2>2 DEF Later
<1> QED
  BY <1>2

\* Neither does the counting of items.
LEMMA ItemsCounted ==
  ASSUME RestTypes, CallsAreCounted, NEW p \in Passes, NEW n \in Nat,
         counters' = [counters EXCEPT ![JobOf[p]].itemCreations = n]
  PROVE  \A j \in Jobs : Later(j, counters[j], counters'[j])
<1>1. counters \in [Jobs -> UsageCounters] /\ JobOf[p] \in Jobs
  BY Limits DEF RestTypes
<1>2. ASSUME NEW j \in Jobs PROVE Later(j, counters[j], counters'[j])
  <2>1. counters[j] \in UsageCounters /\ counters[j].llmCalls \in Nat
    BY <1>1 DEF UsageCounters
  <2>2. counters[j].llmCalls =< MaxLLMCalls[j] + 2
    BY DEF CallsAreCounted
  <2>3. counters'[j] = [counters[j] EXCEPT !.itemCreations = n] \/ counters'[j] = counters[j]
    BY <1>1
  <2>4. /\ counters'[j] \in UsageCounters /\ counters'[j].llmCalls = counters[j].llmCalls
        /\ counters'[j].capable = counters[j].capable
    BY <2>1, <2>3 DEF UsageCounters
  <2> QED
    BY <2>1, <2>2, <2>4 DEF Later, Capable
<1> QED
  BY <1>2

\* Whether a step of p counts a call and whether it makes one; everything else of the
\* pass that matters here stays, or the pass is over.
LEMMA CallsOfStep ==
  ASSUME Base, CallsAreCounted, NEW p \in Passes, AgentStep(p) \/ BudgetAbort(p)
  PROVE  /\ Only(p)
         /\ \A j \in Jobs : Later(j, counters[j], counters'[j])
         /\ Covered(p, pass'[p], counters'[JobOf[p]])
<1>1. pass \in [Passes -> PassTypes] /\ RestTypes /\ JobOf[p] \in Jobs
  BY BaseParts, Limits
<1>2. pass[p] \in PassTypes /\ counters[JobOf[p]] \in UsageCounters
  BY <1>1 DEF RestTypes
<1>3. Covered(p, pass[p], counters[JobOf[p]]) /\ ShapeOf(p, pass[p])
  BY BaseParts DEF CallsAreCounted
<1>4. ASSUME NEW q \in PassTypes, q = pass'[p], SameRun(pass[p], q),
             \A j \in Jobs : Later(j, counters[j], counters'[j]),
             q.at \in {"begun", "extract"} => pass[p].at \in {"begun", "extract"},
             pass[p].at \notin Resting,
             q.at \notin {"begun", "extract"} => pass[p].at \notin {"begun", "extract"}
      PROVE  Covered(p, q, counters'[JobOf[p]])
  <2>1. Later(JobOf[p], counters[JobOf[p]], counters'[JobOf[p]])
    BY <1>1, <1>4
  <2>2. SameTerms(pass[p], q) /\ q.made = pass[p].made
    BY <1>4 DEF SameRun
  <2> QED
    BY <1>2, <1>3, <1>4, <2>1, <2>2, CoveredLater
<1>5. ASSUME UNCHANGED counters, Only(p), SameRun(pass[p], pass'[p]), pass[p].at \notin Resting,
             pass'[p].at \in {"begun", "extract"} => pass[p].at \in {"begun", "extract"},
             pass'[p].at \notin {"begun", "extract"} => pass[p].at \notin {"begun", "extract"}
      PROVE  /\ \A j \in Jobs : Later(j, counters[j], counters'[j])
             /\ Covered(p, pass'[p], counters'[JobOf[p]])
  <2>1. \A j \in Jobs : Later(j, counters[j], counters'[j])
    BY <1>1, <1>5, NothingCounted
  <2> QED
    BY <1>4, <1>5, <2>1 DEF Only
<1>6. CASE ProcessDocument(p)
  <2>1. UNCHANGED counters
    BY <1>6 DEF ProcessDocument
  <2> QED
    BY <1>1, <1>5, <1>6, <2>1, ProcessDocumentDoes DEF Resting
<1>7. CASE prepareDocumentMap(p)
  <2>1. UNCHANGED counters
    BY <1>7 DEF prepareDocumentMap
  <2>2. /\ Only(p) /\ pass[p].at = "extract" /\ pass'[p].at = "think"
        /\ SameTerms(pass[p], pass'[p]) /\ pass'[p].made \in 0..Transcriptions(p)
    BY <1>1, <1>7, PrepareDoes
  <2>3. \A j \in Jobs : Later(j, counters[j], counters'[j])
    BY <1>1, <2>1, NothingCounted
  <2>4. MaxLLMCalls[JobOf[p]] + Transcriptions(p) =< pass[p].granted
    BY <1>3, <2>2 DEF Covered
  <2>5. /\ pass'[p].granted = pass[p].granted /\ (Limited(pass'[p]) <=> Limited(pass[p]))
        /\ pass'[p] \in PassTypes
    BY <2>2 DEF SameTerms, Limited, Only
  <2>6. Limited(pass[p]) => Capable(counters'[JobOf[p]])
    BY <1>3, <2>1, <2>2 DEF Covered, Resting
  <2>7. /\ MaxLLMCalls[JobOf[p]] \in Nat /\ Transcriptions(p) \in Nat
        /\ pass[p].granted \in Nat /\ counters[JobOf[p]].llmCalls \in Nat
    BY <1>2, Limits DEF PassTypes, UsageCounters
  <2>8. Used(p, counters'[JobOf[p]]) \in Nat
    BY <2>1, <2>7 DEF Used, UpTo
  <2>9. pass'[p].made + MaxLLMCalls[JobOf[p]] =< pass'[p].granted + Used(p, counters'[JobOf[p]])
    BY <2>2, <2>4, <2>5, <2>7, <2>8
  <2>10. Covered(p, pass'[p], counters'[JobOf[p]])
    BY <2>2, <2>5, <2>6, <2>9 DEF Covered, Resting
  <2> QED
    BY <2>2, <2>3, <2>10
<1>8. CASE CallTool(p)
  <2>1. /\ CountLLMCall(p) /\ ~LimitExceeded(JobOf[p], counters'[JobOf[p]])
    BY <1>8 DEF CallTool
  <2>2. /\ Only(p) /\ pass[p].at = "think" /\ pass'[p].at = "before"
        /\ SameTerms(pass[p], pass'[p]) /\ pass'[p].made = OneMoreMade(p)
    BY <1>1, <1>8, CallToolDoes
  <2>3. pass'[p] \in PassTypes
    BY <2>2 DEF Only
  <2>4. Covered(p, pass'[p], counters'[JobOf[p]])
    BY <2>1, <2>2, <2>3, OneMoreCovered DEF Resting
  <2> QED
    BY <1>1, <2>1, <2>2, <2>4, CallCounted
<1>9. ASSUME NEW s \in Resting, Ends(p, s) PROVE Only(p) /\ Covered(p, pass'[p], counters'[JobOf[p]])
  <2>1. Only(p) /\ pass'[p].at \in Resting
    BY <1>1, <1>9, EndsDoes
  <2> QED
    BY <2>1 DEF Covered, Resting
<1>10. CASE FinalResponse(p) \/ AgentRunFails(p)
  <2>1. CountLLMCall(p) /\ (Ends(p, "done") \/ Ends(p, "failed"))
    BY <1>10 DEF FinalResponse, AgentRunFails
  <2> QED
    BY <1>1, <1>9, <2>1, CallCounted DEF Resting
<1>11. CASE Nudge(p)
  <2>1. UNCHANGED counters
    BY <1>11 DEF Nudge, Before
  <2> QED
    BY <1>1, <1>5, <1>11, <2>1, NudgeDoes DEF Resting
<1>12. CASE ResumeFromCheckpoint(p)
  <2>1. UNCHANGED counters
    BY <1>12 DEF ResumeFromCheckpoint, Before
  <2> QED
    BY <1>1, <1>5, <1>12, <2>1, ResumeDoes, ResumedIs DEF Resting
<1>13. CASE EnterTool(p)
  <2>1. UNCHANGED counters
    BY <1>13 DEF EnterTool, Before
  <2> QED
    BY <1>1, <1>5, <1>13, <2>1, EnterToolDoes DEF Resting
<1>14. CASE generate_brief(p)
  <2>1. CountLLMCall(p)
    BY <1>14 DEF generate_brief
  <2>2. /\ Only(p) /\ pass[p].at = "brief" /\ pass'[p].at = "after" /\ SameTerms(pass[p], pass'[p])
        /\ pass'[p].made = IF LimitExceeded(JobOf[p], counters'[JobOf[p]]) THEN pass[p].made
                           ELSE OneMoreMade(p)
    BY <1>1, <1>14, BriefDoes
  <2>3. \A j \in Jobs : Later(j, counters[j], counters'[j])
    BY <1>1, <2>1, CallCounted
  <2>4. pass'[p] \in PassTypes /\ Later(JobOf[p], counters[JobOf[p]], counters'[JobOf[p]])
    BY <1>1, <2>2, <2>3 DEF Only
  <2>5. CASE LimitExceeded(JobOf[p], counters'[JobOf[p]])
    BY <1>2, <1>3, <2>2, <2>3, <2>4, <2>5, CoveredLater DEF Resting
  <2>6. CASE ~LimitExceeded(JobOf[p], counters'[JobOf[p]])
    BY <2>1, <2>2, <2>3, <2>4, <2>6, OneMoreCovered DEF Resting
  <2> QED
    BY <2>5, <2>6
<1>15. CASE PersistNothing(p)
  <2>1. UNCHANGED counters /\ pass[p].at = "persist"
    BY <1>15 DEF PersistNothing, At
  <2> QED
    BY <1>1, <1>5, <1>15, <2>1, ReturnDoes, OutputTypes DEF Resting, PersistNothing
<1>16. ASSUME Reserve(p) PROVE \A j \in Jobs : Later(j, counters[j], counters'[j])
  <2>1. PICK n : n = UpTo(MaxItemCreations + 1, counters[JobOf[p]].itemCreations + Len(pass[p].call.batch))
    OBVIOUS
  <2>2. counters' = [counters EXCEPT ![JobOf[p]].itemCreations = n]
    BY <1>16, <2>1 DEF Reserve
  <2>3. n \in Nat
    <3>1. counters[JobOf[p]].itemCreations \in Nat
      BY <1>2 DEF UsageCounters
    <3>2. Len(pass[p].call.batch) \in Nat
      BY <1>1, BatchLen
    <3>3. MaxItemCreations \in Nat
      BY LimitsAssumption
    <3> QED
      BY <2>1, <3>1, <3>2, <3>3 DEF UpTo
  <2> QED
    BY <1>1, <2>2, <2>3, ItemsCounted
<1>17. CASE PersistRefused(p)
  <2>1. Reserve(p)
    BY <1>17 DEF PersistRefused
  <2>2. /\ Only(p) /\ pass[p].at = "persist" /\ pass'[p].at = "after" /\ SameRun(pass[p], pass'[p])
    BY <1>1, <1>17, PersistRefusedDoes
  <2> QED
    BY <1>4, <1>16, <2>1, <2>2 DEF Only, Resting
<1>18. CASE StartPersist(p)
  <2>1. Reserve(p)
    BY <1>18 DEF StartPersist
  <2>2. /\ Only(p) /\ pass[p].at = "persist" /\ pass'[p].at = "create" /\ SameRun(pass[p], pass'[p])
    BY <1>18, StartDoes
  <2> QED
    BY <1>4, <1>16, <2>1, <2>2 DEF Only, Resting
<1>19. CASE CountItems(p)
  <2>1. UNCHANGED counters
    BY <1>19 DEF CountItems
  <2> QED
    BY <1>5, <1>19, <2>1, CountItemsDoes DEF Resting
<1>20. CASE CreateItem(p)
  <2>1. UNCHANGED counters
    BY <1>20 DEF CreateItem
  <2> QED
    BY <1>5, <1>20, <2>1, CreateItemDoes DEF Resting
<1>21. CASE LogItem(p)
  <2>1. UNCHANGED counters
    BY <1>21 DEF LogItem
  <2> QED
    BY <1>5, <1>21, <2>1, LogItemDoes DEF Resting
<1>22. CASE MergeItem(p)
  <2>1. UNCHANGED counters
    BY <1>22 DEF MergeItem
  <2> QED
    BY <1>5, <1>22, <2>1, MergeItemDoes DEF Resting
<1>23. CASE ItemRefused(p) \/ StoringFails(p)
  <2>1. /\ Only(p) /\ pass[p].at \in StoresNow /\ pass'[p].at = "after" /\ UNCHANGED counters
        /\ SameRun(pass[p], pass'[p])
    BY <1>23, StopDoes
  <2> QED
    BY <1>5, <2>1 DEF Resting, StoresNow
<1>24. CASE RewriteLinks(p)
  <2>1. UNCHANGED counters
    BY <1>24 DEF RewriteLinks
  <2> QED
    BY <1>1, <1>5, <1>24, <2>1, RewriteLinksDoes DEF Resting
<1>25. CASE AfterTool(p)
  <2>1. UNCHANGED counters /\ Answered(p) /\ pass[p].at = "after"
    BY <1>25 DEF AfterTool, At
  <2> QED
    BY <1>1, <1>5, <2>1, AnsweredDoes DEF Resting
<1>26. CASE BudgetAbort(p)
  <2>1. Ends(p, "interrupted") /\ counters' = [counters EXCEPT ![JobOf[p]] = AbortCounters(p)]
    BY <1>26 DEF BudgetAbort
  <2>2. PICK u \in UsageCounters : u = OneMoreLLMCall(JobOf[p])
    BY <1>1, CountTypes
  <2>3. PICK n : n = IF At(p, "persist") THEN UpTo(MaxItemCreations + 1, u.itemCreations + Len(pass[p].call.batch))
                     ELSE u.itemCreations
    OBVIOUS
  <2>4. n \in Nat
    BY <1>1, <2>2, <2>3, BatchLen, LimitsAssumption DEF UpTo, UsageCounters
  <2>5. AbortCounters(p) = [u EXCEPT !.itemCreations = n]
    BY <2>2, <2>3 DEF AbortCounters
  <2>6. counters[JobOf[p]].llmCalls =< MaxLLMCalls[JobOf[p]] + 2
    BY <1>1 DEF CallsAreCounted
  <2>7. Later(JobOf[p], counters[JobOf[p]], u)
    BY <1>1, <2>2, <2>6, OneMoreCall
  <2>8. [u EXCEPT !.itemCreations = n] \in UsageCounters /\ [u EXCEPT !.itemCreations = n].llmCalls = u.llmCalls
        /\ [u EXCEPT !.itemCreations = n].capable = u.capable
    BY <2>2, <2>4 DEF UsageCounters
  <2>9. Later(JobOf[p], counters[JobOf[p]], [u EXCEPT !.itemCreations = n])
    BY <2>7, <2>8 DEF Later, Capable
  <2>10. ASSUME NEW j \in Jobs PROVE Later(j, counters[j], counters'[j])
    <3>1. counters \in [Jobs -> UsageCounters]
      BY <1>1 DEF RestTypes
    <3>2. CASE j = JobOf[p]
      BY <2>1, <2>5, <2>9, <3>1, <3>2
    <3>3. CASE j # JobOf[p]
      <4>1. counters'[j] = counters[j] /\ counters[j] \in UsageCounters /\ counters[j].llmCalls \in Nat
        BY <2>1, <3>1, <3>3 DEF UsageCounters
      <4> QED
        BY <4>1 DEF Later, CallsAreCounted
    <3> QED
      BY <3>2, <3>3
  <2> QED
    BY <1>9, <2>1, <2>10 DEF Resting
<1> QED
  BY <1>6, <1>7, <1>8, <1>10, <1>11, <1>12, <1>13, <1>14, <1>15, <1>17, <1>18, <1>19, <1>20, <1>21,
     <1>22, <1>23, <1>24, <1>25, <1>26 DEF AgentStep

\* The other passes are covered by what their counters have become.
LEMMA CountedStep == Base /\ CallsAreCounted /\ [Next]_vars => CallsAreCounted'
<1> SUFFICES ASSUME Base, CallsAreCounted, [Next]_vars PROVE CallsAreCounted'
  OBVIOUS
<1>1. pass \in [Passes -> PassTypes] /\ RestTypes /\ counters \in [Jobs -> UsageCounters]
  BY BaseParts DEF RestTypes
<1>2. FreshCounters.llmCalls = 0 /\ FreshCounters \in UsageCounters
  BY DEF FreshCounters, UsageCounters
<1>3. \A j \in Jobs : MaxLLMCalls[j] \in Nat
  BY LimitsAssumption
<1>4. ASSUME NEW p \in Passes, AgentStep(p) \/ BudgetAbort(p) PROVE CallsAreCounted'
  <2>1. /\ Only(p) /\ Covered(p, pass'[p], counters'[JobOf[p]])
        /\ \A j \in Jobs : Later(j, counters[j], counters'[j])
    BY <1>4, CallsOfStep
  <2>2. ASSUME NEW k \in Passes, k # p PROVE Covered(k, pass'[k], counters'[JobOf[k]])
    <3>1. pass'[k] = pass[k] /\ pass[k] \in PassTypes /\ JobOf[k] \in Jobs
      BY <1>1, <2>1, <2>2, Limits DEF Only
    <3>2. Covered(k, pass[k], counters[JobOf[k]])
      BY DEF CallsAreCounted
    <3>3. Later(JobOf[k], counters[JobOf[k]], counters'[JobOf[k]]) /\ counters[JobOf[k]] \in UsageCounters
      BY <1>1, <2>1, <3>1
    <3> QED
      BY <3>1, <3>2, <3>3, CoveredLater DEF SameTerms
  <2>3. ASSUME NEW j \in Jobs PROVE counters'[j].llmCalls =< MaxLLMCalls[j] + 2
    BY <2>1 DEF Later
  <2> QED
    BY <2>1, <2>2, <2>3 DEF CallsAreCounted
<1>5. ASSUME NEW p \in Passes, BeginJob(p) PROVE CallsAreCounted'
  <2>1. PICK c \in BOOLEAN :
          /\ counters' = [counters EXCEPT ![JobOf[p]] = [FreshCounters EXCEPT !.capable = c]]
          /\ pass'[p].limited = c
          /\ pass'[p].granted = MaxLLMCalls[JobOf[p]] + Transcriptions(p)
          /\ \A k \in Passes : k # p /\ Running(k) =>
               /\ JobOf[k] # JobOf[p] => /\ pass'[k].limited = pass[k].limited
                                         /\ pass'[k].granted = pass[k].granted
               /\ JobOf[k] = JobOf[p] => /\ pass'[k].limited = (pass[k].limited /\ c)
                                         /\ pass'[k].granted = pass[k].granted + MaxLLMCalls[JobOf[p]]
    BY <1>1, <1>5, BeginJobDoes
  <2>2. PICK u : u = [FreshCounters EXCEPT !.capable = c]
    OBVIOUS
  <2>3. u.llmCalls = 0 /\ u.capable = c
    BY <2>2 DEF FreshCounters
  <2>4. JobOf[p] \in Jobs
    BY Limits
  <2>5. counters'[JobOf[p]] = u /\ \A j \in Jobs : j # JobOf[p] => counters'[j] = counters[j]
    BY <1>1, <2>1, <2>2, <2>4
  <2>6. ASSUME NEW j \in Jobs PROVE counters'[j].llmCalls =< MaxLLMCalls[j] + 2
    <3>1. 0 =< MaxLLMCalls[j] + 2
      BY <1>3
    <3> QED
      BY <2>3, <2>5, <3>1 DEF CallsAreCounted
  <2>7. Covered(p, pass'[p], counters'[JobOf[p]])
    <3>1. pass'[p].at = "begun"
      BY <1>1, <1>5, BeginJobDoes DEF Begins
    <3>2. Limited(pass'[p]) => Capable(counters'[JobOf[p]])
      BY <2>1, <2>3, <2>5 DEF Limited, Capable
    <3>3. MaxLLMCalls[JobOf[p]] + Transcriptions(p) =< pass'[p].granted
      BY <2>1, Limits
    <3> QED
      BY <3>1, <3>2, <3>3 DEF Covered
  <2>8. ASSUME NEW k \in Passes, k # p PROVE Covered(k, pass'[k], counters'[JobOf[k]])
    <3>1. GoesOn(pass[k], pass'[k]) /\ (~Running(k) => pass'[k] = pass[k])
      BY <1>1, <1>5, <2>8, BeginJobDoes
    <3>2. pass'[k].at = pass[k].at /\ pass'[k].made = pass[k].made
      BY <3>1 DEF GoesOn
    <3>3. Covered(k, pass[k], counters[JobOf[k]]) /\ pass[k] \in PassTypes /\ JobOf[k] \in Jobs
      BY <1>1, Limits DEF CallsAreCounted
    <3>4. CASE ~Running(k)
      BY <3>2, <3>4 DEF Running, Covered, Resting
    <3>5. CASE Running(k) /\ JobOf[k] # JobOf[p]
      <4>1. pass'[k].granted = pass[k].granted /\ (Limited(pass'[k]) <=> Limited(pass[k]))
        BY <2>1, <2>8, <3>5 DEF Limited
      <4>2. counters'[JobOf[k]] = counters[JobOf[k]]
        BY <2>5, <3>3, <3>5
      <4> QED
        BY <3>2, <3>3, <4>1, <4>2 DEF Covered
    <3>6. CASE Running(k) /\ JobOf[k] = JobOf[p]
      <4>1. pass'[k].granted = pass[k].granted + MaxLLMCalls[JobOf[k]]
        BY <2>1, <2>8, <3>6
      <4>2. Limited(pass'[k]) => Limited(pass[k]) /\ Capable(counters'[JobOf[k]])
        <5>1. pass'[k].limited = (pass[k].limited /\ c)
          BY <2>1, <2>8, <3>6
        <5>2. counters'[JobOf[k]].capable = c
          BY <2>3, <2>5, <3>6
        <5> QED
          BY <5>1, <5>2 DEF Limited, Capable
      <4>3. /\ MaxLLMCalls[JobOf[k]] \in Nat /\ Transcriptions(k) \in Nat /\ pass[k].granted \in Nat
            /\ pass[k].made \in Nat /\ counters[JobOf[k]].llmCalls \in Nat
        <5>1. counters[JobOf[k]] \in UsageCounters
          BY <1>1, <3>3
        <5> QED
          BY <3>3, <5>1, Limits DEF PassTypes, UsageCounters
      <4>4. /\ Used(k, counters[JobOf[k]]) \in Nat
            /\ Used(k, counters[JobOf[k]]) =< MaxLLMCalls[JobOf[k]]
            /\ Used(k, counters'[JobOf[k]]) = 0
        BY <2>3, <2>5, <3>6, <4>3 DEF Used, UpTo
      <4>5. pass'[k].at \in {"begun", "extract"} =>
              MaxLLMCalls[JobOf[k]] + Transcriptions(k) =< pass'[k].granted
        BY <3>2, <3>3, <4>1, <4>3 DEF Covered
      <4>6. ASSUME pass'[k].at \notin Resting \cup {"begun", "extract"}, Limited(pass'[k])
            PROVE  pass'[k].made + MaxLLMCalls[JobOf[k]] =< pass'[k].granted + Used(k, counters'[JobOf[k]])
        <5>1. pass[k].made + MaxLLMCalls[JobOf[k]] =< pass[k].granted + Used(k, counters[JobOf[k]])
          BY <3>2, <3>3, <4>2, <4>6 DEF Covered
        <5> QED
          BY <3>2, <4>1, <4>3, <4>4, <5>1
      <4> QED
        BY <4>2, <4>5, <4>6 DEF Covered
    <3> QED
      BY <3>4, <3>5, <3>6
  <2> QED
    BY <2>6, <2>7, <2>8 DEF CallsAreCounted
<1>6. CASE Crash
  <2>1. ASSUME NEW k \in Passes PROVE pass'[k].at \in Resting
    BY <1>1, <1>6, CrashDoes, EndedIs DEF Running, Resting
  <2>2. ASSUME NEW j \in Jobs PROVE counters'[j].llmCalls =< MaxLLMCalls[j] + 2
    <3>1. counters'[j] = FreshCounters
      BY <1>6 DEF Crash
    <3> QED
      BY <1>2, <1>3, <3>1
  <2> QED
    BY <2>1, <2>2 DEF CallsAreCounted, Covered, Resting
<1>7. CASE UNCHANGED vars
  <2>1. UNCHANGED <<pass, counters>>
    BY <1>7 DEF vars
  <2> QED
    BY <2>1 DEF CallsAreCounted, Covered, Limited, Capable, Used
<1> QED
  BY <1>4, <1>5, <1>6, <1>7 DEF Next

\* A pass makes no more model calls than its job's capability allows, those its
\* tools make included, however often other passes come between; what each pass of
\* the same job that begins meanwhile grants once more, and a transcription that
\* nothing counts, are all that is added. The tools compare the job's counters before
\* they ask the model, and the counters have never counted less than the pass has
\* made since they were last set back.
THEOREM CallsStayWithinLimit == Spec => []ModelCallsWithinLimit
<1>1. Init => CallsAreCounted
  <2> SUFFICES ASSUME Init PROVE CallsAreCounted
    OBVIOUS
  <2>1. \A p \in Passes : pass[p] = NoPass
    BY DEF Init
  <2>2. \A p \in Passes : pass[p].at \in Resting
    BY <2>1 DEF NoPass, Resting
  <2>3. \A j \in Jobs : counters[j].llmCalls = 0 /\ MaxLLMCalls[j] \in Nat
    BY LimitsAssumption DEF Init, FreshCounters
  <2>4. \A j \in Jobs : counters[j].llmCalls =< MaxLLMCalls[j] + 2
    BY <2>3
  <2> QED
    BY <2>2, <2>4 DEF CallsAreCounted, Covered, Resting
<1>2. Base /\ CallsAreCounted => ModelCallsWithinLimit
  <2> SUFFICES ASSUME Base, CallsAreCounted, NEW p \in Passes, Limited(pass[p])
               PROVE  pass[p].made =< pass[p].granted
    BY DEF ModelCallsWithinLimit, Limited
  <2>1. Covered(p, pass[p], counters[JobOf[p]]) /\ ShapeOf(p, pass[p])
    BY BaseParts DEF CallsAreCounted
  <2>2. pass[p] \in PassTypes /\ counters[JobOf[p]] \in UsageCounters
    BY BaseParts, Limits DEF RestTypes
  <2>3. /\ MaxLLMCalls[JobOf[p]] \in Nat /\ pass[p].granted \in Nat /\ pass[p].made \in Nat
        /\ counters[JobOf[p]].llmCalls \in Nat
    BY <2>2, Limits DEF PassTypes, UsageCounters
  <2>4. Used(p, counters[JobOf[p]]) \in Nat /\ Used(p, counters[JobOf[p]]) =< MaxLLMCalls[JobOf[p]]
    BY <2>3 DEF Used, UpTo
  <2>5. CASE pass[p].at \in Resting \cup {"begun", "extract"}
    BY <2>1, <2>3, <2>5 DEF ShapeOf
  <2>6. CASE pass[p].at \notin Resting \cup {"begun", "extract"}
    <3>1. pass[p].made + MaxLLMCalls[JobOf[p]] =< pass[p].granted + Used(p, counters[JobOf[p]])
      BY <2>1, <2>6 DEF Covered
    <3> QED
      BY <2>3, <2>4, <3>1
  <2> QED
    BY <2>5, <2>6
<1> QED
  BY <1>1, <1>2, InitBase, BaseStep, CountedStep, PTL DEF Spec

-----------------------------------------------------------------------------
(* What the steps of a pass leave alone.                                   *)

\* The steps with a hook of the pass.
HookRuns(p) == Nudge(p) \/ ResumeFromCheckpoint(p) \/ EnterTool(p) \/ AfterTool(p)

\* Only the hook after a tool writes a checkpoint.
LEMMA CheckpointsKept ==
  ASSUME NEW p \in Passes, AgentStep(p)
  PROVE  checkpoints' = checkpoints \/ AfterTool(p)
BY DEF AgentStep, ProcessDocument, prepareDocumentMap, CallTool, FinalResponse, AgentRunFails, Nudge,
       ResumeFromCheckpoint, EnterTool, Before, generate_brief, PersistNothing, PersistRefused,
       StartPersist, Reserve, CountItems, CreateItem, LogItem, MergeItem, ItemRefused, StoringFails,
       StopAt, RewriteLinks

\* Only a hook confuses jobs.
LEMMA MixedKept ==
  ASSUME NEW p \in Passes, AgentStep(p)
  PROVE  mixed' = mixed \/ HookRuns(p)
BY DEF AgentStep, ProcessDocument, prepareDocumentMap, CallTool, FinalResponse, AgentRunFails, HookRuns,
       generate_brief, PersistNothing, PersistRefused, StartPersist, Reserve, CountItems, CreateItem,
       LogItem, MergeItem, ItemRefused, StoringFails, StopAt, RewriteLinks, history

\* A hook confuses the jobs whose names it ran under.
LEMMA MixedByHooks ==
  ASSUME NEW p \in Passes, HookRuns(p)
  PROVE  mixed' = mixed \cup Confuses(p)
BY DEF HookRuns, Nudge, ResumeFromCheckpoint, EnterTool, Before, AfterTool

\* Only the hook before a tool finds another pass in the stage.
LEMMA RacedKept ==
  ASSUME NEW p \in Passes, AgentStep(p)
  PROVE  raced' = raced \/ (raced' = raced \cup Races(p) /\ Before(p))
BY DEF AgentStep, ProcessDocument, prepareDocumentMap, CallTool, FinalResponse, AgentRunFails, Nudge,
       ResumeFromCheckpoint, EnterTool, Before, generate_brief, PersistNothing, PersistRefused,
       StartPersist, Reserve, CountItems, CreateItem, LogItem, MergeItem, ItemRefused, StoringFails,
       StopAt, RewriteLinks, AfterTool, history

\* Only an item that is stored changes the tree.
LEMMA TreeKept ==
  ASSUME NEW p \in Passes, AgentStep(p)
  PROVE  tree' = tree \/ (tree' = Append(tree, TreeItem(p)) /\ CreateItem(p))
BY DEF AgentStep, ProcessDocument, prepareDocumentMap, CallTool, FinalResponse, AgentRunFails, Nudge,
       ResumeFromCheckpoint, EnterTool, Before, generate_brief, PersistNothing, PersistRefused,
       StartPersist, Reserve, CountItems, CreateItem, LogItem, MergeItem, ItemRefused, StoringFails,
       StopAt, RewriteLinks, AfterTool

\* Only the step's own job becomes unsealed.
LEMMA UnsealedGrows ==
  ASSUME NEW p \in Passes, AgentStep(p)
  PROVE  unsealed' = unsealed \/ unsealed' = unsealed \cup {JobOf[p]}
BY DEF AgentStep, ProcessDocument, prepareDocumentMap, CallTool, FinalResponse, AgentRunFails, Nudge,
       ResumeFromCheckpoint, EnterTool, Before, generate_brief, PersistNothing, PersistRefused,
       StartPersist, Reserve, CountItems, CreateItem, LogItem, MergeItem, ItemRefused, StoringFails,
       StopAt, RewriteLinks, AfterTool, history

\* A root is looked for only at the start of a persist call.
LEMMA RootsLooked ==
  ASSUME NEW p \in Passes, AgentStep(p)
  PROVE  misrooted' = misrooted \/ StartPersist(p)
BY DEF AgentStep, ProcessDocument, prepareDocumentMap, CallTool, FinalResponse, AgentRunFails, Nudge,
       ResumeFromCheckpoint, EnterTool, Before, generate_brief, PersistNothing, PersistRefused, Reserve,
       CountItems, CreateItem, LogItem, MergeItem, ItemRefused, StoringFails, StopAt, RewriteLinks,
       AfterTool, history

\* Only a document and a brief change the working memory.
LEMMA MemoryKept ==
  ASSUME NEW p \in Passes, AgentStep(p)
  PROVE  memory' = memory \/ prepareDocumentMap(p) \/ generate_brief(p)
BY DEF AgentStep, ProcessDocument, CallTool, FinalResponse, AgentRunFails, Nudge, ResumeFromCheckpoint,
       EnterTool, Before, PersistNothing, PersistRefused, StartPersist, Reserve, CountItems, CreateItem,
       LogItem, MergeItem, ItemRefused, StoringFails, StopAt, RewriteLinks, AfterTool, instance

\* Only a document and the hook before a tool change the guard and its users.
LEMMA GuardKept ==
  ASSUME NEW p \in Passes, AgentStep(p)
  PROVE  UNCHANGED <<repeatGuard, guardUsers>> \/ ProcessDocument(p) \/ Before(p)
BY DEF AgentStep, prepareDocumentMap, CallTool, FinalResponse, AgentRunFails, Nudge, ResumeFromCheckpoint,
       EnterTool, generate_brief, PersistNothing, PersistRefused, StartPersist, Reserve, CountItems,
       CreateItem, LogItem, MergeItem, ItemRefused, StoringFails, StopAt, RewriteLinks, AfterTool,
       instance, history

\* The steps that are not a pass's own change little beside the passes.
LEMMA OthersKept ==
  ASSUME NEW p \in Passes, BeginJob(p) \/ BudgetAbort(p)
  PROVE  /\ UNCHANGED <<repeatGuard, guardUsers, memory, currentJobID, checkpoints, tree, mutations, mixed,
                        raced, misrooted>>
         /\ unsealed \subseteq unsealed'
BY DEF BeginJob, BudgetAbort, instance, history

-----------------------------------------------------------------------------
(* Whose answers a pass is given.                                          *)

\* o is an answer to a call of job j whose checkpoint is stage s.
OwnAnswer(o, j, s) ==
  /\ o.from = j
  /\ o.kind = "brief" => s = "briefing"
  /\ o.kind \in {"empty", "saved"} => s = "persistence"

\* What is filed under a job's stage answers a call of that job and stage, and so
\* does what a pass was just answered.
AnswersOfStage ==
  /\ \A j \in Jobs \ mixed, s \in Stages :
       checkpoints[j][s] # NoCheckpoint => OwnAnswer(checkpoints[j][s].outputs, j, s)
  /\ \A p \in Passes : JobOf[p] \notin mixed /\ pass[p].at = "after" =>
       OwnAnswer(pass[p].outputs, JobOf[p], checkpointKey(pass[p].call))

\* A hook that leaves a job unmixed, of its own pass or under its name, runs under
\* that name alone.
LEMMA HookOfOne ==
  ASSUME NEW p \in Passes, mixed' = mixed \cup Confuses(p), NEW k \in Jobs, k \notin mixed'
  PROVE  /\ k \notin mixed
         /\ k = JobOf[p] => currentJobID = JobOf[p] /\ job = JobOf[p]
         /\ k # JobOf[p] => currentJobID # k
BY NamesAssumption DEF Confuses

\* What a step of p answers is its job's own, or there is no answer.
LEMMA AnswerOfStep ==
  ASSUME Base, AnswersOfStage, NEW p \in Passes, AgentStep(p), JobOf[p] \notin mixed', pass'[p].at = "after"
  PROVE  OwnAnswer(pass'[p].outputs, JobOf[p], checkpointKey(pass'[p].call))
<1>1. pass \in [Passes -> PassTypes] /\ RestTypes /\ ShapeOf(p, pass[p]) /\ JobOf[p] \in Jobs
  BY BaseParts, JobIs
<1>3. CASE ProcessDocument(p) \/ prepareDocumentMap(p) \/ CallTool(p)
  BY <1>1, <1>3, ProcessDocumentDoes, PrepareDoes, CallToolDoes
<1>4. CASE FinalResponse(p) \/ AgentRunFails(p)
  <2>1. PICK s \in Resting : Ends(p, s)
    BY <1>4 DEF FinalResponse, AgentRunFails, Resting
  <2> QED
    BY <1>1, <2>1, EndsDoes DEF Resting
<1>5. CASE Nudge(p)
  <2>1. pass'[p].outputs = Output("nudge", JobOf[p], <<>>)
    BY <1>1, <1>5, NudgeDoes
  <2> QED
    BY <1>1, <2>1, OutputTypes DEF OwnAnswer
<1>6. CASE ResumeFromCheckpoint(p)
  <2>1. HookRuns(p)
    BY <1>6 DEF HookRuns
  <2>2. currentJobID = JobOf[p] /\ JobOf[p] \notin mixed
    BY <1>1, <2>1, MixedByHooks, HookOfOne
  <2>3. checkpoints[JobOf[p]][checkpointKey(pass[p].call)] # NoCheckpoint
    BY <1>6, <2>2 DEF ResumeFromCheckpoint, Resumable
  <2>4. OwnAnswer(checkpoints[JobOf[p]][checkpointKey(pass[p].call)].outputs, JobOf[p],
                  checkpointKey(pass[p].call))
    BY <1>1, <2>2, <2>3, StageOf DEF AnswersOfStage
  <2>5. checkpoints[currentJobID][checkpointKey(pass[p].call)].outputs \in Outputs
    BY <1>6, ResumedIs
  <2>6. /\ pass'[p].outputs = checkpoints[JobOf[p]][checkpointKey(pass[p].call)].outputs
        /\ pass'[p].call = pass[p].call
    BY <1>1, <1>6, <2>2, <2>5, ResumeDoes DEF SameCall
  <2> QED
    BY <2>4, <2>6
<1>7. CASE EnterTool(p)
  BY <1>1, <1>7, EnterToolDoes
<1>8. CASE generate_brief(p)
  <2>1. /\ pass'[p].outputs = Output("brief", JobOf[p], <<>>) /\ pass[p].at = "brief"
        /\ pass'[p].call = pass[p].call
    BY <1>1, <1>8, BriefDoes DEF SameCall
  <2>2. checkpointKey(pass'[p].call) = "briefing"
    BY <1>1, <2>1 DEF ShapeOf, checkpointKey
  <2> QED
    BY <1>1, <2>1, <2>2, OutputTypes DEF OwnAnswer
<1>9. ASSUME pass[p].at \in {"persist", "create"}, pass'[p].call = pass[p].call
      PROVE  checkpointKey(pass'[p].call) = "persistence"
  BY <1>1, <1>9 DEF ShapeOf, checkpointKey, StoresNow
<1>10. CASE PersistNothing(p)
  <2>1. Return(p, Output("empty", JobOf[p], <<>>)) /\ pass[p].at = "persist"
    BY <1>10 DEF PersistNothing, At
  <2>2. /\ Output("empty", JobOf[p], <<>>) \in Outputs /\ Output("empty", JobOf[p], <<>>).kind = "empty"
        /\ Output("empty", JobOf[p], <<>>).from = JobOf[p]
    BY <1>1, OutputTypes
  <2>3. pass'[p].outputs = Output("empty", JobOf[p], <<>>) /\ pass'[p].call = pass[p].call
    BY <1>1, <2>1, <2>2, ReturnDoes DEF SameCall
  <2> QED
    BY <1>9, <2>1, <2>2, <2>3 DEF OwnAnswer
<1>11. CASE PersistRefused(p)
  BY <1>1, <1>11, PersistRefusedDoes DEF OwnAnswer
<1>12. CASE StartPersist(p)
  BY <1>12, StartDoes
<1>13. CASE CountItems(p) \/ CreateItem(p) \/ LogItem(p) \/ MergeItem(p)
  BY <1>13, CountItemsDoes, CreateItemDoes, LogItemDoes, MergeItemDoes
<1>14. CASE ItemRefused(p) \/ StoringFails(p)
  BY <1>14, StopDoes DEF OwnAnswer
<1>15. CASE RewriteLinks(p)
  <2>1. /\ pass[p].at = "create" /\ pass'[p].outputs.kind = "saved" /\ pass'[p].outputs.from = JobOf[p]
        /\ pass'[p].call = pass[p].call
    BY <1>1, <1>15, RewriteLinksDoes DEF SameCall
  <2> QED
    BY <1>9, <2>1 DEF OwnAnswer
<1>16. CASE AfterTool(p)
  BY <1>1, <1>16, AnsweredDoes DEF AfterTool
<1> QED
  BY <1>3, <1>4, <1>5, <1>6, <1>7, <1>8, <1>10, <1>11, <1>12, <1>13, <1>14, <1>15, <1>16 DEF AgentStep

\* What a step files under a job's stage answers that stage.
LEMMA FiledAnswer ==
  ASSUME Base, AnswersOfStage, NEW p \in Passes, AgentStep(p),
         NEW k \in Jobs, k \notin mixed', NEW s \in Stages, checkpoints'[k][s] # NoCheckpoint
  PROVE  OwnAnswer(checkpoints'[k][s].outputs, k, s)
<1>2. checkpoints \in [Jobs -> [Stages -> Envelopes]]
  BY BaseParts DEF RestTypes
<1>3. k \notin mixed
  BY MixedKept, MixedByHooks, HookOfOne
<1>4. CASE checkpoints'[k][s] = checkpoints[k][s]
  BY <1>3, <1>4 DEF AnswersOfStage
<1>5. CASE checkpoints'[k][s] # checkpoints[k][s]
  <2>1. AfterTool(p)
    BY <1>5, CheckpointsKept
  <2>2. checkpoints' = [checkpoints EXCEPT ![currentJobID][checkpointKey(pass[p].call)] =
                          Envelope(pass[p].outputs)]
    BY <1>5, <2>1 DEF AfterTool
  <2>3. PICK e : e = Envelope(pass[p].outputs)
    OBVIOUS
  <2>4. checkpoints' = [checkpoints EXCEPT ![currentJobID][checkpointKey(pass[p].call)] = e]
    BY <2>2, <2>3
  <2>5. k = currentJobID /\ s = checkpointKey(pass[p].call) /\ checkpoints'[k][s] = e
    BY <1>2, <1>5, <2>4
  <2>6. HookRuns(p)
    BY <2>1 DEF HookRuns
  <2>7. k = JobOf[p]
    BY <2>5, <2>6, MixedByHooks, HookOfOne
  <2>8. pass[p].at = "after"
    BY <2>1 DEF AfterTool, At
  <2>9. OwnAnswer(pass[p].outputs, JobOf[p], checkpointKey(pass[p].call))
    BY <1>3, <2>7, <2>8 DEF AnswersOfStage
  <2>10. e.outputs = pass[p].outputs
    BY <2>3 DEF Envelope
  <2> QED
    BY <2>5, <2>7, <2>9, <2>10
<1> QED
  BY <1>4, <1>5

\* Every step keeps the answers to their stages.
LEMMA AnswersStep ==
  ASSUME Base, AnswersOfStage, [Next]_vars
  PROVE  AnswersOfStage'
<1>1. pass \in [Passes -> PassTypes] /\ \A k \in Passes : JobOf[k] \in Jobs
  BY BaseParts, JobIs
<1>2. ASSUME NEW p \in Passes, AgentStep(p) PROVE AnswersOfStage'
  <2>1. Only(p)
    BY <1>2, PlacesStep
  <2> SUFFICES ASSUME NEW k \in Passes, JobOf[k] \notin mixed', pass'[k].at = "after"
               PROVE  OwnAnswer(pass'[k].outputs, JobOf[k], checkpointKey(pass'[k].call))
    BY <1>2, FiledAnswer DEF AnswersOfStage
  <2>2. CASE k = p
    BY <1>2, <2>2, AnswerOfStep
  <2>3. CASE k # p
    <3>1. pass'[k] = pass[k] /\ JobOf[k] \notin mixed
      BY <1>1, <1>2, <2>1, <2>3, MixedKept, MixedByHooks, HookOfOne DEF Only
    <3> QED
      BY <3>1 DEF AnswersOfStage
  <2> QED
    BY <2>2, <2>3
<1>3. ASSUME checkpoints' = checkpoints, mixed' = mixed,
             \A k \in Passes : pass'[k].at = "after"
               => pass[k].at = "after" /\ pass'[k].outputs = pass[k].outputs /\ pass'[k].call = pass[k].call
      PROVE  AnswersOfStage'
  BY <1>3 DEF AnswersOfStage
<1>4. ASSUME NEW p \in Passes, BeginJob(p) PROVE AnswersOfStage'
  <2>1. ASSUME NEW k \in Passes, pass'[k].at = "after"
        PROVE  pass[k].at = "after" /\ pass'[k].outputs = pass[k].outputs /\ pass'[k].call = pass[k].call
    BY <1>1, <1>4, <2>1, BeginJobDoes DEF SameCall, GoesOn, Begins
  <2> QED
    BY <1>3, <1>4, <2>1, OthersKept
<1>5. ASSUME NEW p \in Passes, BudgetAbort(p) PROVE AnswersOfStage'
  <2>1. Ends(p, "interrupted")
    BY <1>5 DEF BudgetAbort
  <2>2. Only(p) /\ pass'[p].at = "interrupted"
    BY <1>1, <2>1, EndsDoes DEF Resting
  <2>3. ASSUME NEW k \in Passes, pass'[k].at = "after" PROVE pass'[k] = pass[k]
    BY <2>2, <2>3 DEF Only
  <2> QED
    BY <1>3, <1>5, <2>3, OthersKept
<1>6. CASE Crash
  <2>1. checkpoints' = checkpoints /\ mixed' = mixed
    BY <1>6 DEF Crash
  <2>2. ASSUME NEW k \in Passes, pass'[k].at = "after" PROVE pass'[k] = pass[k]
    BY <1>1, <1>6, <2>2, CrashDoes, EndedIs
  <2> QED
    BY <1>3, <2>1, <2>2
<1>7. CASE UNCHANGED vars
  BY <1>3, <1>7 DEF vars, history
<1> QED
  BY <1>2, <1>4, <1>5, <1>6, <1>7 DEF Next

\* What a pass is answered was produced by a call of its own job and stage, fresh or
\* from a checkpoint, as long as no hook of the job ran under another's name and no
\* other pass's hook under the job's.
THEOREM AnswersComeFromOwnCalls == Spec => []AnswersAreOwn
<1>1. Init => AnswersOfStage
  BY DEF Init, AnswersOfStage, NoPass
<1>2. Base /\ AnswersOfStage /\ [Next]_vars => (Base /\ AnswersOfStage)'
  BY BaseStep, AnswersStep
<1>3. Base /\ AnswersOfStage => AnswersAreOwn
  <2> SUFFICES ASSUME Base, AnswersOfStage, NEW p \in Passes, At(p, "after"), JobOf[p] \notin mixed
               PROVE  /\ pass[p].outputs.from = JobOf[p]
                      /\ pass[p].outputs.kind = "brief" => pass[p].call.tool = "generate_brief"
                      /\ pass[p].outputs.kind \in {"empty", "saved"}
                           => pass[p].call.tool = "persist_knowledge_tree"
    BY DEF AnswersAreOwn
  <2>1. pass[p].at = "after" /\ OwnAnswer(pass[p].outputs, JobOf[p], checkpointKey(pass[p].call))
    BY DEF AnswersOfStage, At
  <2>2. pass[p].call.tool \in {"generate_brief", "persist_knowledge_tree"}
    BY <2>1, BaseParts, CallsOfPass DEF ShapeOf, CallsNow
  <2> QED
    BY <2>1, <2>2 DEF OwnAnswer, checkpointKey
<1> QED
  BY <1>1, <1>2, <1>3, InitBase, PTL DEF Spec

-----------------------------------------------------------------------------
(* Whose document and brief a prompt shows.                                *)

Lone(w) == w.alone
Extracted(w) == w.extracted
Briefed(w) == w.briefed

\* A pass that is alone runs alone, and the memory has what it put there.
MemoryIsOfTheLone ==
  \A p \in Passes : Running(p) /\ Lone(pass[p]) =>
    /\ \A k \in Passes : k # p => ~Running(k)
    /\ Extracted(pass[p]) => memory.map = JobOf[p]
    /\ Briefed(pass[p]) => memory.brief = JobOf[p]

\* What two passes with the same run have in common, as opaque facts.
LEMMA SameRunIs ==
  ASSUME NEW w, NEW q, SameRun(w, q)
  PROVE  (Lone(q) <=> Lone(w)) /\ (Extracted(q) <=> Extracted(w)) /\ (Briefed(q) <=> Briefed(w))
BY DEF SameRun, SameTerms, Lone, Extracted, Briefed

\* The steps that do not write to the memory leave what a pass knows of it.
LEMMA RunKept ==
  ASSUME Base, NEW p \in Passes, AgentStep(p), Running(p)', ~prepareDocumentMap(p), ~generate_brief(p)
  PROVE  /\ Lone(pass'[p]) <=> Lone(pass[p])
         /\ Extracted(pass'[p]) <=> Extracted(pass[p])
         /\ Briefed(pass'[p]) <=> Briefed(pass[p])
<1>1. pass \in [Passes -> PassTypes] /\ JobOf[p] \in Jobs
  BY BaseParts, JobIs
<1>2. CASE ProcessDocument(p)
  BY <1>1, <1>2, ProcessDocumentDoes, SameRunIs
<1>3. CASE CallTool(p)
  BY <1>1, <1>3, CallToolDoes DEF SameTerms, Lone, Extracted, Briefed
<1>4. CASE FinalResponse(p) \/ AgentRunFails(p)
  <2>1. PICK s \in Resting : Ends(p, s)
    BY <1>4 DEF FinalResponse, AgentRunFails, Resting
  <2> QED
    BY <1>1, <2>1, EndsDoes DEF Running
<1>5. CASE Nudge(p)
  BY <1>1, <1>5, NudgeDoes, SameRunIs
<1>6. CASE ResumeFromCheckpoint(p)
  BY <1>1, <1>6, ResumedIs, ResumeDoes, SameRunIs
<1>7. CASE EnterTool(p)
  BY <1>1, <1>7, EnterToolDoes, SameRunIs
<1>8. CASE PersistNothing(p)
  <2>1. Return(p, Output("empty", JobOf[p], <<>>)) /\ Output("empty", JobOf[p], <<>>) \in Outputs
    BY <1>1, <1>8, OutputTypes DEF PersistNothing
  <2> QED
    BY <1>1, <2>1, ReturnDoes, SameRunIs
<1>9. CASE PersistRefused(p)
  BY <1>1, <1>9, PersistRefusedDoes, SameRunIs
<1>10. CASE StartPersist(p)
  BY <1>10, StartDoes, SameRunIs
<1>11. CASE CountItems(p) \/ CreateItem(p) \/ LogItem(p) \/ MergeItem(p)
  BY <1>11, CountItemsDoes, CreateItemDoes, LogItemDoes, MergeItemDoes, SameRunIs
<1>12. CASE ItemRefused(p) \/ StoringFails(p)
  BY <1>12, StopDoes, SameRunIs
<1>13. CASE RewriteLinks(p)
  BY <1>1, <1>13, RewriteLinksDoes, SameRunIs
<1>14. CASE AfterTool(p)
  BY <1>1, <1>14, AnsweredDoes, SameRunIs DEF AfterTool
<1> QED
  BY <1>2, <1>3, <1>4, <1>5, <1>6, <1>7, <1>8, <1>9, <1>10, <1>11, <1>12, <1>13, <1>14 DEF AgentStep

\* Every step keeps the memory with the pass that is alone.
LEMMA MemoryStep ==
  ASSUME Base, MemoryIsOfTheLone, [Next]_vars
  PROVE  MemoryIsOfTheLone'
<1>1. /\ pass \in [Passes -> PassTypes]
      /\ memory \in [map : Jobs \cup {NoJob}, brief : Jobs \cup {NoJob}]
  BY BaseParts DEF RestTypes
<1>2. ASSUME NEW p \in Passes, AgentStep(p) PROVE MemoryIsOfTheLone'
  <2>1. Only(p) /\ Running(p)
    BY <1>2, PlacesStep
  <2>2. ASSUME NEW k \in Passes, k # p PROVE (Running(k)' <=> Running(k)) /\ pass'[k] = pass[k]
    BY <2>1, <2>2 DEF Only, Running
  <2>3. ASSUME NEW k \in Passes, k # p, Running(k) PROVE ~Lone(pass[k])
    BY <2>1, <2>3 DEF MemoryIsOfTheLone
  <2> SUFFICES ASSUME Running(p)', Lone(pass'[p])
               PROVE  /\ \A k \in Passes : k # p => ~Running(k)
                      /\ Extracted(pass'[p]) => memory'.map = JobOf[p]
                      /\ Briefed(pass'[p]) => memory'.brief = JobOf[p]
    BY <2>2, <2>3 DEF MemoryIsOfTheLone
  <2>4. CASE prepareDocumentMap(p)
    <3>1. /\ SameTerms(pass[p], pass'[p]) /\ pass'[p].briefed = pass[p].briefed
          /\ \/ memory' = DocumentMapOf(JobOf[p])
             \/ memory' = memory /\ pass'[p].extracted = pass[p].extracted
      BY <1>1, <2>4, PrepareDoes
    <3>2. /\ Lone(pass'[p]) <=> Lone(pass[p])
          /\ Briefed(pass'[p]) <=> Briefed(pass[p])
          /\ pass'[p].extracted = pass[p].extracted => (Extracted(pass'[p]) <=> Extracted(pass[p]))
      BY <3>1 DEF Lone, Briefed, Extracted, SameTerms
    <3>3. CASE memory' = DocumentMapOf(JobOf[p])
      <4>1. memory'.map = JobOf[p] /\ memory'.brief = memory.brief
        BY <1>1, <3>3 DEF DocumentMapOf
      <4> QED
        BY <2>1, <3>2, <4>1 DEF MemoryIsOfTheLone
    <3>4. CASE memory' = memory /\ pass'[p].extracted = pass[p].extracted
      BY <2>1, <3>2, <3>4 DEF MemoryIsOfTheLone
    <3> QED
      BY <3>1, <3>3, <3>4
  <2>5. CASE generate_brief(p)
    <3>1. SameTerms(pass[p], pass'[p]) /\ pass'[p].extracted = pass[p].extracted
      BY <1>1, <2>5, BriefDoes
    <3>2. /\ Lone(pass'[p]) <=> Lone(pass[p])
          /\ Extracted(pass'[p]) <=> Extracted(pass[p])
      BY <3>1 DEF Lone, Extracted, SameTerms
    <3>3. memory' = [memory EXCEPT !.brief = JobOf[p]]
      BY <2>5 DEF generate_brief
    <3>4. memory'.brief = JobOf[p] /\ memory'.map = memory.map
      BY <1>1, <3>3
    <3> QED
      BY <2>1, <3>2, <3>4 DEF MemoryIsOfTheLone
  <2>6. CASE ~prepareDocumentMap(p) /\ ~generate_brief(p)
    <3>1. memory' = memory
      BY <1>2, <2>6, MemoryKept
    <3>2. /\ Lone(pass'[p]) <=> Lone(pass[p])
          /\ Extracted(pass'[p]) <=> Extracted(pass[p])
          /\ Briefed(pass'[p]) <=> Briefed(pass[p])
      BY <1>2, <2>6, RunKept
    <3> QED
      BY <2>1, <3>1, <3>2 DEF MemoryIsOfTheLone
  <2> QED
    BY <2>4, <2>5, <2>6
<1>3. ASSUME NEW p \in Passes, BeginJob(p) PROVE MemoryIsOfTheLone'
  <2>1. /\ pass'[p].extracted = FALSE /\ pass'[p].briefed = FALSE
        /\ pass'[p].alone => \A k \in Passes : k # p => ~Running(k)
    BY <1>1, <1>3, BeginJobDoes DEF Begins
  <2>2. /\ ~Extracted(pass'[p]) /\ ~Briefed(pass'[p])
        /\ Lone(pass'[p]) => \A k \in Passes : k # p => ~Running(k)
    BY <2>1 DEF Lone, Extracted, Briefed
  <2>3. ASSUME NEW k \in Passes, k # p
        PROVE  (Running(k)' <=> Running(k)) /\ (Running(k) => ~Lone(pass'[k]))
    <3>1. pass'[k].at = pass[k].at /\ (Running(k) => ~pass'[k].alone)
      BY <1>1, <1>3, <2>3, BeginJobDoes DEF GoesOn
    <3> QED
      BY <3>1 DEF Lone, Running
  <2> QED
    BY <2>2, <2>3 DEF MemoryIsOfTheLone
<1>4. ASSUME NEW p \in Passes, BudgetAbort(p) PROVE MemoryIsOfTheLone'
  <2>1. Ends(p, "interrupted")
    BY <1>4 DEF BudgetAbort
  <2>2. Only(p) /\ pass'[p].at = "interrupted"
    BY <1>1, <2>1, EndsDoes DEF Resting
  <2>3. ~Running(p)' /\ \A k \in Passes : k # p => pass'[k] = pass[k] /\ (Running(k)' <=> Running(k))
    BY <2>2 DEF Only, Running, Resting
  <2>4. memory' = memory
    BY <1>4, OthersKept
  <2> QED
    BY <2>3, <2>4 DEF MemoryIsOfTheLone
<1>5. CASE Crash
  <2>1. \A k \in Passes : ~Running(k)'
    BY <1>1, <1>5, CrashDoes, EndedIs DEF Running, Resting
  <2> QED
    BY <2>1 DEF MemoryIsOfTheLone
<1>6. CASE UNCHANGED vars
  <2>1. pass' = pass /\ memory' = memory
    BY <1>6 DEF vars, instance
  <2> QED
    BY <2>1 DEF MemoryIsOfTheLone, Running
<1> QED
  BY <1>2, <1>3, <1>4, <1>5, <1>6 DEF Next

\* A pass that was alone on its instance all along is prompted with its own document
\* and its own brief, although nothing resets the working memory between jobs.
THEOREM LonePromptIsOwn == Spec => []PromptIsOwn
<1>1. Init => MemoryIsOfTheLone
  BY DEF Init, MemoryIsOfTheLone, NoPass, Running, Resting
<1>2. Base /\ MemoryIsOfTheLone /\ [Next]_vars => (Base /\ MemoryIsOfTheLone)'
  BY BaseStep, MemoryStep
<1>3. MemoryIsOfTheLone => PromptIsOwn
  <2> SUFFICES ASSUME MemoryIsOfTheLone, NEW p \in Passes, At(p, "think"), pass[p].alone
               PROVE  /\ pass[p].extracted => memory.map = JobOf[p]
                      /\ pass[p].briefed => memory.brief = JobOf[p]
    BY DEF PromptIsOwn
  <2>1. Running(p)
    BY DEF At, Running, Resting
  <2>2. Lone(pass[p])
    BY DEF Lone
  <2>3. /\ Extracted(pass[p]) => memory.map = JobOf[p]
        /\ Briefed(pass[p]) => memory.brief = JobOf[p]
    BY <2>1, <2>2 DEF MemoryIsOfTheLone
  <2> QED
    BY <2>3 DEF Extracted, Briefed
<1> QED
  BY <1>1, <1>2, <1>3, InitBase, PTL DEF Spec

-----------------------------------------------------------------------------
(* The limit on items.                                                     *)

ItemsIn(t, j) == {n \in DOMAIN t : t[n].job = j}

\* The items of a job in a tree can be counted.
LEMMA ItemsFinite ==
  ASSUME NEW t \in Seq(TreeItems), NEW j
  PROVE  IsFiniteSet(ItemsIn(t, j)) /\ Cardinality(ItemsIn(t, j)) \in Nat
<1>1. DOMAIN t = 1..Len(t) /\ Len(t) \in Nat
  OBVIOUS
<1>2. IsFiniteSet(1..Len(t))
  BY <1>1, FS_Interval
<1>3. ItemsIn(t, j) \subseteq 1..Len(t)
  BY <1>1 DEF ItemsIn
<1> QED
  BY <1>2, <1>3, FS_Subset, FS_CardinalityType

\* An item more in the tree is one more of its job, and none more of another.
LEMMA OneItemMore ==
  ASSUME NEW t \in Seq(TreeItems), NEW i \in TreeItems
  PROVE  /\ Cardinality(ItemsIn(Append(t, i), i.job)) = Cardinality(ItemsIn(t, i.job)) + 1
         /\ \A k : k # i.job => ItemsIn(Append(t, i), k) = ItemsIn(t, k)
<1>1. PICK u : u = Append(t, i)
  OBVIOUS
<1>2. /\ DOMAIN t = 1..Len(t) /\ Len(t) \in Nat
      /\ DOMAIN u = 1..Len(t) + 1 /\ u[Len(t) + 1] = i
      /\ \A n \in 1..Len(t) : u[n] = t[n]
  BY <1>1
<1>3. 1..Len(t) + 1 = 1..Len(t) \cup {Len(t) + 1} /\ Len(t) + 1 \notin 1..Len(t)
  BY <1>2
<1>4. ItemsIn(u, i.job) = ItemsIn(t, i.job) \cup {Len(t) + 1}
  BY <1>2, <1>3 DEF ItemsIn
<1>5. Len(t) + 1 \notin ItemsIn(t, i.job)
  BY <1>2, <1>3 DEF ItemsIn
<1>6. \A k : k # i.job => ItemsIn(u, k) = ItemsIn(t, k)
  BY <1>2, <1>3 DEF ItemsIn
<1>7. Cardinality(ItemsIn(u, i.job)) = Cardinality(ItemsIn(t, i.job)) + 1
  BY <1>4, <1>5, ItemsFinite, FS_AddElement
<1> QED
  BY <1>1, <1>6, <1>7

\* The passes f of job j that are at s.
PlacedAt(f, j, s) == {q \in Passes : JobOf[q] = j /\ f[q].at = s}

\* They can be counted.
LEMMA PlacedFinite ==
  ASSUME NEW f, NEW j, NEW s
  PROVE  IsFiniteSet(PlacedAt(f, j, s)) /\ Cardinality(PlacedAt(f, j, s)) \in Nat
<1>1. PlacedAt(f, j, s) \subseteq Passes
  BY DEF PlacedAt
<1> QED
  BY <1>1, JobIs, FS_Subset, FS_CardinalityType

\* From f to g no pass but p moves.
OthersStay(f, g, p) == \A k \in Passes : k # p => g[k].at = f[k].at

\* What that does to the passes at s: p counts where it is now and no longer where it was.
CountsMove(f, g, p, s) ==
  /\ \A j : j # JobOf[p] => PlacedAt(g, j, s) = PlacedAt(f, j, s)
  /\ Cardinality(PlacedAt(f, JobOf[p], s)) \in Nat
  /\ (g[p].at = s) = (f[p].at = s) =>
       Cardinality(PlacedAt(g, JobOf[p], s)) = Cardinality(PlacedAt(f, JobOf[p], s))
  /\ g[p].at = s /\ f[p].at # s =>
       Cardinality(PlacedAt(g, JobOf[p], s)) = Cardinality(PlacedAt(f, JobOf[p], s)) + 1
  /\ g[p].at # s /\ f[p].at = s =>
       Cardinality(PlacedAt(f, JobOf[p], s)) = Cardinality(PlacedAt(g, JobOf[p], s)) + 1
  /\ Cardinality(PlacedAt(g, JobOf[p], s)) \in Nat

\* The passes at s are counted anew when one moves.
LEMMA OneMoves ==
  ASSUME NEW f, NEW g, NEW p \in Passes, OthersStay(f, g, p), NEW s
  PROVE  CountsMove(f, g, p, s)
<1>1. \A j : j # JobOf[p] => PlacedAt(g, j, s) = PlacedAt(f, j, s)
  BY DEF PlacedAt, OthersStay
<1>2. CASE (g[p].at = s) = (f[p].at = s)
  <2>1. PlacedAt(g, JobOf[p], s) = PlacedAt(f, JobOf[p], s)
    BY <1>2 DEF PlacedAt, OthersStay
  <2> QED
    BY <1>1, <1>2, <2>1, PlacedFinite DEF CountsMove
<1>3. CASE g[p].at = s /\ f[p].at # s
  <2>1. /\ PlacedAt(g, JobOf[p], s) = PlacedAt(f, JobOf[p], s) \cup {p}
        /\ p \notin PlacedAt(f, JobOf[p], s)
    BY <1>3 DEF PlacedAt, OthersStay
  <2>2. Cardinality(PlacedAt(g, JobOf[p], s)) = Cardinality(PlacedAt(f, JobOf[p], s)) + 1
    BY <2>1, PlacedFinite, FS_AddElement
  <2> QED
    BY <1>1, <1>3, <2>2, PlacedFinite DEF CountsMove
<1>4. CASE g[p].at # s /\ f[p].at = s
  <2>1. /\ PlacedAt(f, JobOf[p], s) = PlacedAt(g, JobOf[p], s) \cup {p}
        /\ p \notin PlacedAt(g, JobOf[p], s)
    BY <1>4 DEF PlacedAt, OthersStay
  <2>2. Cardinality(PlacedAt(f, JobOf[p], s)) = Cardinality(PlacedAt(g, JobOf[p], s)) + 1
    BY <2>1, PlacedFinite, FS_AddElement
  <2> QED
    BY <1>1, <1>4, <2>2, PlacedFinite DEF CountsMove
<1> QED
  BY <1>2, <1>3, <1>4

\* A step of p alone moves p alone.
LEMMA PassMoves ==
  ASSUME NEW p \in Passes, Only(p), NEW s
  PROVE  CountsMove(pass, pass', p, s)
<1>1. OthersStay(pass, pass', p)
  BY DEF Only, OthersStay
<1> QED
  BY <1>1, OneMoves

\* items is how many items of a job are in the tree, mutated and unrecorded what the
\* log has and misses, counted and inserted how many of its passes have just counted
\* and just inserted an item, and most the crowd: the log has the items that are
\* neither missed nor just inserted, unless it is full, and there is room for each
\* item that was counted.
Held(items, mutated, unrecorded, counted, inserted, most) ==
  /\ mutated =< MaxItemCreations
  /\ mutated < MaxItemCreations => items =< mutated + unrecorded + inserted
  /\ items + counted =< MaxItemCreations + unrecorded + most

ItemsAreLogged ==
  \A j \in Jobs :
    Held(Cardinality(ItemsIn(tree, j)), mutations[j], unlogged[j],
         Cardinality(PlacedAt(pass, j, "counted")), Cardinality(PlacedAt(pass, j, "inserted")), crowd[j])

\* All of them are numbers.
LEMMA CountsAre ==
  ASSUME Base
  PROVE  \A j \in Jobs :
           /\ Cardinality(ItemsIn(tree, j)) \in Nat /\ mutations[j] \in Nat /\ unlogged[j] \in Nat
           /\ Cardinality(PlacedAt(pass, j, "counted")) \in Nat
           /\ Cardinality(PlacedAt(pass, j, "inserted")) \in Nat
           /\ crowd[j] \in Nat /\ MaxItemCreations \in Nat
<1>1. tree \in Seq(TreeItems) /\ mutations \in [Jobs -> Nat] /\ unlogged \in [Jobs -> Nat]
      /\ crowd \in [Jobs -> Nat]
  BY BaseParts DEF RestTypes
<1> QED
  BY <1>1, ItemsFinite, PlacedFinite, LimitsAssumption

\* The passes between a count and a log row are those that counted and those that
\* inserted.
LEMMA UnloggedAre ==
  ASSUME NEW j
  PROVE  Cardinality(Unlogged(j)) = Cardinality(PlacedAt(pass, j, "counted"))
                                    + Cardinality(PlacedAt(pass, j, "inserted"))
<1>1. Unlogged(j) = PlacedAt(pass, j, "counted") \cup PlacedAt(pass, j, "inserted")
  BY DEF Unlogged, PlacedAt
<1>2. PlacedAt(pass, j, "counted") \cap PlacedAt(pass, j, "inserted") = {}
  BY DEF PlacedAt
<1>3. Cardinality(PlacedAt(pass, j, "counted") \cup PlacedAt(pass, j, "inserted"))
        = Cardinality(PlacedAt(pass, j, "counted")) + Cardinality(PlacedAt(pass, j, "inserted"))
          - Cardinality(PlacedAt(pass, j, "counted") \cap PlacedAt(pass, j, "inserted"))
  BY PlacedFinite, FS_Union
<1>4. Cardinality(PlacedAt(pass, j, "counted") \cap PlacedAt(pass, j, "inserted")) = 0
  BY <1>2, FS_EmptySet
<1> QED
  BY <1>1, <1>3, <1>4, PlacedFinite

\* The rows that are logged.
LEMMA RowsLogged ==
  ASSUME Base, NEW j \in Jobs, NEW n \in Nat, Logged(j, n), mutations[j] =< MaxItemCreations
  PROVE  /\ \A k \in Jobs : k # j => mutations'[k] = mutations[k]
         /\ mutations'[j] \in Nat /\ mutations'[j] =< MaxItemCreations
         /\ mutations[j] =< mutations'[j]
         /\ n = 1 /\ mutations'[j] < MaxItemCreations => mutations'[j] = mutations[j] + 1
<1>1. mutations \in [Jobs -> Nat] /\ MaxItemCreations \in Nat /\ mutations[j] \in Nat
  BY BaseParts, LimitsAssumption DEF RestTypes
<1>2. PICK m : m = UpTo(MaxItemCreations, mutations[j] + n)
  OBVIOUS
<1>3. mutations' = [mutations EXCEPT ![j] = m]
  BY <1>2 DEF Logged
<1>4. mutations'[j] = m /\ \A k \in Jobs : k # j => mutations'[k] = mutations[k]
  BY <1>1, <1>3
<1>5. m \in Nat /\ m =< MaxItemCreations /\ mutations[j] =< m
      /\ (n = 1 /\ m < MaxItemCreations => m = mutations[j] + 1)
  BY <1>1, <1>2 DEF UpTo
<1> QED
  BY <1>4, <1>5

\* One item more goes unlogged.
LEMMA OneUnlogged ==
  ASSUME Base, NEW j \in Jobs, unlogged' = [unlogged EXCEPT ![j] = @ + 1]
  PROVE  unlogged'[j] = unlogged[j] + 1 /\ \A k \in Jobs : k # j => unlogged'[k] = unlogged[k]
<1>1. unlogged \in [Jobs -> Nat]
  BY BaseParts DEF RestTypes
<1> QED
  BY <1>1

\* The counts of the other jobs stay.
LEMMA HeldByOthers ==
  ASSUME ItemsAreLogged, NEW p \in Passes, Only(p),
         \A k \in Jobs : k # JobOf[p] =>
           /\ ItemsIn(tree', k) = ItemsIn(tree, k) /\ mutations'[k] = mutations[k]
           /\ unlogged'[k] = unlogged[k] /\ crowd'[k] = crowd[k],
         Held(Cardinality(ItemsIn(tree', JobOf[p])), mutations'[JobOf[p]], unlogged'[JobOf[p]],
              Cardinality(PlacedAt(pass', JobOf[p], "counted")),
              Cardinality(PlacedAt(pass', JobOf[p], "inserted")), crowd'[JobOf[p]])
  PROVE  ItemsAreLogged'
<1>1. CountsMove(pass, pass', p, "counted") /\ CountsMove(pass, pass', p, "inserted")
  BY PassMoves
<1>2. \A j : j # JobOf[p] => /\ PlacedAt(pass', j, "counted") = PlacedAt(pass, j, "counted")
                             /\ PlacedAt(pass', j, "inserted") = PlacedAt(pass, j, "inserted")
  BY <1>1 DEF CountsMove
<1>3. ASSUME NEW k \in Jobs, k # JobOf[p]
      PROVE  Held(Cardinality(ItemsIn(tree', k)), mutations'[k], unlogged'[k],
                  Cardinality(PlacedAt(pass', k, "counted")), Cardinality(PlacedAt(pass', k, "inserted")),
                  crowd'[k])
  BY <1>2, <1>3 DEF ItemsAreLogged
<1> QED
  BY <1>3 DEF ItemsAreLogged

\* The steps that store nothing leave the passes that store where they are.
LEMMA OffStore ==
  ASSUME Base, NEW p \in Passes, AgentStep(p)
  PROVE  \/ CountItems(p) \/ CreateItem(p) \/ LogItem(p) \/ StoringFails(p)
         \/ /\ pass[p].at \notin {"counted", "inserted"} /\ pass'[p].at \notin {"counted", "inserted"}
            /\ UNCHANGED <<unlogged, crowd, tree>>
            /\ mutations' = mutations \/ \E n \in Nat : Logged(JobOf[p], n)
<1>1. pass \in [Passes -> PassTypes] /\ JobOf[p] \in Jobs
  BY BaseParts, JobIs
<1>2. CASE ProcessDocument(p) \/ prepareDocumentMap(p) \/ CallTool(p)
  <2>1. UNCHANGED <<unlogged, crowd, tree, mutations>>
    BY <1>2 DEF ProcessDocument, prepareDocumentMap, CallTool, history
  <2> QED
    BY <1>1, <1>2, <2>1, ProcessDocumentDoes, PrepareDoes, CallToolDoes
<1>3. CASE FinalResponse(p) \/ AgentRunFails(p)
  <2>1. /\ pass[p].at = "think" /\ (Ends(p, "done") \/ Ends(p, "failed"))
        /\ UNCHANGED <<unlogged, crowd, tree, mutations>>
    BY <1>3 DEF FinalResponse, AgentRunFails, history, At
  <2> QED
    BY <1>1, <2>1, EndsDoes DEF Resting
<1>4. CASE Nudge(p) \/ ResumeFromCheckpoint(p) \/ EnterTool(p)
  <2>1. UNCHANGED <<unlogged, crowd, tree, mutations>>
    BY <1>4 DEF Nudge, ResumeFromCheckpoint, EnterTool, Before
  <2> QED
    BY <1>1, <1>4, <2>1, NudgeDoes, ResumeDoes, ResumedIs, EnterToolDoes
<1>5. CASE generate_brief(p)
  <2>1. UNCHANGED <<unlogged, crowd, tree, mutations>>
    BY <1>5 DEF generate_brief, history
  <2> QED
    BY <1>1, <1>5, <2>1, BriefDoes
<1>6. CASE PersistNothing(p)
  <2>1. UNCHANGED <<unlogged, crowd, tree, mutations>> /\ pass[p].at = "persist"
    BY <1>6 DEF PersistNothing, history, At
  <2>2. Return(p, Output("empty", JobOf[p], <<>>)) /\ Output("empty", JobOf[p], <<>>) \in Outputs
    BY <1>1, <1>6, OutputTypes DEF PersistNothing
  <2> QED
    BY <1>1, <2>1, <2>2, ReturnDoes
<1>7. CASE PersistRefused(p) \/ StartPersist(p)
  <2>1. UNCHANGED <<unlogged, crowd, tree, mutations>>
    BY <1>7 DEF PersistRefused, StartPersist, Reserve
  <2> QED
    BY <1>1, <1>7, <2>1, PersistRefusedDoes, StartDoes
<1>8. CASE MergeItem(p)
  <2>1. UNCHANGED <<unlogged, crowd, tree>> /\ Logged(JobOf[p], 1)
    BY <1>8 DEF MergeItem, history
  <2> QED
    BY <1>8, <2>1, MergeItemDoes
<1>9. CASE ItemRefused(p)
  <2>1. UNCHANGED <<unlogged, mutations>> /\ pass[p].at = "create"
    BY <1>9 DEF ItemRefused, Storing, At
  <2> QED
    BY <1>9, <2>1, StopDoes
<1>10. CASE RewriteLinks(p)
  <2>1. UNCHANGED <<unlogged, crowd, tree>>
    BY <1>10 DEF RewriteLinks, history
  <2>2. pass[p].at = "create"
    BY <1>10 DEF RewriteLinks, At
  <2>3. \E n \in Nat : Logged(JobOf[p], n)
    BY <1>1, <1>10, <2>2, LinksLogged, CallSorted DEF StoresNow
  <2> QED
    BY <1>1, <1>10, <2>1, <2>3, RewriteLinksDoes
<1>11. CASE AfterTool(p)
  <2>1. UNCHANGED <<unlogged, crowd, tree, mutations>> /\ pass[p].at = "after" /\ Answered(p)
    BY <1>11 DEF AfterTool, At
  <2> QED
    BY <1>1, <2>1, AnsweredDoes
<1> QED
  BY <1>2, <1>3, <1>4, <1>5, <1>6, <1>7, <1>8, <1>9, <1>10, <1>11 DEF AgentStep

\* Every step of a pass keeps the items logged.
LEMMA LoggedStep ==
  ASSUME Base, ItemsAreLogged, NEW p \in Passes, AgentStep(p)
  PROVE  ItemsAreLogged'
<1> DEFINE J == JobOf[p]
           items == Cardinality(ItemsIn(tree, J))
           counted == Cardinality(PlacedAt(pass, J, "counted"))
           inserted == Cardinality(PlacedAt(pass, J, "inserted"))
           counted2 == Cardinality(PlacedAt(pass', J, "counted"))
           inserted2 == Cardinality(PlacedAt(pass', J, "inserted"))
<1>1. Only(p) /\ J \in Jobs
  BY PlacesStep, JobIs
<1>2. /\ items \in Nat /\ mutations[J] \in Nat /\ unlogged[J] \in Nat /\ counted \in Nat
      /\ inserted \in Nat /\ crowd[J] \in Nat /\ MaxItemCreations \in Nat
  BY <1>1, CountsAre
<1>3. Held(items, mutations[J], unlogged[J], counted, inserted, crowd[J])
  BY <1>1 DEF ItemsAreLogged
<1>4. CountsMove(pass, pass', p, "counted") /\ CountsMove(pass, pass', p, "inserted")
  BY <1>1, PassMoves
<1>5. /\ (pass'[p].at = "counted") = (pass[p].at = "counted") => counted2 = counted
      /\ pass'[p].at = "counted" /\ pass[p].at # "counted" => counted2 = counted + 1
      /\ pass'[p].at # "counted" /\ pass[p].at = "counted" => counted = counted2 + 1
      /\ counted2 \in Nat
  BY <1>4 DEF CountsMove
<1>6. /\ (pass'[p].at = "inserted") = (pass[p].at = "inserted") => inserted2 = inserted
      /\ pass'[p].at = "inserted" /\ pass[p].at # "inserted" => inserted2 = inserted + 1
      /\ pass'[p].at # "inserted" /\ pass[p].at = "inserted" => inserted = inserted2 + 1
      /\ inserted2 \in Nat
  BY <1>4 DEF CountsMove
<1> HIDE DEF items, counted, inserted, counted2, inserted2
<1>7. ASSUME \A k \in Jobs : k # J => mutations'[k] = mutations[k] /\ unlogged'[k] = unlogged[k]
                                      /\ crowd'[k] = crowd[k],
             UNCHANGED tree,
             Held(items, mutations'[J], unlogged'[J], counted2, inserted2, crowd'[J])
      PROVE  ItemsAreLogged'
  BY <1>1, <1>7, HeldByOthers DEF items, counted2, inserted2
<1>8. ASSUME NEW n \in Nat, Logged(J, n)
      PROVE  /\ \A k \in Jobs : k # J => mutations'[k] = mutations[k]
             /\ mutations'[J] \in Nat /\ mutations'[J] =< MaxItemCreations
             /\ mutations[J] =< mutations'[J]
             /\ n = 1 /\ mutations'[J] < MaxItemCreations => mutations'[J] = mutations[J] + 1
  BY <1>1, <1>3, <1>8, RowsLogged DEF Held
<1>9. CASE CountItems(p)
  <2>1. pass[p].at = "create" /\ pass'[p].at = "counted" /\ UNCHANGED <<tree, mutations>>
    BY <1>9, CountItemsDoes DEF CountItems
  <2>2. counted2 = counted + 1 /\ inserted2 = inserted
    BY <1>5, <1>6, <2>1
  <2>3. PICK most : most = IF crowd[J] < Cardinality(Unlogged(J)) THEN Cardinality(Unlogged(J)) ELSE crowd[J]
    OBVIOUS
  <2>4. crowd' = [crowd EXCEPT ![J] = most]
    BY <1>9, <2>3 DEF CountItems
  <2>5. crowd'[J] = most /\ \A k \in Jobs : k # J => crowd'[k] = crowd[k]
    <3>1. crowd \in [Jobs -> Nat]
      BY BaseParts DEF RestTypes
    <3> QED
      BY <1>1, <2>4, <3>1
  <2>6. Cardinality(Unlogged(J)) = counted + inserted
    BY UnloggedAre DEF counted, inserted
  <2>7. most \in Nat /\ most >= counted + inserted /\ most >= crowd[J]
    BY <1>2, <2>3, <2>6
  <2>8. CASE ~Full(p) /\ UNCHANGED unlogged
    <3>1. mutations[J] < MaxItemCreations
      BY <1>2, <2>8 DEF Full
    <3>2. Held(items, mutations[J], unlogged[J], counted2, inserted2, most)
      BY <1>2, <1>3, <2>2, <2>7, <3>1 DEF Held
    <3> QED
      BY <1>7, <2>1, <2>5, <2>8, <3>2
  <2>9. CASE unlogged' = [unlogged EXCEPT ![J] = @ + 1]
    <3>1. unlogged'[J] = unlogged[J] + 1 /\ \A k \in Jobs : k # J => unlogged'[k] = unlogged[k]
      BY <1>1, <2>9, OneUnlogged
    <3>2. Held(items, mutations[J], unlogged[J] + 1, counted2, inserted2, most)
      BY <1>2, <1>3, <2>2, <2>7 DEF Held
    <3> QED
      BY <1>7, <2>1, <2>5, <3>1, <3>2
  <2> QED
    BY <1>9, <2>8, <2>9 DEF CountItems
<1>10. CASE CreateItem(p)
  <2>1. /\ pass[p].at = "counted" /\ pass'[p].at = "inserted" /\ pass[p].left # <<>>
        /\ tree' = Append(tree, TreeItem(p)) /\ UNCHANGED <<mutations, unlogged, crowd>>
    BY <1>10, CreateItemDoes DEF CreateItem, history
  <2>2. counted = counted2 + 1 /\ inserted2 = inserted + 1
    BY <1>5, <1>6, <2>1
  <2>3. TreeItem(p) \in TreeItems /\ TreeItem(p).job = J /\ tree \in Seq(TreeItems)
    BY <2>1, NextItemTypes, BaseParts DEF TreeItem
  <2>4. PICK i \in TreeItems : i = TreeItem(p)
    BY <2>3
  <2>5. /\ Cardinality(ItemsIn(tree', J)) = items + 1
        /\ \A k : k # J => ItemsIn(tree', k) = ItemsIn(tree, k)
    BY <2>1, <2>3, <2>4, OneItemMore DEF items
  <2>6. Held(items + 1, mutations[J], unlogged[J], counted2, inserted2, crowd[J])
    BY <1>2, <1>3, <1>5, <1>6, <2>2 DEF Held
  <2> QED
    BY <1>1, <2>1, <2>5, <2>6, HeldByOthers DEF counted2, inserted2
<1>11. CASE LogItem(p)
  <2>1. /\ pass[p].at = "inserted" /\ pass'[p].at = "create" /\ Logged(J, 1)
        /\ UNCHANGED <<tree, unlogged, crowd>>
    BY <1>11, LogItemDoes DEF LogItem, history
  <2>2. counted2 = counted /\ inserted = inserted2 + 1
    BY <1>5, <1>6, <2>1
  <2>3. Held(items, mutations'[J], unlogged[J], counted2, inserted2, crowd[J])
    BY <1>2, <1>3, <1>5, <1>6, <1>8, <2>1, <2>2 DEF Held
  <2> QED
    BY <1>7, <1>8, <2>1, <2>3
<1>12. CASE StoringFails(p)
  <2>1. pass'[p].at = "after" /\ UNCHANGED <<tree, crowd>>
    BY <1>12, StopDoes
  <2>2. counted2 =< counted /\ inserted2 =< inserted
    BY <1>2, <1>5, <1>6, <2>1
  <2>3. CASE /\ At(p, "counted") \/ (Storing(p) /\ NextItem(p).into # 0)
             /\ UNCHANGED <<mutations, unlogged>>
    <3>1. pass[p].at # "inserted"
      BY <2>3 DEF At, Storing
    <3>2. inserted2 = inserted
      BY <1>6, <2>1, <3>1
    <3>3. Held(items, mutations[J], unlogged[J], counted2, inserted2, crowd[J])
      BY <1>2, <1>3, <1>5, <2>2, <3>2 DEF Held
    <3> QED
      BY <1>7, <2>1, <2>3, <3>3
  <2>4. CASE /\ At(p, "inserted") /\ UNCHANGED mutations
             /\ unlogged' = [unlogged EXCEPT ![JobOf[p]] = @ + 1]
    <3>1. unlogged'[J] = unlogged[J] + 1 /\ \A k \in Jobs : k # J => unlogged'[k] = unlogged[k]
      BY <1>1, <2>4, OneUnlogged
    <3>2. inserted = inserted2 + 1
      BY <1>6, <2>1, <2>4 DEF At
    <3>3. Held(items, mutations[J], unlogged[J] + 1, counted2, inserted2, crowd[J])
      BY <1>2, <1>3, <1>5, <1>6, <2>2, <3>2 DEF Held
    <3> QED
      BY <1>7, <2>1, <2>4, <3>1, <3>3
  <2>5. CASE Logged(JobOf[p], 1) /\ UNCHANGED unlogged
    <3>1. inserted = inserted2 \/ inserted = inserted2 + 1
      BY <1>6, <2>1
    <3>2. Held(items, mutations'[J], unlogged[J], counted2, inserted2, crowd[J])
      BY <1>2, <1>3, <1>5, <1>6, <1>8, <2>2, <2>5, <3>1 DEF Held
    <3> QED
      BY <1>7, <1>8, <2>1, <2>5, <3>2
  <2> QED
    BY <1>12, <2>3, <2>4, <2>5 DEF StoringFails
<1>13. CASE /\ pass[p].at \notin {"counted", "inserted"} /\ pass'[p].at \notin {"counted", "inserted"}
            /\ UNCHANGED <<unlogged, crowd, tree>>
            /\ mutations' = mutations \/ \E n \in Nat : Logged(JobOf[p], n)
  <2>1. counted2 = counted /\ inserted2 = inserted
    BY <1>5, <1>6, <1>13
  <2>2. CASE mutations' = mutations
    BY <1>3, <1>7, <1>13, <2>1, <2>2
  <2>3. CASE \E n \in Nat : Logged(JobOf[p], n)
    <3>1. Held(items, mutations'[J], unlogged[J], counted2, inserted2, crowd[J])
      BY <1>2, <1>3, <1>8, <2>1, <2>3 DEF Held
    <3> QED
      BY <1>7, <1>8, <1>13, <2>3, <3>1
  <2> QED
    BY <1>13, <2>2, <2>3
<1> QED
  BY <1>9, <1>10, <1>11, <1>12, <1>13, OffStore

\* Every step keeps the items logged.
LEMMA CapStep ==
  ASSUME Base, ItemsAreLogged, [Next]_vars
  PROVE  ItemsAreLogged'
<1>1. pass \in [Passes -> PassTypes] /\ unlogged \in [Jobs -> Nat]
  BY BaseParts DEF RestTypes
<1>2. ASSUME NEW p \in Passes, BeginJob(p) PROVE ItemsAreLogged'
  <2>1. UNCHANGED <<tree, mutations, unlogged, crowd>>
    BY <1>2 DEF BeginJob, history
  <2>2. ASSUME NEW k \in Passes PROVE pass'[k].at = pass[k].at \/ (pass[k].at = "idle" /\ pass'[k].at = "begun")
    BY <1>1, <1>2, BeginJobDoes DEF GoesOn, Begins
  <2>3. ASSUME NEW j
        PROVE  /\ PlacedAt(pass', j, "counted") = PlacedAt(pass, j, "counted")
               /\ PlacedAt(pass', j, "inserted") = PlacedAt(pass, j, "inserted")
    BY <2>2 DEF PlacedAt
  <2> QED
    BY <2>1, <2>3 DEF ItemsAreLogged
<1>3. ASSUME NEW p \in Passes, BudgetAbort(p) PROVE ItemsAreLogged'
  <2> DEFINE J == JobOf[p]
             items == Cardinality(ItemsIn(tree, J))
             counted == Cardinality(PlacedAt(pass, J, "counted"))
             inserted == Cardinality(PlacedAt(pass, J, "inserted"))
             counted2 == Cardinality(PlacedAt(pass', J, "counted"))
             inserted2 == Cardinality(PlacedAt(pass', J, "inserted"))
  <2>1. /\ Ends(p, "interrupted") /\ UNCHANGED <<tree, mutations, crowd>>
        /\ unlogged' = IF At(p, "inserted") THEN [unlogged EXCEPT ![J] = @ + 1] ELSE unlogged
    BY <1>3 DEF BudgetAbort
  <2>2. Only(p) /\ pass'[p].at = "interrupted" /\ J \in Jobs
    BY <1>1, <2>1, EndsDoes, JobIs DEF Resting
  <2>3. /\ items \in Nat /\ mutations[J] \in Nat /\ unlogged[J] \in Nat /\ counted \in Nat
        /\ inserted \in Nat /\ crowd[J] \in Nat /\ MaxItemCreations \in Nat
    BY <2>2, CountsAre
  <2>4. Held(items, mutations[J], unlogged[J], counted, inserted, crowd[J])
    BY <2>2 DEF ItemsAreLogged
  <2>5. CountsMove(pass, pass', p, "counted") /\ CountsMove(pass, pass', p, "inserted")
    BY <2>2, PassMoves
  <2>6. counted2 \in Nat /\ (counted2 = counted \/ counted = counted2 + 1)
    BY <2>2, <2>5 DEF CountsMove
  <2>7. /\ inserted2 \in Nat
        /\ pass[p].at = "inserted" => inserted = inserted2 + 1
        /\ pass[p].at # "inserted" => inserted2 = inserted
    BY <2>2, <2>5 DEF CountsMove
  <2> HIDE DEF items, counted, inserted, counted2, inserted2
  <2>8. CASE At(p, "inserted")
    <3>1. unlogged'[J] = unlogged[J] + 1 /\ \A k \in Jobs : k # J => unlogged'[k] = unlogged[k]
      BY <2>1, <2>2, <2>8, OneUnlogged
    <3>2. inserted = inserted2 + 1
      BY <2>7, <2>8 DEF At
    <3>3. Held(items, mutations[J], unlogged[J] + 1, counted2, inserted2, crowd[J])
      BY <2>3, <2>4, <2>6, <2>7, <3>2 DEF Held
    <3> QED
      BY <2>1, <2>2, <3>1, <3>3, HeldByOthers DEF items, counted2, inserted2
  <2>9. CASE ~At(p, "inserted")
    <3>1. inserted2 = inserted /\ UNCHANGED unlogged
      BY <2>1, <2>7, <2>9 DEF At
    <3>2. Held(items, mutations[J], unlogged[J], counted2, inserted2, crowd[J])
      BY <2>3, <2>4, <2>6, <3>1 DEF Held
    <3> QED
      BY <2>1, <2>2, <3>1, <3>2, HeldByOthers DEF items, counted2, inserted2
  <2> QED
    BY <2>8, <2>9
<1>4. CASE Crash
  <2>1. UNCHANGED <<tree, mutations, crowd>>
    BY <1>4 DEF Crash
  <2>2. ASSUME NEW j \in Jobs
        PROVE  unlogged'[j] = unlogged[j] + Cardinality(PlacedAt(pass, j, "inserted"))
    <3>1. unlogged'[j] = unlogged[j] + Cardinality({q \in Unlogged(j) : At(q, "inserted")})
      BY <1>4 DEF Crash
    <3>2. {q \in Unlogged(j) : At(q, "inserted")} = PlacedAt(pass, j, "inserted")
      BY DEF Unlogged, At, PlacedAt
    <3> QED
      BY <3>1, <3>2
  <2>3. ASSUME NEW j
        PROVE  PlacedAt(pass', j, "counted") = {} /\ PlacedAt(pass', j, "inserted") = {}
    <3>1. \A k \in Passes : pass'[k].at \in Resting
      BY <1>1, <1>4, CrashDoes, EndedIs DEF Running, Resting
    <3> QED
      BY <3>1 DEF PlacedAt, Resting
  <2>4. ASSUME NEW j \in Jobs
        PROVE  Held(Cardinality(ItemsIn(tree', j)), mutations'[j], unlogged'[j],
                    Cardinality(PlacedAt(pass', j, "counted")), Cardinality(PlacedAt(pass', j, "inserted")),
                    crowd'[j])
    <3>1. /\ Cardinality(PlacedAt(pass', j, "counted")) = 0
          /\ Cardinality(PlacedAt(pass', j, "inserted")) = 0
      BY <2>3, FS_EmptySet
    <3>2. Held(Cardinality(ItemsIn(tree, j)), mutations[j], unlogged[j],
               Cardinality(PlacedAt(pass, j, "counted")), Cardinality(PlacedAt(pass, j, "inserted")), crowd[j])
      BY DEF ItemsAreLogged
    <3>3. Held(Cardinality(ItemsIn(tree, j)), mutations[j],
               unlogged[j] + Cardinality(PlacedAt(pass, j, "inserted")), 0, 0, crowd[j])
      BY <3>2, CountsAre DEF Held
    <3> QED
      BY <2>1, <2>2, <3>1, <3>3
  <2> QED
    BY <2>4 DEF ItemsAreLogged
<1>5. CASE UNCHANGED vars
  BY <1>5 DEF vars, history, ItemsAreLogged
<1> QED
  BY <1>2, <1>3, <1>4, <1>5, LoggedStep DEF Next

\* Over all its passes a job adds no more items to the tree than its capability allows:
\* one more for each whose log row or count failed, and for each other pass that was
\* between its count and its log row when a pass of the job counted. What a pass reads
\* in the log can lack only those rows, so a pass that finds room in it has room but
\* for the crowd.
THEOREM ItemsStayWithinCap == Spec => []ItemsWithinCap
<1>1. Init => ItemsAreLogged
  <2> SUFFICES ASSUME Init PROVE ItemsAreLogged
    OBVIOUS
  <2>1. ASSUME NEW j \in Jobs
        PROVE  /\ ItemsIn(tree, j) = {} /\ mutations[j] = 0 /\ unlogged[j] = 0 /\ crowd[j] = 0
               /\ PlacedAt(pass, j, "counted") = {} /\ PlacedAt(pass, j, "inserted") = {}
    BY DEF Init, ItemsIn, PlacedAt, NoPass
  <2>2. Cardinality({}) = 0 /\ MaxItemCreations \in Nat
    BY FS_EmptySet, LimitsAssumption
  <2>3. Held(0, 0, 0, 0, 0, 0)
    BY <2>2 DEF Held
  <2> QED
    BY <2>1, <2>2, <2>3 DEF ItemsAreLogged
<1>2. Base /\ ItemsAreLogged /\ [Next]_vars => (Base /\ ItemsAreLogged)'
  BY BaseStep, CapStep
<1>3. Base /\ ItemsAreLogged => ItemsWithinCap
  <2> SUFFICES ASSUME Base, ItemsAreLogged, NEW j \in Jobs
               PROVE  Cardinality(ItemsIn(tree, j)) =< MaxItemCreations + unlogged[j] + crowd[j]
    BY DEF ItemsWithinCap, ItemsIn
  <2>1. Held(Cardinality(ItemsIn(tree, j)), mutations[j], unlogged[j],
             Cardinality(PlacedAt(pass, j, "counted")), Cardinality(PlacedAt(pass, j, "inserted")), crowd[j])
    BY DEF ItemsAreLogged
  <2> QED
    BY <2>1, CountsAre DEF Held
<1> QED
  BY <1>1, <1>2, <1>3, InitBase, PTL DEF Spec

-----------------------------------------------------------------------------
(* Where a step leaves a pass.                                             *)

\* Which steps leave a pass where.
LEMMA PlacesAfter ==
  ASSUME Base, NEW p \in Passes, AgentStep(p)
  PROVE  /\ pass'[p].at = "create" => StartPersist(p) \/ LogItem(p) \/ MergeItem(p)
         /\ pass'[p].at = "counted" => CountItems(p)
         /\ pass'[p].at = "inserted" => CreateItem(p)
         /\ pass'[p].at \in {"brief", "persist"} => EnterTool(p)
         /\ pass'[p].at = "before" => CallTool(p)
         /\ pass'[p].at = "think" => prepareDocumentMap(p) \/ AfterTool(p)
         /\ pass'[p].at = "extract" => ProcessDocument(p)
         /\ pass'[p].at = "after" =>
              \/ Nudge(p) \/ ResumeFromCheckpoint(p) \/ generate_brief(p)
              \/ PersistNothing(p) \/ PersistRefused(p)
              \/ ItemRefused(p) \/ StoringFails(p) \/ RewriteLinks(p)
         /\ pass'[p].at # "begun"
<1>1. pass \in [Passes -> PassTypes] /\ JobOf[p] \in Jobs
  BY BaseParts, JobIs
<1>3. CASE ProcessDocument(p)
  BY <1>1, <1>3, ProcessDocumentDoes
<1>2. CASE prepareDocumentMap(p)
  BY <1>1, <1>2, PrepareDoes
<1>4. CASE CallTool(p)
  BY <1>1, <1>4, CallToolDoes
<1>5. CASE FinalResponse(p) \/ AgentRunFails(p)
  <2>1. PICK s \in Resting : Ends(p, s)
    BY <1>5 DEF FinalResponse, AgentRunFails, Resting
  <2> QED
    BY <1>1, <2>1, EndsDoes DEF Resting
<1>6. CASE EnterTool(p)
  BY <1>1, <1>6, EnterToolDoes
<1>7. CASE StartPersist(p)
  BY <1>7, StartDoes
<1>8. CASE CountItems(p)
  BY <1>8, CountItemsDoes
<1>17. CASE CreateItem(p)
  BY <1>17, CreateItemDoes
<1>18. CASE LogItem(p)
  BY <1>18, LogItemDoes
<1>19. CASE MergeItem(p)
  BY <1>19, MergeItemDoes
<1>9. CASE AfterTool(p)
  BY <1>1, <1>9, AnsweredDoes DEF AfterTool
<1>10. CASE Nudge(p)
  BY <1>1, <1>10, NudgeDoes
<1>11. CASE ResumeFromCheckpoint(p)
  BY <1>1, <1>11, ResumedIs, ResumeDoes
<1>12. CASE generate_brief(p)
  BY <1>1, <1>12, BriefDoes
<1>13. CASE PersistNothing(p)
  <2>1. Return(p, Output("empty", JobOf[p], <<>>)) /\ Output("empty", JobOf[p], <<>>) \in Outputs
    BY <1>1, <1>13, OutputTypes DEF PersistNothing
  <2> QED
    BY <1>1, <1>13, <2>1, ReturnDoes
<1>14. CASE PersistRefused(p)
  BY <1>1, <1>14, PersistRefusedDoes
<1>15. CASE ItemRefused(p) \/ StoringFails(p)
  BY <1>15, StopDoes
<1>16. CASE RewriteLinks(p)
  BY <1>1, <1>16, RewriteLinksDoes
<1> QED
  BY <1>2, <1>3, <1>4, <1>5, <1>6, <1>7, <1>8, <1>9, <1>10, <1>11, <1>12, <1>13, <1>14, <1>15,
     <1>16, <1>17, <1>18, <1>19 DEF AgentStep

\* At a tool, and between its hooks.
AtTool == {"brief", "persist", "create", "counted", "inserted"}

BetweenHooks == AtTool \cup {"after"}

\* A step of the tool itself, or its return, keeps the call; no tool answers a nudge.
LEMMA ToolStep ==
  ASSUME Base, NEW p \in Passes, AgentStep(p), ~EnterTool(p), ~Nudge(p), ~ResumeFromCheckpoint(p),
         pass'[p].at \in BetweenHooks
  PROVE  /\ pass[p].at \in AtTool
         /\ SameCall(pass[p], pass'[p])
         /\ pass'[p].at = "after" => pass'[p].outputs.kind # "nudge"
         /\ pass'[p].at \notin {"brief", "persist"}
<1>1. pass \in [Passes -> PassTypes] /\ JobOf[p] \in Jobs
  BY BaseParts, JobIs
<1>3. CASE generate_brief(p)
  <2>1. /\ pass[p].at = "brief" /\ pass'[p].at = "after" /\ SameCall(pass[p], pass'[p])
        /\ pass'[p].outputs = Output("brief", JobOf[p], <<>>)
    BY <1>1, <1>3, BriefDoes
  <2>2. pass'[p].outputs.kind = "brief"
    BY <1>1, <2>1, OutputTypes
  <2> QED
    BY <2>1, <2>2 DEF AtTool
<1>4. CASE PersistNothing(p)
  <2>1. /\ Return(p, Output("empty", JobOf[p], <<>>)) /\ Output("empty", JobOf[p], <<>>) \in Outputs
        /\ Output("empty", JobOf[p], <<>>).kind = "empty" /\ pass[p].at = "persist"
    BY <1>1, <1>4, OutputTypes DEF PersistNothing, At
  <2> QED
    BY <1>1, <2>1, ReturnDoes DEF AtTool
<1>5. CASE PersistRefused(p)
  BY <1>1, <1>5, PersistRefusedDoes DEF AtTool
<1>6. CASE StartPersist(p)
  BY <1>6, StartDoes DEF AtTool
<1>7. CASE CountItems(p)
  BY <1>7, CountItemsDoes DEF AtTool
<1>10. CASE CreateItem(p)
  BY <1>10, CreateItemDoes DEF AtTool
<1>11. CASE LogItem(p)
  BY <1>11, LogItemDoes DEF AtTool
<1>12. CASE MergeItem(p)
  BY <1>12, MergeItemDoes DEF AtTool
<1>8. CASE ItemRefused(p) \/ StoringFails(p)
  BY <1>8, StopDoes DEF AtTool, StoresNow
<1>9. CASE RewriteLinks(p)
  BY <1>1, <1>9, RewriteLinksDoes DEF AtTool
<1> QED
  BY <1>3, <1>4, <1>5, <1>6, <1>7, <1>8, <1>9, <1>10, <1>11, <1>12, PlacesAfter DEF BetweenHooks, AtTool

\* The other steps change nothing that is stored; a pass they end that leaves items
\* behind is remembered.
LEMMA OtherSteps ==
  ASSUME Base, [Next]_vars, \A p \in Passes : ~AgentStep(p)
  PROVE  /\ UNCHANGED <<checkpoints, tree, mixed, raced, misrooted>>
         /\ unsealed \subseteq unsealed'
         /\ \A k \in Passes :
              \/ /\ pass'[k].at = pass[k].at /\ pass'[k].outputs = pass[k].outputs
                 /\ pass'[k].resumed = pass[k].resumed
                 /\ SameCall(pass[k], pass'[k]) /\ SameTool(pass[k], pass'[k])
              \/ /\ pass'[k].at \in Resting \cup {"begun"}
                 /\ LeavesItems(k) => JobOf[k] \in unsealed'
<1>1. pass \in [Passes -> PassTypes]
  BY BaseParts
<1>2. ASSUME NEW p \in Passes, BeginJob(p)
      PROVE  \A k \in Passes :
              \/ /\ pass'[k].at = pass[k].at /\ pass'[k].outputs = pass[k].outputs
                 /\ pass'[k].resumed = pass[k].resumed
                 /\ SameCall(pass[k], pass'[k]) /\ SameTool(pass[k], pass'[k])
              \/ /\ pass'[k].at \in Resting \cup {"begun"}
                 /\ LeavesItems(k) => JobOf[k] \in unsealed'
  <2>1. ~LeavesItems(p)
    BY <1>1, <1>2, BeginJobDoes DEF LeavesItems, At, Persisting
  <2> QED
    BY <1>1, <1>2, <2>1, BeginJobDoes DEF GoesOn, Begins
<1>3. ASSUME NEW p \in Passes, BudgetAbort(p)
      PROVE  \A k \in Passes :
              \/ /\ pass'[k].at = pass[k].at /\ pass'[k].outputs = pass[k].outputs
                 /\ pass'[k].resumed = pass[k].resumed
                 /\ SameCall(pass[k], pass'[k]) /\ SameTool(pass[k], pass'[k])
              \/ /\ pass'[k].at \in Resting \cup {"begun"}
                 /\ LeavesItems(k) => JobOf[k] \in unsealed'
  <2>1. Only(p) /\ pass'[p].at \in Resting
    BY <1>1, <1>3, EndsDoes DEF BudgetAbort, Resting
  <2>2. LeavesItems(p) => JobOf[p] \in unsealed'
    BY <1>3 DEF BudgetAbort
  <2> QED
    BY <2>1, <2>2 DEF Only, SameCall, SameTool
<1>4. ASSUME Crash
      PROVE  \A k \in Passes :
              \/ /\ pass'[k].at = pass[k].at /\ pass'[k].outputs = pass[k].outputs
                 /\ pass'[k].resumed = pass[k].resumed
                 /\ SameCall(pass[k], pass'[k]) /\ SameTool(pass[k], pass'[k])
              \/ /\ pass'[k].at \in Resting \cup {"begun"}
                 /\ LeavesItems(k) => JobOf[k] \in unsealed'
  <2>1. \A k \in Passes : LeavesItems(k) => JobOf[k] \in unsealed'
    BY <1>4 DEF Crash
  <2>2. \A k \in Passes : pass'[k] = pass[k] \/ pass'[k].at = "interrupted"
    BY <1>1, <1>4, CrashDoes, EndedIs
  <2> QED
    BY <2>1, <2>2 DEF SameCall, SameTool, Resting
<1>5. CASE \E p \in Passes : BeginJob(p) \/ BudgetAbort(p)
  BY <1>2, <1>3, <1>5, OthersKept
<1>6. CASE Crash
  <2>1. UNCHANGED <<checkpoints, tree, mixed, raced, misrooted>> /\ unsealed \subseteq unsealed'
    BY <1>6 DEF Crash
  <2> QED
    BY <1>4, <1>6, <2>1
<1>7. CASE UNCHANGED vars
  BY <1>7 DEF vars, history, SameCall, SameTool
<1> QED
  BY <1>5, <1>6, <1>7 DEF Next

\* What is remembered of a job is not forgotten.
LEMMA Remembered ==
  ASSUME Base, [Next]_vars
  PROVE  unsealed \subseteq unsealed' /\ mixed \subseteq mixed' /\ raced \subseteq raced'
<1>1. CASE \E p \in Passes : AgentStep(p)
  BY <1>1, UnsealedGrows, MixedKept, MixedByHooks, RacedKept
<1>2. CASE \A p \in Passes : ~AgentStep(p)
  BY <1>2, OtherSteps
<1> QED
  BY <1>1, <1>2

-----------------------------------------------------------------------------
(* Which pass of a job is in a stage.                                      *)

\* One at a time, for a job whose passes have not raced for a stage.
StageOfOne ==
  \A p, q \in Passes : p # q /\ JobOf[p] = JobOf[q] /\ JobOf[p] \notin raced =>
    ~(/\ pass[p].at \in BetweenHooks /\ pass[q].at \in BetweenHooks
      /\ checkpointKey(pass[p].call) = checkpointKey(pass[q].call))

\* A pass that comes to be between its hooks was there, with the same call, or its hook
\* has seen that no other is there.
LEMMA EntersAlone ==
  ASSUME Base, NEW p \in Passes, AgentStep(p), pass'[p].at \in BetweenHooks, JobOf[p] \notin raced',
         NEW q \in Passes, q # p, JobOf[q] = JobOf[p], pass[q].at \in BetweenHooks,
         checkpointKey(pass'[p].call) = checkpointKey(pass[q].call)
  PROVE  pass[p].at \in BetweenHooks /\ pass'[p].call = pass[p].call
<1>1. pass \in [Passes -> PassTypes]
  BY BaseParts
<1>2. CASE Before(p)
  <2>1. raced' = raced \cup Races(p)
    BY <1>2 DEF Before
  <2>2. EnterTool(p) \/ Nudge(p) \/ ResumeFromCheckpoint(p)
    <3>1. pass[p].at = "before"
      BY <1>2 DEF Before, At
    <3> QED
      BY <3>1, ToolStep DEF AtTool
  <2>3. pass'[p].call = pass[p].call
    BY <1>1, <2>2, EnterToolDoes, NudgeDoes, ResumeDoes, ResumedIs DEF SameCall
  <2>4. InStage(q, checkpointKey(pass[p].call))
    BY <2>3 DEF InStage, BetweenHooks, AtTool
  <2>5. JobOf[q] \in Races(p)
    BY <2>4 DEF Races
  <2> QED
    BY <2>1, <2>5
<1>3. CASE ~Before(p)
  <2>1. ~EnterTool(p) /\ ~Nudge(p) /\ ~ResumeFromCheckpoint(p)
    BY <1>3 DEF EnterTool, Nudge, ResumeFromCheckpoint
  <2> QED
    BY <2>1, ToolStep DEF BetweenHooks, SameCall
<1> QED
  BY <1>2, <1>3

\* The passes stay alone in their stages.
LEMMA StageOfOneStep ==
  ASSUME Base, StageOfOne, [Next]_vars
  PROVE  StageOfOne'
<1> SUFFICES ASSUME NEW p \in Passes, NEW q \in Passes, p # q, JobOf[p] = JobOf[q], JobOf[p] \notin raced',
                    pass'[p].at \in BetweenHooks, pass'[q].at \in BetweenHooks,
                    checkpointKey(pass'[p].call) = checkpointKey(pass'[q].call)
             PROVE  FALSE
  BY DEF StageOfOne
<1>1. JobOf[p] \notin raced
  BY Remembered
<1>2. ASSUME NEW k \in Passes, AgentStep(k) PROVE FALSE
  <2>1. \A h \in Passes : h # k => pass'[h] = pass[h]
    BY <1>2, PlacesStep DEF Only
  <2>2. CASE k = p
    <3>1. pass'[q] = pass[q]
      BY <2>1, <2>2
    <3>2. pass[p].at \in BetweenHooks /\ pass'[p].call = pass[p].call
      BY <1>2, <2>2, <3>1, EntersAlone
    <3> QED
      BY <1>1, <3>1, <3>2 DEF StageOfOne
  <2>3. CASE k = q
    <3>1. pass'[p] = pass[p]
      BY <2>1, <2>3
    <3>2. pass[q].at \in BetweenHooks /\ pass'[q].call = pass[q].call
      BY <1>2, <2>3, <3>1, EntersAlone
    <3> QED
      BY <1>1, <3>1, <3>2 DEF StageOfOne
  <2>4. CASE k # p /\ k # q
    BY <1>1, <2>1, <2>4 DEF StageOfOne
  <2> QED
    BY <2>2, <2>3, <2>4
<1>3. CASE \A k \in Passes : ~AgentStep(k)
  <2>1. \A k \in Passes : pass'[k].at \in BetweenHooks => pass[k].at = pass'[k].at /\ pass[k].call = pass'[k].call
    BY <1>3, OtherSteps DEF SameCall, Resting, BetweenHooks, AtTool
  <2> QED
    BY <1>1, <2>1 DEF StageOfOne
<1> QED
  BY <1>2, <1>3

-----------------------------------------------------------------------------
(* What is filed under a job's own name.                                   *)

\* A checkpoint of a job whose hooks kept to themselves names its document.
NamesItsDocument ==
  \A j \in Jobs \ mixed : \A s \in Stages :
    checkpoints[j][s] # NoCheckpoint => checkpoints[j][s].doc = j

\* Only the hook after a tool of the job changes the checkpoint of the call's stage.
LEMMA FiledByOwnHook ==
  ASSUME Base, NEW p \in Passes, AgentStep(p), NEW k \in Jobs, k \notin mixed', NEW s \in Stages,
         checkpoints'[k][s] # checkpoints[k][s]
  PROVE  /\ AfterTool(p) /\ k = JobOf[p] /\ s = checkpointKey(pass[p].call)
         /\ Checkpointed(pass[p].outputs)
         /\ checkpoints'[k][s].doc = JobOf[p] /\ checkpoints'[k][s].outputs = pass[p].outputs
<1>2. checkpoints \in [Jobs -> [Stages -> Envelopes]]
  BY BaseParts DEF RestTypes
<1>3. AfterTool(p)
  BY CheckpointsKept
<1>4. /\ checkpoints' = [checkpoints EXCEPT ![currentJobID][checkpointKey(pass[p].call)] =
                          Envelope(pass[p].outputs)]
      /\ Checkpointed(pass[p].outputs)
  BY <1>3 DEF AfterTool
<1>5. PICK e : e = Envelope(pass[p].outputs)
  OBVIOUS
<1>6. k = currentJobID /\ s = checkpointKey(pass[p].call) /\ checkpoints'[k][s] = e
  BY <1>2, <1>4, <1>5
<1>7. mixed' = mixed \cup Confuses(p)
  BY <1>3 DEF AfterTool
<1>8. k = JobOf[p] /\ job = JobOf[p]
  BY <1>6, <1>7, HookOfOne
<1>9. e.doc = JobOf[p] /\ e.outputs = pass[p].outputs
  BY <1>5, <1>8 DEF Envelope
<1> QED
  BY <1>3, <1>4, <1>6, <1>8, <1>9

\* What the hook after a tool does, when it keeps to its own job.
LEMMA OwnHookFiles ==
  ASSUME Base, NEW p \in Passes, AfterTool(p), JobOf[p] \notin mixed',
         NEW s, s = checkpointKey(pass[p].call), NEW o, o = pass[p].outputs
  PROVE  /\ pass[p].at = "after"
         /\ \/ /\ Checkpointed(o)
               /\ checkpoints'[JobOf[p]][s].doc = JobOf[p] /\ checkpoints'[JobOf[p]][s].outputs = o
            \/ /\ checkpoints' = checkpoints
               /\ o.kind = "saved" => JobOf[p] \in unsealed'
<1>1. JobOf[p] \in Jobs
  BY JobIs
<1>2. checkpoints \in [Jobs -> [Stages -> Envelopes]] /\ s \in Stages
  BY BaseParts, StageOf DEF RestTypes
<1>3. currentJobID = JobOf[p] /\ job = JobOf[p]
  BY <1>1, HookOfOne DEF AfterTool
<1>4. CASE ~Checkpointed(o)
  <2>1. o.kind # "saved"
    BY <1>4 DEF Checkpointed
  <2> QED
    BY <1>4, <2>1 DEF AfterTool, At
<1>5. CASE Checkpointed(o) /\ checkpoints' = [checkpoints EXCEPT ![currentJobID][s] = Envelope(o)]
  <2>1. PICK e : e = Envelope(o)
    OBVIOUS
  <2>2. e.doc = JobOf[p] /\ e.outputs = o
    BY <1>3, <2>1 DEF Envelope
  <2>3. checkpoints'[JobOf[p]][s] = e
    BY <1>1, <1>2, <1>3, <1>5, <2>1
  <2> QED
    BY <1>5, <2>2, <2>3 DEF AfterTool, At
<1>6. CASE /\ checkpoints' = checkpoints
           /\ unsealed' = IF o.kind = "saved" THEN unsealed \cup {JobOf[p]} ELSE unsealed
  BY <1>6 DEF AfterTool, At
<1> QED
  BY <1>4, <1>5, <1>6 DEF AfterTool

\* The checkpoints go on naming their documents.
LEMMA NamesItsDocumentStep ==
  ASSUME Base, NamesItsDocument, [Next]_vars
  PROVE  NamesItsDocument'
<1>1. CASE \E p \in Passes : AgentStep(p)
  <2>1. PICK p \in Passes : AgentStep(p)
    BY <1>1
  <2>2. mixed \subseteq mixed'
    BY Remembered
  <2>3. ASSUME NEW k \in Jobs, k \notin mixed', NEW s \in Stages, checkpoints'[k][s] # NoCheckpoint
        PROVE  checkpoints'[k][s].doc = k
    <3>1. CASE checkpoints'[k][s] = checkpoints[k][s]
      BY <2>2, <2>3, <3>1 DEF NamesItsDocument
    <3>2. CASE checkpoints'[k][s] # checkpoints[k][s]
      BY <2>1, <2>3, <3>2, FiledByOwnHook
    <3> QED
      BY <3>1, <3>2
  <2> QED
    BY <2>3 DEF NamesItsDocument
<1>2. CASE \A p \in Passes : ~AgentStep(p)
  BY <1>2, OtherSteps DEF NamesItsDocument
<1> QED
  BY <1>1, <1>2

\* A tool that is entered without a fault has no checkpoint of its stage.
LEMMA NotYetFiled ==
  ASSUME Base, NamesItsDocument, NEW p \in Passes, EnterTool(p),
         JobOf[p] \notin unsealed', JobOf[p] \notin mixed'
  PROVE  checkpoints[JobOf[p]][checkpointKey(pass[p].call)] = NoCheckpoint
<1>1. currentJobID = JobOf[p] /\ job = JobOf[p] /\ JobOf[p] \notin mixed /\ JobOf[p] \in Jobs
  BY HookOfOne, JobIs DEF EnterTool, Before
<1>2. ~Resumable(p)
  BY DEF EnterTool
<1>3. checkpointKey(pass[p].call) \in Stages
  BY StageOf
<1> QED
  BY <1>1, <1>2, <1>3 DEF Resumable, NamesItsDocument

-----------------------------------------------------------------------------
(* The first answer of a stage.                                            *)

\* A job nothing went wrong with: its first answers stand.
Sound(j) == j \notin unsealed \cup mixed \cup raced

Filed(p) == checkpoints[JobOf[p]][checkpointKey(pass[p].call)]

\* While a tool runs its stage is not answered, and what it is then answered differs
\* from the checkpoint of the stage only when it is a nudge or an error.
Settled(p) ==
  /\ pass[p].at \in AtTool => Filed(p) = NoCheckpoint
  /\ pass[p].at = "after" /\ pass[p].outputs.kind \notin {"nudge", "error"}
     => Filed(p) = NoCheckpoint \/ Filed(p).outputs = pass[p].outputs

AnswersSettled == \A p \in Passes : Sound(JobOf[p]) => Settled(p)

\* A step of its own settles what a pass answers.
LEMMA SettledByOwnStep ==
  ASSUME Base, NamesItsDocument, AnswersSettled, NEW p \in Passes, AgentStep(p),
         Sound(JobOf[p])'
  PROVE  Settled(p)'
<1>1. pass \in [Passes -> PassTypes] /\ RestTypes
  BY BaseParts
<1>2. /\ JobOf[p] \notin unsealed' /\ JobOf[p] \notin mixed' /\ JobOf[p] \notin raced'
      /\ JobOf[p] \notin unsealed /\ JobOf[p] \notin mixed
  BY Remembered DEF Sound, Next
<1>3. Sound(JobOf[p])
  BY <1>2, Remembered DEF Sound, Next
<1>4. Settled(p)
  BY <1>3 DEF AnswersSettled
<1>5. CASE pass'[p].at \notin BetweenHooks
  BY <1>5 DEF Settled, BetweenHooks, AtTool
<1>6. CASE EnterTool(p)
  <2>1. checkpoints[JobOf[p]][checkpointKey(pass[p].call)] = NoCheckpoint /\ checkpoints' = checkpoints
    BY <1>2, <1>6, NotYetFiled DEF EnterTool, Before
  <2>2. pass'[p].call = pass[p].call /\ pass'[p].at \in {"brief", "persist"}
    BY <1>1, <1>6, EnterToolDoes DEF SameCall
  <2> QED
    BY <2>1, <2>2 DEF Settled, Filed
<1>7. CASE ~EnterTool(p) /\ ~Nudge(p) /\ ~ResumeFromCheckpoint(p) /\ pass'[p].at \in BetweenHooks
  <2>1. /\ pass[p].at \in AtTool
        /\ pass'[p].call = pass[p].call
    BY <1>7, ToolStep DEF SameCall
  <2>2. checkpoints' = checkpoints
    <3>1. ~AfterTool(p)
      BY <2>1 DEF AfterTool, At, AtTool
    <3> QED
      BY <3>1, CheckpointsKept
  <2>3. Filed(p) = NoCheckpoint
    BY <1>4, <2>1 DEF Settled
  <2> QED
    BY <2>1, <2>2, <2>3 DEF Settled, Filed
<1>8. CASE Nudge(p)
  <2>1. pass'[p].outputs = Output("nudge", JobOf[p], <<>>) /\ pass'[p].at = "after"
    BY <1>1, <1>8, NudgeDoes
  <2>2. pass'[p].outputs.kind = "nudge"
    BY <2>1, OutputTypes, JobIs
  <2> QED
    BY <2>1, <2>2 DEF Settled, AtTool
<1>9. CASE ResumeFromCheckpoint(p)
  <2>1. checkpoints[currentJobID][checkpointKey(pass[p].call)].outputs \in Outputs
    BY <1>9, ResumedIs DEF Answers
  <2>2. /\ pass'[p].outputs = checkpoints[currentJobID][checkpointKey(pass[p].call)].outputs
        /\ pass'[p].call = pass[p].call /\ pass'[p].at = "after"
    BY <1>1, <1>9, <2>1, ResumeDoes DEF SameCall
  <2>3. currentJobID = JobOf[p] /\ checkpoints' = checkpoints
    BY <1>2, <1>9, JobIs, HookOfOne DEF ResumeFromCheckpoint, Before
  <2> QED
    BY <2>2, <2>3 DEF Settled, Filed, AtTool
<1> QED
  BY <1>5, <1>6, <1>7, <1>8, <1>9

\* The answers stay settled.
LEMMA SettledStep ==
  ASSUME Base, NamesItsDocument, StageOfOne, AnswersSettled, [Next]_vars
  PROVE  AnswersSettled'
<1> SUFFICES ASSUME NEW k \in Passes, Sound(JobOf[k])'
             PROVE  Settled(k)'
  BY DEF AnswersSettled
<1>1. Sound(JobOf[k])
  BY Remembered DEF Sound
<1>2. Settled(k)
  BY <1>1 DEF AnswersSettled
<1>3. ASSUME NEW p \in Passes, AgentStep(p)
      PROVE  Settled(k)'
  <2>1. CASE k = p
    BY <1>3, <2>1, SettledByOwnStep
  <2>2. CASE k # p
    <3>1. pass'[k] = pass[k]
      BY <1>3, <2>2, PlacesStep DEF Only
    <3>2. CASE pass[k].at \notin BetweenHooks
      BY <3>1, <3>2 DEF Settled, BetweenHooks
    <3>3. CASE pass[k].at \in BetweenHooks /\ Filed(k)' = Filed(k)
      BY <1>2, <3>1, <3>3 DEF Settled
    <3>4. CASE pass[k].at \in BetweenHooks /\ Filed(k)' # Filed(k)
      <4>1. checkpointKey(pass[k].call) \in Stages /\ JobOf[k] \in Jobs
        BY StageOf, JobIs
      <4>2. JobOf[k] \notin mixed'
        BY DEF Sound
      <4>3. checkpoints'[JobOf[k]][checkpointKey(pass[k].call)]
              # checkpoints[JobOf[k]][checkpointKey(pass[k].call)]
        BY <3>1, <3>4 DEF Filed
      <4>4. /\ AfterTool(p) /\ JobOf[k] = JobOf[p]
            /\ checkpointKey(pass[k].call) = checkpointKey(pass[p].call)
        BY <1>3, <4>1, <4>2, <4>3, FiledByOwnHook
      <4>5. pass[p].at \in BetweenHooks
        BY <4>4 DEF AfterTool, At, BetweenHooks
      <4> QED
        BY <1>1, <2>2, <3>4, <4>4, <4>5 DEF StageOfOne, Sound
    <3> QED
      BY <3>2, <3>3, <3>4
  <2> QED
    BY <2>1, <2>2
<1>4. CASE \A p \in Passes : ~AgentStep(p)
  <2>1. /\ checkpoints' = checkpoints
        /\ \/ /\ pass'[k].at = pass[k].at /\ pass'[k].outputs = pass[k].outputs
              /\ SameCall(pass[k], pass'[k])
           \/ pass'[k].at \in Resting \cup {"begun"}
    BY <1>4, OtherSteps
  <2> QED
    BY <1>2, <2>1 DEF Settled, SameCall, Resting, Filed, AtTool
<1> QED
  BY <1>3, <1>4

\* A stage's checkpoint, once written, is replaced only by a nudge, after a read that
\* failed, by hooks that were mixed, or when two passes of the job, which nothing keeps
\* apart, were in the stage at the same time.
THEOREM StageAnswersStand == Spec => FirstAnswerStands
<1>1. Init => NamesItsDocument /\ StageOfOne /\ AnswersSettled
  <2> SUFFICES ASSUME Init PROVE NamesItsDocument /\ StageOfOne /\ AnswersSettled
    OBVIOUS
  <2>1. \A p \in Passes : pass[p].at = "idle"
    BY DEF Init, NoPass
  <2>2. StageOfOne /\ AnswersSettled
    BY <2>1 DEF StageOfOne, AnswersSettled, Settled, BetweenHooks, AtTool
  <2>3. NamesItsDocument
    BY DEF Init, NamesItsDocument
  <2> QED
    BY <2>2, <2>3
<1>2. Base /\ NamesItsDocument /\ StageOfOne /\ AnswersSettled /\ [Next]_vars
      => (Base /\ NamesItsDocument /\ StageOfOne /\ AnswersSettled)'
  BY BaseStep, NamesItsDocumentStep, StageOfOneStep, SettledStep
<1>3. Base /\ NamesItsDocument /\ StageOfOne /\ AnswersSettled /\ [Next]_vars
      => [\A j \in Jobs, s \in Stages :
            checkpoints[j][s] # NoCheckpoint /\ checkpoints'[j][s] # checkpoints[j][s]
            => \/ checkpoints'[j][s].outputs.kind = "nudge"
               \/ j \in unsealed' \cup mixed' \cup raced']_vars
  <2> SUFFICES ASSUME Base, NamesItsDocument, AnswersSettled, [Next]_vars,
                      NEW k \in Jobs, NEW s \in Stages,
                      checkpoints[k][s] # NoCheckpoint, checkpoints'[k][s] # checkpoints[k][s],
                      checkpoints'[k][s].outputs.kind # "nudge",
                      k \notin unsealed' \cup mixed' \cup raced'
               PROVE  FALSE
    OBVIOUS
  <2>1. PICK p \in Passes : AgentStep(p)
    BY OtherSteps
  <2>2. /\ AfterTool(p) /\ k = JobOf[p] /\ s = checkpointKey(pass[p].call)
        /\ Checkpointed(pass[p].outputs)
        /\ checkpoints'[k][s].doc = k /\ checkpoints'[k][s].outputs = pass[p].outputs
    BY <2>1, FiledByOwnHook
  <2>3. Sound(k)
    BY Remembered DEF Sound
  <2>4. Settled(p) /\ pass[p].at = "after" /\ pass[p].outputs.kind \notin {"nudge", "error"}
    BY <2>2, <2>3 DEF AnswersSettled, AfterTool, At, Checkpointed
  <2>5. checkpoints[k][s].outputs = pass[p].outputs /\ checkpoints[k][s].doc = k
    BY <2>2, <2>3, <2>4 DEF Settled, Filed, NamesItsDocument, Sound
  <2>6. checkpoints[k][s] \in Envelopes /\ checkpoints'[k][s] \in Envelopes
    <3>1. checkpoints \in [Jobs -> [Stages -> Envelopes]]
      BY BaseParts DEF RestTypes
    <3>2. Base'
      BY BaseStep
    <3>3. (checkpoints \in [Jobs -> [Stages -> Envelopes]])'
      BY <3>2, BaseParts, PTL DEF RestTypes
    <3> QED
      BY <3>1, <3>3
  <2>7. checkpoints[k][s] = checkpoints'[k][s]
    BY <2>2, <2>5, <2>6 DEF Envelopes
  <2> QED
    BY <2>7
<1> QED
  BY <1>1, <1>2, <1>3, InitBase, PTL DEF Spec, FirstAnswerStands

-----------------------------------------------------------------------------
(* When a pass is nudged.                                                  *)

\* The last m calls of r are one call made again.
Run(r, m) == m =< Len(r) /\ \A n \in Len(r) - m + 1..Len(r) : r[n] = r[Len(r)]

\* All that is remembered is c, repeatThreshold times.
AllOf(r, c) == Len(r) = repeatThreshold /\ \A n \in DOMAIN r : r[n] = c

\* The last calls with one more.
Pushed(r, c) == IF Len(Append(r, c)) > repeatThreshold THEN Tail(Append(r, c)) ELSE Append(r, c)

\* The guard g knows what the calls r, and the calls S that p was stuck on, say.
Follows(p, g, r, S) ==
  /\ Len(r) =< repeatThreshold
  /\ r # <<>> => g.lastKey = callKey(JobOf[p], r[Len(r)])
  /\ \A m \in 1..repeatThreshold : g.streak >= m <=> Run(r, m)
  /\ g.streak =< repeatThreshold + 1
  /\ \A c \in AllCalls : callKey(JobOf[p], c) \in g.nudged <=> c \in S

\* A key is of one call.
LEMMA KeyOfCall ==
  \A p \in Passes : \A c, d \in AllCalls : callKey(JobOf[p], c) = callKey(JobOf[p], d) <=> c = d
BY DEF callKey

\* q is r and c after it, without the oldest when it would be too long.
Extends(q, r, c) ==
  /\ q \in Seq(AllCalls) /\ Len(q) =< repeatThreshold /\ Len(q) >= 1
  /\ q[Len(q)] = c
  /\ \E d \in {0, 1} : /\ Len(q) = Len(r) + 1 - d
                       /\ d = 1 => Len(r) = repeatThreshold
                       /\ \A n \in 1..Len(q) - 1 : q[n] = r[n + d]

\* What is remembered with one call more.
LEMMA PushedIs ==
  ASSUME NEW r \in Seq(AllCalls), Len(r) =< repeatThreshold, NEW c \in AllCalls,
         NEW q, q = Pushed(r, c)
  PROVE  Extends(q, r, c)
<1>1. repeatThreshold \in Nat /\ repeatThreshold >= 1
  BY LimitsAssumption
<1>2. PICK a : a = Append(r, c)
  OBVIOUS
<1>3. /\ a \in Seq(AllCalls) /\ Len(a) = Len(r) + 1 /\ Len(r) \in Nat
      /\ a[Len(r) + 1] = c /\ \A n \in 1..Len(r) : a[n] = r[n]
  BY <1>2
<1>4. CASE Len(a) > repeatThreshold
  <2>1. q = Tail(a) /\ Len(r) = repeatThreshold
    BY <1>1, <1>2, <1>3, <1>4 DEF Pushed
  <2>2. q \in Seq(AllCalls) /\ Len(q) = Len(r) /\ \A n \in 1..Len(r) : q[n] = a[n + 1]
    BY <1>1, <1>3, <2>1
  <2>3. q[Len(q)] = c /\ \A n \in 1..Len(q) - 1 : q[n] = r[n + 1]
    BY <1>1, <1>3, <2>1, <2>2
  <2>4. Len(q) = Len(r) + 1 - 1
    BY <1>3, <2>2
  <2> QED
    BY <1>1, <2>1, <2>2, <2>3, <2>4 DEF Extends
<1>5. CASE ~(Len(a) > repeatThreshold)
  <2>1. q = a
    BY <1>2, <1>5 DEF Pushed
  <2>2. Len(q) = Len(r) + 1 - 0 /\ \A n \in 1..Len(q) - 1 : q[n] = r[n + 0]
    BY <1>3, <2>1
  <2>3. q[Len(q)] = c /\ Len(q) =< repeatThreshold /\ Len(q) >= 1
    BY <1>1, <1>3, <1>5, <2>1
  <2> QED
    BY <1>3, <2>1, <2>2, <2>3 DEF Extends
<1> QED
  BY <1>4, <1>5

\* A run grows by the call that continues it.
LEMMA PushedRun ==
  ASSUME NEW r \in Seq(AllCalls), Len(r) =< repeatThreshold, NEW c \in AllCalls,
         NEW q, q = Pushed(r, c), NEW m \in 1..repeatThreshold
  PROVE  Run(q, m) <=> m = 1 \/ (Run(r, m - 1) /\ r[Len(r)] = c)
<1>1. repeatThreshold \in Nat /\ repeatThreshold >= 1 /\ Len(r) \in Nat /\ m \in Nat /\ m >= 1
  BY LimitsAssumption
<1>0. Extends(q, r, c)
  BY PushedIs
<1>2. q \in Seq(AllCalls) /\ Len(q) =< repeatThreshold /\ Len(q) >= 1 /\ q[Len(q)] = c /\ Len(q) \in Nat
  BY <1>0 DEF Extends
<1>3. PICK d \in {0, 1} : /\ Len(q) = Len(r) + 1 - d
                          /\ d = 1 => Len(r) = repeatThreshold
                          /\ \A n \in 1..Len(q) - 1 : q[n] = r[n + d]
  BY <1>0 DEF Extends
<1>4. CASE m = 1
  <2>1. \A n \in Len(q) - 1 + 1..Len(q) : n = Len(q)
    BY <1>2
  <2> QED
    BY <1>2, <1>4, <2>1 DEF Run
<1>5. ASSUME m # 1, Run(q, m) PROVE Run(r, m - 1) /\ r[Len(r)] = c
  <2>1. m =< Len(q) /\ \A n \in Len(q) - m + 1..Len(q) : q[n] = c
    BY <1>2, <1>5 DEF Run
  <2>2. m >= 2 /\ Len(q) - 1 >= 1 /\ Len(q) - 1 + d = Len(r)
    BY <1>1, <1>2, <1>3, <1>5, <2>1
  <2>3. ASSUME NEW n \in Len(r) - (m - 1) + 1..Len(r) PROVE r[n] = c
    <3>0. n \in Int /\ d \in Int /\ n >= Len(r) - (m - 1) + 1 /\ n =< Len(r)
      BY <1>1
    <3>1. n - d \in Int /\ n - d >= Len(q) - m + 1 /\ n - d =< Len(q) - 1 /\ n - d >= 1
      BY <1>1, <1>2, <2>1, <2>2, <3>0
    <3>2. n - d \in Len(q) - m + 1..Len(q) /\ n - d \in 1..Len(q) - 1
      BY <1>1, <1>2, <2>1, <3>1
    <3>3. q[n - d] = c /\ q[n - d] = r[(n - d) + d]
      BY <1>3, <2>1, <3>2
    <3>4. (n - d) + d = n
      BY <1>1, <1>3
    <3> QED
      BY <3>3, <3>4
  <2>4. Len(r) \in Len(r) - (m - 1) + 1..Len(r)
    BY <1>1, <2>2
  <2>5. m - 1 =< Len(r)
    BY <1>1, <1>2, <1>3, <2>1
  <2> QED
    BY <2>3, <2>4, <2>5 DEF Run
<1>6. ASSUME m # 1, Run(r, m - 1), r[Len(r)] = c PROVE Run(q, m)
  <2>1. m - 1 =< Len(r) /\ \A n \in Len(r) - (m - 1) + 1..Len(r) : r[n] = c
    BY <1>6 DEF Run
  <2>2. m =< Len(q)
    BY <1>1, <1>2, <1>3, <2>1
  <2>3. ASSUME NEW n \in Len(q) - m + 1..Len(q) PROVE q[n] = c
    <3>1. CASE n = Len(q)
      BY <1>2, <3>1
    <3>2. CASE n # Len(q)
      <4>0. Len(q) = Len(r) + 1 - d /\ d \in Int
        BY <1>3
      <4>1. n \in 1..Len(q) - 1 /\ n + d \in Len(r) - (m - 1) + 1..Len(r)
        BY <1>1, <1>2, <2>2, <3>2, <4>0
      <4> QED
        BY <1>3, <2>1, <4>1
    <3> QED
      BY <3>1, <3>2
  <2> QED
    BY <1>2, <2>2, <2>3 DEF Run
<1> QED
  BY <1>4, <1>5, <1>6

\* The longest run that is remembered.
LEMMA FullRun ==
  ASSUME NEW r \in Seq(AllCalls), Len(r) =< repeatThreshold, NEW c
  PROVE  AllOf(r, c) <=> Run(r, repeatThreshold) /\ r[Len(r)] = c
<1>1. repeatThreshold \in Nat /\ repeatThreshold >= 1 /\ Len(r) \in Nat /\ DOMAIN r = 1..Len(r)
  BY LimitsAssumption
<1>2. ASSUME AllOf(r, c) PROVE Run(r, repeatThreshold) /\ r[Len(r)] = c
  <2>1. Len(r) = repeatThreshold /\ \A n \in 1..Len(r) : r[n] = c
    BY <1>1, <1>2 DEF AllOf
  <2>2. Len(r) \in 1..Len(r) /\ Len(r) - repeatThreshold + 1..Len(r) = 1..Len(r)
    BY <1>1, <2>1
  <2>3. r[Len(r)] = c
    BY <2>1, <2>2
  <2>4. \A n \in Len(r) - repeatThreshold + 1..Len(r) : r[n] = r[Len(r)]
    BY <2>1, <2>2, <2>3
  <2> QED
    BY <1>1, <2>1, <2>3, <2>4 DEF Run
<1>3. ASSUME Run(r, repeatThreshold), r[Len(r)] = c PROVE AllOf(r, c)
  <2>1. repeatThreshold =< Len(r) /\ \A n \in Len(r) - repeatThreshold + 1..Len(r) : r[n] = c
    BY <1>3 DEF Run
  <2>2. Len(r) = repeatThreshold
    <3>1. repeatThreshold =< Len(r) /\ repeatThreshold \in Nat /\ Len(r) \in Nat
      BY <1>1, <2>1
    <3> QED
      BY <3>1
  <2>3. Len(r) - repeatThreshold + 1 = 1
    BY <1>1, <2>2
  <2> QED
    BY <1>1, <2>1, <2>2, <2>3 DEF AllOf
<1> QED
  BY <1>2, <1>3

\* A guard g that knows p's calls r, and S it was stuck on, observes the call c as k.
Observes(p, g, r, S, c, k, h) ==
  /\ p \in Passes /\ g \in Guards /\ r \in Seq(AllCalls) /\ S \in SUBSET AllCalls
  /\ Follows(p, g, r, S) /\ c \in AllCalls /\ k = callKey(JobOf[p], c) /\ h = observe(g, k)

\* The guard nudges when the remembered calls are the one made again, not nudged before;
\* and after observing the call it knows what they then say.
LEMMA ObserveFollows ==
  ASSUME NEW p, NEW g, NEW r, NEW S, NEW c, NEW k, NEW h, Observes(p, g, r, S, c, k, h)
  PROVE  /\ ShouldNudge(g, k) <=> AllOf(r, c) /\ c \notin S
         /\ Follows(p, h, Pushed(r, c), IF AllOf(r, c) /\ c \notin S THEN S \cup {c} ELSE S)
<1> USE DEF Observes
<1>1. /\ repeatThreshold \in Nat /\ repeatThreshold >= 1 /\ Len(r) \in Nat /\ g.streak \in Nat
      /\ Len(r) =< repeatThreshold
  BY LimitsAssumption DEF Guards, Follows
<1>2. PICK T : T = repeatThreshold
  OBVIOUS
<1>3. /\ h.lastKey = k
      /\ h.streak = IF k = g.lastKey THEN UpTo(T + 1, g.streak + 1) ELSE 1
      /\ h.nudged = IF h.streak > T THEN g.nudged \cup {k} ELSE g.nudged
  BY <1>2 DEF observe
<1>4. /\ \A m \in 1..T : g.streak >= m <=> Run(r, m)
      /\ g.streak =< T + 1
  BY <1>2 DEF Follows
<1>5. r = <<>> => g.streak = 0
  <2>1. r = <<>> => ~Run(r, 1)
    BY DEF Run
  <2>2. 1 \in 1..T
    BY <1>1, <1>2
  <2> QED
    BY <1>1, <1>4, <2>1, <2>2
<1>6. r # <<>> => (k = g.lastKey <=> r[Len(r)] = c)
  <2>1. SUFFICES ASSUME r # <<>> PROVE k = g.lastKey <=> r[Len(r)] = c
    OBVIOUS
  <2>2. r[Len(r)] \in AllCalls /\ g.lastKey = callKey(JobOf[p], r[Len(r)])
    BY <1>1, <2>1 DEF Follows
  <2> QED
    BY <2>2, KeyOfCall
<1>7. h.streak \in Nat /\ h.streak >= 1 /\ h.streak =< T + 1
  BY <1>1, <1>2, <1>3 DEF UpTo
<1>8. ASSUME NEW m \in 2..T
      PROVE  h.streak >= m <=> Run(r, m - 1) /\ r[Len(r)] = c
  <2>1. m - 1 \in 1..T
    BY <1>1, <1>2
  <2>2. g.streak >= m - 1 <=> Run(r, m - 1)
    BY <1>4, <2>1
  <2>3. CASE r = <<>>
    <3>1. h.streak = 1
      BY <1>1, <1>2, <1>3, <1>5, <2>3 DEF UpTo
    <3>2. ~Run(r, m - 1)
      BY <1>5, <2>1, <2>2, <2>3
    <3> QED
      BY <3>1, <3>2
  <2>4. CASE r # <<>> /\ k = g.lastKey
    <3>1. h.streak = UpTo(T + 1, g.streak + 1)
      BY <1>3, <2>4
    <3>2. h.streak >= m <=> g.streak >= m - 1
      BY <1>1, <1>2, <3>1 DEF UpTo
    <3> QED
      BY <1>6, <2>2, <2>4, <3>2
  <2>5. CASE r # <<>> /\ k # g.lastKey
    BY <1>3, <1>6, <2>5
  <2> QED
    BY <2>3, <2>4, <2>5
<1>9. h.streak > T <=> AllOf(r, c)
  <2>1. CASE r = <<>>
    <3>1. h.streak = 1
      BY <1>1, <1>2, <1>3, <1>5, <2>1 DEF UpTo
    <3>2. Len(r) # T
      BY <1>1, <1>2, <2>1
    <3> QED
      BY <1>1, <1>2, <3>1, <3>2 DEF AllOf
  <2>2. CASE r # <<>> /\ k = g.lastKey
    <3>1. h.streak > T <=> g.streak >= T
      <4>1. h.streak = UpTo(T + 1, g.streak + 1)
        BY <1>3, <2>2
      <4> QED
        BY <1>1, <1>2, <4>1 DEF UpTo
    <3>2. T \in 1..T
      BY <1>1, <1>2
    <3>3. g.streak >= T <=> Run(r, T)
      BY <1>4, <3>2
    <3> QED
      BY <1>1, <1>2, <1>6, <2>2, <3>1, <3>3, FullRun
  <2>3. CASE r # <<>> /\ k # g.lastKey
    <3>1. ~(h.streak > T)
      BY <1>1, <1>2, <1>3, <2>3
    <3> QED
      BY <1>1, <1>6, <2>3, <3>1, FullRun
  <2> QED
    BY <2>1, <2>2, <2>3
<1>10. \A d \in AllCalls : callKey(JobOf[p], d) \in g.nudged <=> d \in S
  BY DEF Follows
<1>11. ShouldNudge(g, k) <=> AllOf(r, c) /\ c \notin S
  BY <1>2, <1>9, <1>10 DEF ShouldNudge
<1>12. PICK q : q = Pushed(r, c)
  OBVIOUS
<1>13. PICK Q : Q = IF AllOf(r, c) /\ c \notin S THEN S \cup {c} ELSE S
  OBVIOUS
<1>14. q \in Seq(AllCalls) /\ Len(q) =< T /\ Len(q) >= 1 /\ q[Len(q)] = c
  <2>1. Extends(q, r, c)
    BY <1>1, <1>12, PushedIs
  <2> QED
    BY <1>2, <2>1 DEF Extends
<1>15. ASSUME NEW m \in 1..T PROVE h.streak >= m <=> Run(q, m)
  <2>1. Run(q, m) <=> m = 1 \/ (Run(r, m - 1) /\ r[Len(r)] = c)
    BY <1>1, <1>2, <1>12, PushedRun
  <2>2. CASE m = 1
    BY <1>7, <2>1, <2>2
  <2>3. CASE m # 1
    <3>1. m \in 2..T
      BY <1>1, <1>2, <2>3
    <3> QED
      BY <1>8, <2>1, <2>3, <3>1
  <2> QED
    BY <2>2, <2>3
<1>16. ASSUME NEW d \in AllCalls PROVE callKey(JobOf[p], d) \in h.nudged <=> d \in Q
  <2>1. callKey(JobOf[p], d) = k <=> d = c
    BY KeyOfCall
  <2>2. CASE AllOf(r, c)
    <3>1. h.nudged = g.nudged \cup {k}
      BY <1>3, <1>9, <2>2
    <3> QED
      BY <1>10, <1>13, <2>1, <2>2, <3>1
  <2>3. CASE ~AllOf(r, c)
    <3>1. h.nudged = g.nudged /\ Q = S
      BY <1>3, <1>9, <1>13, <2>3
    <3> QED
      BY <1>10, <3>1
  <2> QED
    BY <2>2, <2>3
<1>17. Follows(p, h, q, Q)
  BY <1>2, <1>3, <1>7, <1>14, <1>15, <1>16 DEF Follows
<1> QED
  BY <1>11, <1>12, <1>13, <1>17

\* The pass w is making its remembered call again, and was not stuck on it before.
StuckOn(w) == AllOf(w.recent, w.call) /\ w.call \notin w.stuck

StuckWith(w) == IF AllOf(w.recent, w.call) /\ w.call \notin w.stuck THEN w.stuck \cup {w.call} ELSE w.stuck

\* The guard g knows the calls of p's pass w, the one it is making included once its
\* hook has run.
Tracks(p, w, g) ==
  /\ w.at \in {"extract", "think", "before"} => Follows(p, g, w.recent, w.stuck)
  /\ w.at \in BetweenHooks => Follows(p, g, Pushed(w.recent, w.call), StuckWith(w))

\* w was nudged when it was stuck, or answered from a checkpoint.
NudgedRight(w) ==
  /\ w.at \in AtTool => ~StuckOn(w)
  /\ w.at = "after" => /\ StuckOn(w) => w.outputs.kind = "nudge"
                       /\ w.outputs.kind = "nudge" => StuckOn(w) \/ w.resumed = TRUE

\* A guard that only p has used knows p's calls; and a pass that has started to
\* process its document has made one.
GuardFollows ==
  \A p \in Passes :
    /\ pass[p].at \notin Resting \cup {"begun"} => guardUsers # {}
    /\ guardUsers = {p} => Tracks(p, pass[p], repeatGuard) /\ NudgedRight(pass[p])

\* IsStuck, of the pass alone.
LEMMA StuckIs == \A p : IsStuck(p) <=> StuckOn(pass[p])
BY DEF IsStuck, StuckOn, AllOf

\* What the hook before a tool finds and leaves.
LEMMA HookFollows ==
  ASSUME Base, GuardFollows, NEW p \in Passes, Before(p), guardUsers' = {p}
  PROVE  /\ guardUsers = {p}
         /\ Nudged(p) <=> StuckOn(pass[p])
         /\ \A q : SameCall(pass[p], q) /\ q.at \in {"brief", "persist", "after"}
                   => Tracks(p, q, repeatGuard')
<1>1. pass \in [Passes -> PassTypes] /\ repeatGuard \in Guards
  BY BaseParts DEF RestTypes
<1>2. pass[p].at = "before" /\ guardUsers' = guardUsers \cup {p}
  BY DEF Before, At
<1>3. guardUsers = {p}
  <2>1. guardUsers # {}
    BY <1>2 DEF GuardFollows, Resting
  <2> QED
    BY <1>2, <2>1
<1>4. PICK r : r = pass[p].recent
  OBVIOUS
<1>5. PICK S : S = pass[p].stuck
  OBVIOUS
<1>6. PICK c : c = pass[p].call
  OBVIOUS
<1>7. r \in Seq(AllCalls) /\ S \in SUBSET AllCalls /\ c \in AllCalls
  BY <1>1, <1>4, <1>5, <1>6 DEF PassTypes
<1>8. Follows(p, repeatGuard, r, S)
  BY <1>2, <1>3, <1>4, <1>5 DEF GuardFollows, Tracks
<1>9. PICK k : k = callKey(JobOf[p], c)
  OBVIOUS
<1>10. PICK h : h = observe(repeatGuard, k)
  OBVIOUS
<1>11. /\ ShouldNudge(repeatGuard, k) <=> AllOf(r, c) /\ c \notin S
       /\ Follows(p, h, Pushed(r, c), IF AllOf(r, c) /\ c \notin S THEN S \cup {c} ELSE S)
  <2>1. Observes(p, repeatGuard, r, S, c, k, h)
    BY <1>1, <1>7, <1>8, <1>9, <1>10 DEF Observes
  <2> QED
    BY <2>1, ObserveFollows
<1>12. repeatGuard' = h
  BY <1>6, <1>9, <1>10 DEF Before
<1>13. Nudged(p) <=> StuckOn(pass[p])
  BY <1>4, <1>5, <1>6, <1>9, <1>11 DEF Nudged, StuckOn
<1>14. ASSUME NEW q, SameCall(pass[p], q), q.at \in {"brief", "persist", "after"}
       PROVE  Tracks(p, q, repeatGuard')
  <2>1. q.recent = r /\ q.stuck = S /\ q.call = c
    BY <1>4, <1>5, <1>6, <1>14 DEF SameCall
  <2>2. Follows(p, h, Pushed(q.recent, q.call), StuckWith(q))
    BY <1>11, <2>1 DEF StuckWith
  <2> QED
    BY <1>12, <1>14, <2>2 DEF Tracks
<1> QED
  BY <1>3, <1>13, <1>14

\* A new tracker follows a pass that has called nothing.
LEMMA NewGuardFollows ==
  ASSUME NEW p \in Passes, NEW r, r = <<>>
  PROVE  Follows(p, newRepeatTracker, r, {})
<1>1. PICK g : g = newRepeatTracker
  OBVIOUS
<1>2. g.streak = 0 /\ g.nudged = {}
  BY <1>1 DEF newRepeatTracker
<1>3. repeatThreshold \in Nat /\ repeatThreshold >= 1 /\ Len(r) = 0
  BY LimitsAssumption
<1>4. \A m \in 1..repeatThreshold : ~(g.streak >= m) /\ ~Run(r, m)
  BY <1>2, <1>3 DEF Run
<1>5. Follows(p, g, r, {})
  BY <1>2, <1>3, <1>4 DEF Follows
<1> QED
  BY <1>1, <1>5

\* A step of its own keeps the guard of a pass at what the pass did.
LEMMA TrackedByOwnStep ==
  ASSUME Base, GuardFollows, NEW p \in Passes, AgentStep(p), guardUsers' = {p},
         NEW w, w = pass'[p]
  PROVE  Tracks(p, w, repeatGuard') /\ NudgedRight(w)
<1>1. pass \in [Passes -> PassTypes] /\ RestTypes /\ ShapeOf(p, pass[p]) /\ JobOf[p] \in Jobs
  BY BaseParts, JobIs
<1>2. CASE w.at \notin {"extract", "think", "before"} \cup BetweenHooks
  BY <1>2 DEF Tracks, NudgedRight, BetweenHooks
<1>3. CASE ProcessDocument(p)
  <2>1. pass[p].at = "begun" /\ w.at = "extract" /\ SameCall(pass[p], w)
    BY <1>1, <1>3, ProcessDocumentDoes
  <2>2. w.recent = <<>> /\ w.stuck = {}
    BY <1>1, <2>1 DEF ShapeOf, SameCall
  <2>3. repeatGuard' = newRepeatTracker
    BY <1>3 DEF ProcessDocument
  <2>4. Follows(p, newRepeatTracker, w.recent, w.stuck)
    BY <2>2, NewGuardFollows
  <2> QED
    BY <2>1, <2>3, <2>4 DEF Tracks, NudgedRight, BetweenHooks, AtTool
<1>4. CASE prepareDocumentMap(p) \/ CallTool(p)
  <2>1. /\ pass[p].at \in {"extract", "think"} /\ w.at \in {"think", "before"}
        /\ w.recent = pass[p].recent /\ w.stuck = pass[p].stuck
    BY <1>1, <1>4, PrepareDoes, CallToolDoes DEF SameCall
  <2>2. repeatGuard' = repeatGuard /\ guardUsers' = guardUsers
    BY <1>4 DEF prepareDocumentMap, CallTool, instance, history
  <2>3. Follows(p, repeatGuard, pass[p].recent, pass[p].stuck)
    BY <2>1, <2>2 DEF GuardFollows, Tracks
  <2> QED
    BY <2>1, <2>2, <2>3 DEF Tracks, NudgedRight, BetweenHooks, AtTool
<1>5. CASE Nudge(p)
  <2>1. SameCall(pass[p], w) /\ w.at = "after" /\ w.outputs = Output("nudge", JobOf[p], <<>>)
    BY <1>1, <1>5, NudgeDoes
  <2>2. w.outputs.kind = "nudge"
    BY <1>1, <2>1, OutputTypes
  <2>3. Before(p) /\ Nudged(p)
    BY <1>5 DEF Nudge
  <2>4. Tracks(p, w, repeatGuard') /\ StuckOn(pass[p])
    BY <2>1, <2>3, HookFollows
  <2>5. StuckOn(w)
    BY <2>1, <2>4 DEF SameCall, StuckOn
  <2> QED
    BY <2>1, <2>2, <2>4, <2>5 DEF NudgedRight, AtTool
<1>6. CASE ResumeFromCheckpoint(p)
  <2>1. Before(p) /\ ~Nudged(p)
    BY <1>6 DEF ResumeFromCheckpoint
  <2>2. SameCall(pass[p], w) /\ w.at = "after" /\ w.resumed = TRUE
    BY <1>1, <1>6, ResumedIs, ResumeDoes
  <2>3. Tracks(p, w, repeatGuard') /\ ~StuckOn(pass[p])
    BY <2>1, <2>2, HookFollows
  <2>4. ~StuckOn(w)
    BY <2>2, <2>3 DEF SameCall, StuckOn
  <2> QED
    BY <2>2, <2>3, <2>4 DEF NudgedRight, AtTool
<1>7. CASE EnterTool(p)
  <2>1. Before(p) /\ ~Nudged(p)
    BY <1>7 DEF EnterTool
  <2>2. SameCall(pass[p], w) /\ w.at \in {"brief", "persist"}
    BY <1>1, <1>7, EnterToolDoes
  <2>3. Tracks(p, w, repeatGuard') /\ ~StuckOn(pass[p])
    BY <2>1, <2>2, HookFollows
  <2>4. ~StuckOn(w)
    BY <2>2, <2>3 DEF SameCall, StuckOn
  <2> QED
    BY <2>2, <2>3, <2>4 DEF NudgedRight
<1>8. CASE AfterTool(p)
  <2>1. /\ w.at = "think"
        /\ w.recent = LET recent == Append(pass[p].recent, pass[p].call) IN
                      IF Len(recent) > repeatThreshold THEN Tail(recent) ELSE recent
        /\ w.stuck = IF IsStuck(p) THEN pass[p].stuck \cup {pass[p].call} ELSE pass[p].stuck
    BY <1>1, <1>8, AnsweredDoes DEF AfterTool
  <2>2. w.recent = Pushed(pass[p].recent, pass[p].call)
    BY <2>1 DEF Pushed
  <2>3. w.stuck = StuckWith(pass[p])
    BY <2>1, StuckIs DEF StuckWith, StuckOn
  <2>4. repeatGuard' = repeatGuard /\ guardUsers' = guardUsers /\ pass[p].at = "after"
    BY <1>8 DEF AfterTool, instance, At
  <2>5. Follows(p, repeatGuard, Pushed(pass[p].recent, pass[p].call), StuckWith(pass[p]))
    BY <2>4 DEF GuardFollows, Tracks, BetweenHooks
  <2> QED
    BY <2>1, <2>2, <2>3, <2>4, <2>5 DEF Tracks, NudgedRight, BetweenHooks, AtTool
<1>9. CASE /\ ~ProcessDocument(p) /\ ~prepareDocumentMap(p) /\ ~CallTool(p) /\ ~Nudge(p)
           /\ ~ResumeFromCheckpoint(p) /\ ~EnterTool(p) /\ ~AfterTool(p)
           /\ w.at \in {"extract", "think", "before"} \cup BetweenHooks
  <2>1. w.at \in BetweenHooks
    BY <1>9, PlacesAfter
  <2>2. /\ pass[p].at \in AtTool
        /\ SameCall(pass[p], w)
        /\ w.at = "after" => w.outputs.kind # "nudge"
    BY <1>9, <2>1, ToolStep
  <2>3. repeatGuard' = repeatGuard /\ guardUsers' = guardUsers
    <3>1. ~Before(p)
      BY <2>2 DEF Before, At, AtTool
    <3> QED
      BY <1>9, <3>1, GuardKept
  <2>4. Tracks(p, pass[p], repeatGuard) /\ NudgedRight(pass[p])
    BY <2>3 DEF GuardFollows
  <2>5. ~StuckOn(pass[p])
    BY <2>2, <2>4 DEF NudgedRight
  <2>6. Follows(p, repeatGuard, Pushed(pass[p].recent, pass[p].call), StuckWith(pass[p]))
    BY <2>2, <2>4 DEF Tracks, BetweenHooks
  <2>7. /\ w.recent = pass[p].recent /\ w.call = pass[p].call
        /\ StuckWith(w) = StuckWith(pass[p]) /\ ~StuckOn(w)
    BY <2>2, <2>5 DEF SameCall, StuckWith, StuckOn
  <2>8. w.at \notin {"extract", "think", "before"}
    BY <2>1 DEF BetweenHooks, AtTool
  <2> QED
    BY <2>1, <2>2, <2>3, <2>6, <2>7, <2>8 DEF Tracks, NudgedRight
<1> QED
  BY <1>2, <1>3, <1>4, <1>5, <1>6, <1>7, <1>8, <1>9

\* A pass the same to the guard as before is followed as before.
LEMMA SameToGuard ==
  ASSUME NEW p, NEW w, NEW q, NEW g, q.at = w.at, q.outputs = w.outputs, q.resumed = w.resumed,
         SameCall(w, q), Tracks(p, w, g), NudgedRight(w)
  PROVE  Tracks(p, q, g) /\ NudgedRight(q)
<1>1. q.recent = w.recent /\ q.call = w.call /\ q.stuck = w.stuck
  BY DEF SameCall
<1>2. StuckWith(q) = StuckWith(w) /\ (StuckOn(q) <=> StuckOn(w))
  BY <1>1 DEF StuckWith, StuckOn
<1>3. Tracks(p, q, g)
  BY <1>1, <1>2 DEF Tracks
<1>4. NudgedRight(q)
  BY <1>2 DEF NudgedRight
<1> QED
  BY <1>3, <1>4

\* Another pass's step leaves the guard alone, or has its part in it from then on; one
\* that is no pass's own changes neither.
LEMMA GuardFollowsStep ==
  ASSUME Base, GuardFollows, [Next]_vars
  PROVE  GuardFollows'
<1>0. pass \in [Passes -> PassTypes]
  BY BaseParts
<1>1. ASSUME NEW p \in Passes, AgentStep(p)
      PROVE  GuardFollows'
  <2>1. ASSUME NEW k \in Passes, pass'[k].at \notin Resting \cup {"begun"} PROVE guardUsers' # {}
    <3>1. CASE ProcessDocument(p) \/ Before(p)
      BY <3>1 DEF ProcessDocument, Before
    <3>2. CASE ~ProcessDocument(p) /\ ~Before(p)
      <4>1. guardUsers' = guardUsers
        BY <1>1, <3>2, GuardKept
      <4>2. CASE k # p
        <5>1. pass'[k] = pass[k]
          BY <1>1, <4>2, PlacesStep DEF Only
        <5> QED
          BY <2>1, <4>1, <5>1 DEF GuardFollows
      <4>3. CASE k = p
        <5>1. Running(p) /\ Hooked(p)
          BY <1>1, <3>2, PlacesStep
        <5>2. pass[p].at \notin Resting \cup {"begun"}
          BY <5>1 DEF Running, Hooked
        <5> QED
          BY <4>1, <5>2 DEF GuardFollows
      <4> QED
        BY <4>2, <4>3
    <3> QED
      BY <3>1, <3>2
  <2>2. ASSUME NEW k \in Passes, guardUsers' = {k}
        PROVE  Tracks(k, pass'[k], repeatGuard') /\ NudgedRight(pass'[k])
    <3>1. CASE k = p
      BY <1>1, <2>2, <3>1, TrackedByOwnStep
    <3>2. CASE k # p
      <4>1. ~ProcessDocument(p) /\ ~Before(p)
        BY <2>2, <3>2 DEF ProcessDocument, Before
      <4>2. repeatGuard' = repeatGuard /\ guardUsers' = guardUsers
        BY <1>1, <4>1, GuardKept
      <4>3. pass'[k] = pass[k]
        BY <1>1, <3>2, PlacesStep DEF Only
      <4> QED
        BY <2>2, <4>2, <4>3 DEF GuardFollows
    <3> QED
      BY <3>1, <3>2
  <2> QED
    BY <2>1, <2>2 DEF GuardFollows
<1>2. CASE \A p \in Passes : ~AgentStep(p)
  <2>1. \A k \in Passes :
          \/ /\ pass'[k].at = pass[k].at /\ pass'[k].outputs = pass[k].outputs
             /\ pass'[k].resumed = pass[k].resumed
             /\ SameCall(pass[k], pass'[k])
          \/ pass'[k].at \in Resting \cup {"begun"}
    BY <1>2, OtherSteps
  <2>2. ASSUME NEW k \in Passes, pass'[k].at \notin Resting \cup {"begun"}
        PROVE  repeatGuard' = repeatGuard /\ guardUsers' = guardUsers
    <3>1. ~Crash
      <4>1. SUFFICES ASSUME Crash PROVE FALSE
        OBVIOUS
      <4>2. pass'[k] = IF Running(k) THEN Ended("interrupted") ELSE pass[k]
        BY <1>0, <4>1, CrashDoes
      <4>3. pass'[k].at \in Resting
        BY <4>2, EndedIs DEF Running, Resting
      <4> QED
        BY <2>2, <4>3
    <3>2. CASE \E p \in Passes : BeginJob(p) \/ BudgetAbort(p)
      BY <3>2, OthersKept
    <3>3. CASE UNCHANGED vars
      BY <3>3 DEF vars, instance, history
    <3> QED
      BY <1>2, <3>1, <3>2, <3>3 DEF Next
  <2>3. ASSUME NEW k \in Passes
        PROVE  /\ pass'[k].at \notin Resting \cup {"begun"} => guardUsers' # {}
               /\ guardUsers' = {k} => Tracks(k, pass'[k], repeatGuard') /\ NudgedRight(pass'[k])
    <3>1. CASE pass'[k].at \in Resting \cup {"begun"}
      BY <3>1 DEF Tracks, NudgedRight, Resting, BetweenHooks, AtTool
    <3>2. CASE pass'[k].at \notin Resting \cup {"begun"}
      <4>1. /\ pass'[k].at = pass[k].at /\ pass'[k].outputs = pass[k].outputs
            /\ pass'[k].resumed = pass[k].resumed /\ SameCall(pass[k], pass'[k])
            /\ repeatGuard' = repeatGuard /\ guardUsers' = guardUsers
        BY <2>1, <2>2, <3>2
      <4>2. guardUsers # {}
        BY <3>2, <4>1 DEF GuardFollows
      <4>3. ASSUME guardUsers' = {k} PROVE Tracks(k, pass'[k], repeatGuard') /\ NudgedRight(pass'[k])
        <5>1. Tracks(k, pass[k], repeatGuard) /\ NudgedRight(pass[k])
          BY <4>1, <4>3 DEF GuardFollows
        <5> QED
          BY <4>1, <5>1, SameToGuard
      <4> QED
        BY <4>1, <4>2, <4>3
    <3> QED
      BY <3>1, <3>2
  <2> QED
    BY <2>3 DEF GuardFollows
<1> QED
  BY <1>1, <1>2

\* A call is nudged the first time that the pass's own last repeatThreshold calls were
\* the same one, and only then or from a checkpoint; as long as no other pass, of this
\* job or another, made or used the guard. The guard is one object for all passes, so
\* that is the most that can be said of it.
THEOREM NudgedWhenStuck == Spec => []NudgeFollowsOwnStreak
<1>1. Init => GuardFollows
  BY DEF Init, GuardFollows, NoPass, Resting
<1>2. Base /\ GuardFollows /\ [Next]_vars => (Base /\ GuardFollows)'
  BY BaseStep, GuardFollowsStep
<1>3. Base /\ GuardFollows => NudgeFollowsOwnStreak
  <2> SUFFICES ASSUME Base, GuardFollows, NEW p \in Passes, pass[p].at = "after", guardUsers = {p}
               PROVE  /\ IsStuck(p) => pass[p].outputs.kind = "nudge"
                      /\ pass[p].outputs.kind = "nudge" => IsStuck(p) \/ pass[p].resumed
    BY DEF NudgeFollowsOwnStreak, At
  <2>1. NudgedRight(pass[p])
    BY DEF GuardFollows
  <2> QED
    BY <2>1, StuckIs DEF NudgedRight
<1> QED
  BY <1>1, <1>2, <1>3, InitBase, PTL DEF Spec

=============================================================================
