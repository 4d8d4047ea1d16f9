---------------------------- MODULE AgentTreeProofs ----------------------------
(***************************************************************************)
(* Proofs about the tree that the passes of AgentRun store: that it has    *)
(* one root, that what an agent is told is saved is there, that an item    *)
(* hangs off its parent, and that no item is there twice.                  *)
(***************************************************************************)
EXTENDS AgentRunProofs

\* Items are only ever added to the tree, at its end, and by a pass that stores.
LEMMA TreeGrows ==
  ASSUME Base, NEW p \in Passes, AgentStep(p)
  PROVE  /\ \A n \in DOMAIN tree : n \in DOMAIN tree' /\ tree'[n] = tree[n]
         /\ \/ tree' = tree
            \/ /\ CreateItem(p)
               /\ TreeItem(p) \in TreeItems /\ TreeItem(p).job = JobOf[p]
               /\ DOMAIN tree' = DOMAIN tree \cup {Len(tree) + 1}
               /\ tree'[Len(tree) + 1] = TreeItem(p)
         /\ DOMAIN tree = 1..Len(tree) /\ Len(tree) \in Nat
<1>1. pass \in [Passes -> PassTypes] /\ tree \in Seq(TreeItems)
  BY BaseParts
<1>2. DOMAIN tree = 1..Len(tree) /\ Len(tree) \in Nat
  BY <1>1
<1>3. CASE tree' = tree
  BY <1>2, <1>3
<1>4. CASE tree' = Append(tree, TreeItem(p)) /\ CreateItem(p)
  <2>1. pass[p].left # <<>>
    BY <1>4, CreateItemDoes
  <2>2. TreeItem(p) \in TreeItems /\ TreeItem(p).job = JobOf[p]
    BY <1>1, <2>1, NextItemTypes DEF TreeItem
  <2>3. PICK i : i = TreeItem(p)
    OBVIOUS
  <2>4. tree' = Append(tree, i) /\ i \in TreeItems
    BY <1>4, <2>2, <2>3
  <2>5. /\ DOMAIN tree' = 1..Len(tree) + 1 /\ tree'[Len(tree) + 1] = i
        /\ \A n \in 1..Len(tree) : tree'[n] = tree[n]
    BY <1>1, <2>4
  <2>6. 1..Len(tree) + 1 = 1..Len(tree) \cup {Len(tree) + 1}
    BY <1>2
  <2> QED
    BY <1>2, <1>4, <2>2, <2>3, <2>5, <2>6
<1> QED
  BY <1>2, <1>3, <1>4, TreeKept

\* A pass that stores a list after its step has started on it, has counted, stored or
\* merged an item, or has logged one.
LEMMA StoringStep ==
  ASSUME Base, NEW p \in Passes, AgentStep(p), pass'[p].at \in StoresNow
  PROVE  \/ StartPersist(p) \/ CreateItem(p) \/ MergeItem(p)
         \/ /\ pass[p].at \in StoresNow /\ tree' = tree
            /\ SameCall(pass[p], pass'[p]) /\ SameTool(pass[p], pass'[p])
<1>1. CASE CountItems(p)
  BY <1>1, CountItemsDoes DEF CountItems, StoresNow
<1>2. CASE LogItem(p)
  BY <1>2, LogItemDoes DEF LogItem, StoresNow
<1> QED
  BY <1>1, <1>2, PlacesAfter DEF StoresNow

-----------------------------------------------------------------------------
(* One root.                                                               *)

\* The pass stores items and has no root to put them under yet.
Pending(p) == pass[p].at \in StoresNow /\ pass[p].rootNodeID = 0

\* There is one root, or one pass about to make it.
RootIsAlone ==
  ~misrooted =>
    /\ \A m, n \in Roots : m = n
    /\ \A p, q \in Passes : Pending(p) /\ Pending(q) => p = q
    /\ \A p \in Passes : Pending(p) => Roots = {}

\* What a step does to the roots, when none was looked for in vain.
LEMMA RootStep ==
  ASSUME Base, NEW p \in Passes, AgentStep(p), ~misrooted'
  PROVE  /\ ~misrooted
         /\ \/ Roots' = Roots /\ (Pending(p)' => Pending(p))
            \/ Roots' = Roots /\ (Pending(p)' => Roots = {} /\ \A k \in Passes : k # p => ~Pending(k))
            \/ Pending(p) /\ ~Pending(p)' /\ Roots' = Roots \cup {Len(tree) + 1}
<1>1. pass \in [Passes -> PassTypes] /\ tree \in Seq(TreeItems)
  BY BaseParts
<1>2. tree' = tree => Roots' = Roots
  BY DEF Roots
<1>3. CASE StartPersist(p)
  <2>1. tree' = tree
    BY <1>3 DEF StartPersist, Reserve
  <2>2. /\ resolveRootNodeID \in Nat
        /\ Roots # {} => resolveRootNodeID \in Roots
        /\ 0 \notin Roots
    BY <1>1, RootFound
  <2>3. /\ pass'[p].rootNodeID = resolveRootNodeID
        /\ misrooted' = (misrooted \/ (pass'[p].rootNodeID = 0 /\ RootPending(p)))
    BY <1>3, StartDoes
  <2>4. pass'[p].rootNodeID = 0 => Roots = {} /\ ~RootPending(p)
    BY <2>2, <2>3
  <2>5. ~RootPending(p) => \A k \in Passes : k # p => ~Pending(k)
    BY DEF Pending, RootPending, Persisting, StoresNow
  <2> QED
    BY <1>2, <2>1, <2>3, <2>4, <2>5 DEF Pending
<1>4. CASE ~StartPersist(p) /\ ~CreateItem(p)
  <2>1. ~misrooted
    BY <1>4, RootsLooked
  <2>2. tree' = tree
    BY <1>4, TreeKept
  <2>3. pass'[p].at \in StoresNow => pass[p].at \in StoresNow /\ pass'[p].rootNodeID = pass[p].rootNodeID
    BY <1>4, StoringStep, MergeItemDoes DEF SameTool, StoresNow
  <2> QED
    BY <1>2, <2>1, <2>2, <2>3 DEF Pending
<1>5. CASE CreateItem(p)
  <2>1. ~misrooted
    BY <1>5 DEF CreateItem, history
  <2>2. /\ pass[p].at = "counted" /\ pass'[p].at = "inserted"
        /\ pass'[p].rootNodeID = IF ParentFor(p) = 0 THEN Len(tree) + 1 ELSE pass[p].rootNodeID
    BY <1>5, CreateItemDoes
  <2>3. /\ DOMAIN tree' = DOMAIN tree \cup {Len(tree) + 1}
        /\ tree'[Len(tree) + 1].parent = ParentFor(p)
        /\ \A n \in DOMAIN tree : tree'[n] = tree[n]
        /\ DOMAIN tree = 1..Len(tree) /\ Len(tree) \in Nat
    <3>1. TreeItem(p).parent = ParentFor(p)
      BY DEF TreeItem
    <3>2. tree' # tree
      <4>1. tree' = Append(tree, TreeItem(p)) /\ TreeItem(p) \in TreeItems
        BY <1>1, <1>5, CreateItemDoes, NextItemTypes DEF CreateItem
      <4>2. PICK i \in TreeItems : i = TreeItem(p)
        BY <4>1
      <4>3. Len(tree') = Len(tree) + 1
        BY <1>1, <4>1, <4>2
      <4> QED
        BY <1>1, <4>3
    <3> QED
      BY <3>1, <3>2, TreeGrows
  <2>4. CASE ParentFor(p) = 0
    <3>1. Roots' = Roots \cup {Len(tree) + 1}
      BY <2>3, <2>4 DEF Roots
    <3>2. pass[p].rootNodeID = 0
      BY <2>4 DEF ParentFor
    <3>3. Pending(p) /\ ~Pending(p)'
      BY <2>2, <2>3, <2>4, <3>2 DEF Pending, StoresNow
    <3> QED
      BY <2>1, <3>1, <3>3
  <2>5. CASE ParentFor(p) # 0
    <3>1. Roots' = Roots
      BY <2>3, <2>5 DEF Roots
    <3> QED
      BY <2>1, <2>2, <2>5, <3>1 DEF Pending, StoresNow
  <2> QED
    BY <2>4, <2>5
<1> QED
  BY <1>3, <1>4, <1>5

\* The root stays alone.
LEMMA RootIsAloneStep ==
  ASSUME Base, RootIsAlone, [Next]_vars
  PROVE  RootIsAlone'
<1> SUFFICES ASSUME ~misrooted'
             PROVE  /\ \A m, n \in Roots' : m = n
                    /\ \A i, k \in Passes : Pending(i)' /\ Pending(k)' => i = k
                    /\ \A i \in Passes : Pending(i)' => Roots' = {}
  BY DEF RootIsAlone
<1>1. ASSUME NEW p \in Passes, AgentStep(p)
      PROVE  /\ \A m, n \in Roots' : m = n
             /\ \A i, k \in Passes : Pending(i)' /\ Pending(k)' => i = k
             /\ \A i \in Passes : Pending(i)' => Roots' = {}
  <2>1. \A k \in Passes : k # p => (Pending(k)' <=> Pending(k))
    BY <1>1, PlacesStep DEF Only, Pending
  <2>2. /\ ~misrooted
        /\ \/ Roots' = Roots /\ (Pending(p)' => Pending(p))
           \/ Roots' = Roots /\ (Pending(p)' => Roots = {} /\ \A k \in Passes : k # p => ~Pending(k))
           \/ Pending(p) /\ ~Pending(p)' /\ Roots' = Roots \cup {Len(tree) + 1}
    BY <1>1, RootStep
  <2>3. /\ \A m, n \in Roots : m = n
        /\ \A i, k \in Passes : Pending(i) /\ Pending(k) => i = k
        /\ \A i \in Passes : Pending(i) => Roots = {}
    BY <2>2 DEF RootIsAlone
  <2>4. CASE Roots' = Roots /\ (Pending(p)' => Pending(p))
    BY <2>1, <2>3, <2>4
  <2>5. CASE Roots' = Roots /\ (Pending(p)' => Roots = {} /\ \A k \in Passes : k # p => ~Pending(k))
    BY <2>1, <2>3, <2>5
  <2>6. CASE Pending(p) /\ ~Pending(p)' /\ Roots' = Roots \cup {Len(tree) + 1}
    <3>1. Roots' = {Len(tree) + 1}
      BY <2>3, <2>6
    <3>2. \A k \in Passes : ~Pending(k)'
      BY <2>1, <2>3, <2>6
    <3> QED
      BY <3>1, <3>2
  <2> QED
    BY <2>2, <2>4, <2>5, <2>6
<1>2. CASE \A p \in Passes : ~AgentStep(p)
  <2>1. /\ UNCHANGED <<tree, misrooted>>
        /\ \A k \in Passes :
              \/ pass'[k].at = pass[k].at /\ SameTool(pass[k], pass'[k])
              \/ pass'[k].at \in Resting \cup {"begun"}
    BY <1>2, OtherSteps
  <2>2. \A k \in Passes : Pending(k)' => Pending(k)
    BY <2>1 DEF Pending, SameTool, Resting, StoresNow
  <2>3. Roots' = Roots
    BY <2>1 DEF Roots
  <2> QED
    BY <2>1, <2>2, <2>3 DEF RootIsAlone
<1> QED
  BY <1>1, <1>2

\* The tree has one root, however the passes of the workspace overlap, two passes of
\* one job included, unless a root was looked for while another pass was about to make
\* one, or the tree could not be read.
THEOREM TreeHasOneRoot == Spec => []OneRoot
<1>1. Init => RootIsAlone
  <2> SUFFICES ASSUME Init PROVE RootIsAlone
    OBVIOUS
  <2>1. Roots = {}
    BY DEF Init, Roots
  <2>2. \A p \in Passes : pass[p].at = "idle"
    BY DEF Init, NoPass
  <2> QED
    BY <2>1, <2>2 DEF RootIsAlone, Pending, StoresNow
<1>2. Base /\ RootIsAlone /\ [Next]_vars => (Base /\ RootIsAlone)'
  BY BaseStep, RootIsAloneStep
<1>3. RootIsAlone => OneRoot
  <2> SUFFICES ASSUME RootIsAlone, ~misrooted PROVE Cardinality(Roots) =< 1
    BY DEF OneRoot
  <2>1. \A m, n \in Roots : m = n
    BY DEF RootIsAlone
  <2>2. CASE Roots = {}
    <3>1. Cardinality(Roots) = 0
      BY <2>2, FS_EmptySet
    <3> QED
      BY <3>1
  <2>3. CASE Roots # {}
    <3>1. PICK n \in Roots : TRUE
      BY <2>3
    <3>2. Roots = {n}
      BY <2>1, <3>1
    <3>3. Cardinality(Roots) = 1
      BY <3>2, FS_Singleton
    <3> QED
      BY <3>3
  <2> QED
    BY <2>2, <2>3
<1> QED
  BY <1>1, <1>2, <1>3, InitBase, PTL DEF Spec

-----------------------------------------------------------------------------
(* An answer that says saved.                                              *)

\* What remains of a list after its head.
LEMMA TailItems ==
  ASSUME NEW s \in Seq(GeneratedItem), s # <<>>
  PROVE  /\ Tail(s) \in Seq(GeneratedItem) /\ 1 \in DOMAIN s /\ Head(s) = s[1]
         /\ \A k \in DOMAIN Tail(s) : k + 1 \in DOMAIN s /\ Tail(s)[k] = s[k + 1] /\ k \in Nat /\ k >= 1
         /\ \A k \in DOMAIN s : k = 1 \/ (k - 1 \in DOMAIN Tail(s) /\ Tail(s)[k - 1] = s[k])
         /\ \A i \in ItemsOf(s) : i = Head(s) \/ i \in ItemsOf(Tail(s))
         /\ ItemsOf(Tail(s)) \subseteq ItemsOf(s)
<1>1. PICK t : t = Tail(s)
  OBVIOUS
<1>2. /\ Len(s) \in Nat /\ Len(s) >= 1 /\ DOMAIN s = 1..Len(s)
      /\ t \in Seq(GeneratedItem) /\ DOMAIN t = 1..Len(s) - 1
      /\ \A k \in 1..Len(s) - 1 : t[k] = s[k + 1]
      /\ Head(s) = s[1]
  BY <1>1
<1>3. \A k \in DOMAIN t : k + 1 \in DOMAIN s /\ t[k] = s[k + 1] /\ k \in Nat /\ k >= 1
  BY <1>2
<1>4. \A k \in DOMAIN s : k = 1 \/ (k - 1 \in DOMAIN t /\ t[k - 1] = s[k])
  BY <1>2
<1>5. \A i \in ItemsOf(s) : i = Head(s) \/ i \in ItemsOf(t)
  BY <1>2, <1>4, InItems
<1>6. ItemsOf(t) \subseteq ItemsOf(s)
  BY <1>3, InItems
<1> QED
  BY <1>1, <1>2, <1>3, <1>4, <1>5, <1>6

\* The item i of a list of job j is in the tree.
InTree(i, j) ==
  IF i.into = 0 THEN \E m \in DOMAIN tree : tree[m].job = j /\ tree[m].id = i.id
  ELSE i.into \in DOMAIN tree

\* What a pass has still to store, and what it has stored, is its list, but for the
\* items whose local id is repeated later in it.
LeftOrStored ==
  \A p \in Passes : pass[p].at \in StoresNow =>
    \A n \in DOMAIN pass[p].call.batch : IsLast(pass[p].call.batch, n) =>
      \/ pass[p].call.batch[n] \in ItemsOf(pass[p].left)
      \/ InTree(pass[p].call.batch[n], JobOf[p])

\* What an answer says of its items, item by item.
LEMMA StoredByItem ==
  \A o : IsStored(o) <=> (o.kind = "saved" => \A n \in DOMAIN o.batch : IsLast(o.batch, n) => InTree(o.batch[n], o.from))
<1> TAKE o
<1>1. \A n \in DOMAIN o.batch :
        InTree(o.batch[n], o.from)
        <=> \E m \in DOMAIN tree :
              IF o.batch[n].into = 0 THEN tree[m].job = o.from /\ tree[m].id = o.batch[n].id
              ELSE m = o.batch[n].into
  BY DEF InTree
<1> QED
  BY <1>1 DEF IsStored

\* The tree forgets nothing.
LEMMA InTreeStays ==
  ASSUME \A n \in DOMAIN tree : n \in DOMAIN tree' /\ tree'[n] = tree[n]
  PROVE  /\ \A i, j : InTree(i, j) => InTree(i, j)'
         /\ \A o : IsStored(o) => IsStored(o)'
<1>1. \A i, j : InTree(i, j) => InTree(i, j)'
  BY DEF InTree
<1>2. \A o : IsStored(o) => IsStored(o)'
  BY DEF IsStored
<1> QED
  BY <1>1, <1>2

\* A step of p leaves what it has not stored.
LEMMA LeftStep ==
  ASSUME Base, LeftOrStored, NEW p \in Passes, AgentStep(p), pass'[p].at \in StoresNow,
         NEW b, b = pass'[p].call.batch, NEW n \in DOMAIN b, IsLast(b, n), NEW i, i = b[n]
  PROVE  i \in ItemsOf(pass'[p].left) \/ InTree(i, JobOf[p])'
<1>1. pass \in [Passes -> PassTypes] /\ tree \in Seq(TreeItems) /\ Len(tree) \in Nat
  BY BaseParts
<1>2. \A k \in DOMAIN tree : k \in DOMAIN tree' /\ tree'[k] = tree[k]
  BY TreeGrows
<1>3. CASE StartPersist(p)
  <2>1. /\ b = pass[p].call.batch /\ pass[p].at = "persist"
        /\ pass'[p].left = sortedItems[b]
    BY <1>3, StartDoes DEF SameCall
  <2>2. b \in Seq(GeneratedItem) /\ pass'[p].left = sortItemsTopologically(b)
    BY <2>1, CallSorted
  <2> QED
    BY <2>2, SortedParentsFirst
<1>4. ASSUME pass[p].at \in StoresNow, pass[p].left # <<>>, pass'[p].call = pass[p].call,
             pass'[p].left = Tail(pass[p].left), NEW x, x = NextItem(p), InTree(x, JobOf[p])'
      PROVE  i \in ItemsOf(pass'[p].left) \/ InTree(i, JobOf[p])'
  <2>1. i \in ItemsOf(pass[p].left) \/ InTree(i, JobOf[p])
    BY <1>4 DEF LeftOrStored
  <2>2. pass[p].left \in Seq(GeneratedItem)
    BY <1>1 DEF PassTypes
  <2>3. i \in ItemsOf(pass[p].left) => i = NextItem(p) \/ i \in ItemsOf(Tail(pass[p].left))
    BY <1>4, <2>2, TailItems DEF NextItem
  <2>4. InTree(i, JobOf[p]) => InTree(i, JobOf[p])'
    BY <1>2, InTreeStays
  <2> QED
    BY <1>4, <2>1, <2>3, <2>4
<1>5. CASE CreateItem(p)
  <2>1. PICK x : x = NextItem(p)
    OBVIOUS
  <2>2. x.into = 0 /\ pass[p].left # <<>> /\ pass[p].at = "counted" /\ pass'[p].left = Tail(pass[p].left)
        /\ pass'[p].call = pass[p].call
    BY <1>5, <2>1, CreateItemDoes DEF SameCall
  <2>3. TreeItem(p) \in TreeItems
    BY <1>1, <2>2, NextItemTypes
  <2>4. TreeItem(p).job = JobOf[p] /\ TreeItem(p).id = x.id
    BY <2>1 DEF TreeItem
  <2>5. PICK y \in TreeItems : y = TreeItem(p)
    BY <2>3
  <2>6. tree' = Append(tree, y)
    BY <1>5, <2>5 DEF CreateItem
  <2>7. Len(tree) + 1 \in DOMAIN tree' /\ tree'[Len(tree) + 1] = y
    BY <1>1, <2>6
  <2>8. InTree(x, JobOf[p])'
    BY <2>2, <2>4, <2>5, <2>7 DEF InTree
  <2> QED
    BY <1>4, <2>1, <2>2, <2>8 DEF StoresNow
<1>6. CASE MergeItem(p)
  <2>1. PICK x : x = NextItem(p)
    OBVIOUS
  <2>2. /\ x.into # 0 /\ x.into \in DOMAIN tree /\ pass[p].left # <<>> /\ pass[p].at = "create"
        /\ pass'[p].left = Tail(pass[p].left) /\ pass'[p].call = pass[p].call
    BY <1>6, <2>1, MergeItemDoes DEF SameCall
  <2>3. InTree(x, JobOf[p])'
    BY <1>2, <2>2 DEF InTree
  <2> QED
    BY <1>4, <2>1, <2>2, <2>3 DEF StoresNow
<1>7. CASE pass[p].at \in StoresNow /\ tree' = tree /\ SameCall(pass[p], pass'[p]) /\ SameTool(pass[p], pass'[p])
  <2>1. b = pass[p].call.batch /\ pass'[p].left = pass[p].left
    BY <1>7 DEF SameCall, SameTool
  <2>2. i \in ItemsOf(pass[p].left) \/ InTree(i, JobOf[p])
    BY <1>7, <2>1 DEF LeftOrStored
  <2>3. InTree(i, JobOf[p]) => InTree(i, JobOf[p])'
    BY <1>2, InTreeStays
  <2> QED
    BY <2>1, <2>2, <2>3
<1> QED
  BY <1>3, <1>5, <1>6, <1>7, StoringStep

\* Only an answer that says saved promises anything.
LEMMA OnlySaved == \A o : o.kind # "saved" => IsStored(o)
BY DEF IsStored

\* What a step of p answers is stored.
LEMMA SavedAnswer ==
  ASSUME Base, LeftOrStored, SavedIsStored, NEW p \in Passes, AgentStep(p),
         NEW o, o = pass'[p].outputs
  PROVE  IsStored(o)'
<1>1. pass \in [Passes -> PassTypes] /\ RestTypes /\ Named /\ ShapeOf(p, pass[p]) /\ JobOf[p] \in Jobs
  BY BaseParts, JobIs
<1>2. \A x : IsStored(x) => IsStored(x)'
  BY TreeGrows, InTreeStays
<1>3. CASE pass'[p].at # "after"
  <2>1. Base'
    BY BaseStep DEF Next
  <2>2. ShapeOf(p, pass'[p])
    BY <2>1 DEF Base, Shaped
  <2>3. o = NoOutput
    BY <1>3, <2>2 DEF ShapeOf
  <2>4. o.kind # "saved"
    BY <2>3, OutputTypes
  <2> QED
    BY <1>2, <2>4, OnlySaved
<1>4. CASE Nudge(p) \/ generate_brief(p) \/ PersistNothing(p)
  <2>1. o.kind \in {"nudge", "brief", "empty"}
    <3>1. CASE Nudge(p)
      <4>1. o = Output("nudge", JobOf[p], <<>>)
        BY <1>1, <3>1, NudgeDoes
      <4> QED
        BY <1>1, <4>1, OutputTypes
    <3>2. CASE generate_brief(p)
      <4>1. o = Output("brief", JobOf[p], <<>>)
        BY <1>1, <3>2, BriefDoes
      <4> QED
        BY <1>1, <4>1, OutputTypes
    <3>3. CASE PersistNothing(p)
      <4>1. Return(p, Output("empty", JobOf[p], <<>>)) /\ Output("empty", JobOf[p], <<>>) \in Outputs
        BY <1>1, <3>3, OutputTypes DEF PersistNothing
      <4> QED
        BY <1>1, <4>1, ReturnDoes, OutputTypes
    <3> QED
      BY <1>4, <3>1, <3>2, <3>3
  <2> QED
    BY <1>2, <2>1, OnlySaved
<1>5. CASE PersistRefused(p) \/ ItemRefused(p) \/ StoringFails(p)
  <2>1. o.kind = "error"
    BY <1>1, <1>5, PersistRefusedDoes, StopDoes
  <2> QED
    BY <1>2, <2>1, OnlySaved
<1>6. CASE ResumeFromCheckpoint(p)
  <2>1. pass[p].at = "before"
    BY <1>6 DEF ResumeFromCheckpoint, Before, At
  <2>2. o = checkpoints[currentJobID][checkpointKey(pass[p].call)].outputs
    BY <1>1, <1>6, ResumedIs, ResumeDoes
  <2>3. currentJobID \in Jobs
    BY <1>1, <2>1 DEF Named, Hooked
  <2>4. IsStored(o)
    BY <2>2, <2>3, StageOf DEF SavedIsStored
  <2> QED
    BY <1>2, <2>4
<1>7. CASE RewriteLinks(p)
  <2>1. /\ pass[p].at = "create" /\ pass[p].left = <<>> /\ o.from = JobOf[p]
        /\ o.batch = pass[p].call.batch
    BY <1>1, <1>7, RewriteLinksDoes
  <2>2. ItemsOf(pass[p].left) = {}
    BY <2>1 DEF ItemsOf
  <2>3. \A n \in DOMAIN o.batch : IsLast(o.batch, n) => InTree(o.batch[n], JobOf[p])
    BY <2>1, <2>2 DEF LeftOrStored, StoresNow
  <2>4. IsStored(o)
    BY <2>1, <2>3, StoredByItem
  <2> QED
    BY <1>2, <2>4
<1> QED
  BY <1>3, <1>4, <1>5, <1>6, <1>7, PlacesAfter

\* What a step of p files is stored.
LEMMA SavedFiled ==
  ASSUME Base, SavedIsStored, NEW p \in Passes, AgentStep(p), NEW k \in Jobs, NEW s \in Stages,
         NEW o, o = checkpoints'[k][s].outputs
  PROVE  IsStored(o)'
<1>1. RestTypes
  BY BaseParts
<1>2. \A x : IsStored(x) => IsStored(x)'
  BY TreeGrows, InTreeStays
<1>3. CASE checkpoints'[k][s] = checkpoints[k][s]
  BY <1>2, <1>3 DEF SavedIsStored
<1>4. CASE checkpoints'[k][s] # checkpoints[k][s]
  <2>1. checkpoints' = [checkpoints EXCEPT ![currentJobID][checkpointKey(pass[p].call)] =
                          Envelope(pass[p].outputs)]
    BY <1>4, CheckpointsKept DEF AfterTool
  <2>2. checkpoints \in [Jobs -> [Stages -> Envelopes]]
    BY <1>1 DEF RestTypes
  <2>3. PICK e : e = Envelope(pass[p].outputs)
    OBVIOUS
  <2>4. checkpoints'[k][s] = e
    BY <1>4, <2>1, <2>2, <2>3
  <2>5. o = pass[p].outputs
    BY <2>3, <2>4 DEF Envelope
  <2>6. IsStored(o)
    BY <2>5 DEF SavedIsStored
  <2> QED
    BY <1>2, <2>6
<1> QED
  BY <1>3, <1>4

\* The promise of every answer is kept.
LEMMA SavedStep ==
  ASSUME Base, LeftOrStored, SavedIsStored, [Next]_vars
  PROVE  LeftOrStored' /\ SavedIsStored'
<1>1. CASE \E p \in Passes : AgentStep(p)
  <2>1. PICK p \in Passes : AgentStep(p)
    BY <1>1
  <2>2. Only(p)
    BY <2>1, PlacesStep
  <2>3. /\ \A i, k : InTree(i, k) => InTree(i, k)'
        /\ \A x : IsStored(x) => IsStored(x)'
    BY <2>1, TreeGrows, InTreeStays
  <2>4. ASSUME NEW k \in Passes, pass'[k].at \in StoresNow, NEW b, b = pass'[k].call.batch,
               NEW n \in DOMAIN b, IsLast(b, n), NEW i, i = b[n]
        PROVE  i \in ItemsOf(pass'[k].left) \/ InTree(i, JobOf[k])'
    <3>1. CASE k = p
      BY <2>1, <2>4, <3>1, LeftStep
    <3>2. CASE k # p
      <4>1. pass'[k] = pass[k]
        BY <2>2, <3>2 DEF Only
      <4>2. i \in ItemsOf(pass[k].left) \/ InTree(i, JobOf[k])
        BY <2>4, <4>1 DEF LeftOrStored
      <4> QED
        BY <2>3, <4>1, <4>2
    <3> QED
      BY <3>1, <3>2
  <2>5. LeftOrStored'
    BY <2>4 DEF LeftOrStored, InTree
  <2>6. ASSUME NEW k \in Passes PROVE IsStored(pass[k].outputs)'
    <3>1. PICK o : o = pass'[k].outputs
      OBVIOUS
    <3>2. IsStored(o)'
      <4>1. CASE k = p
        BY <2>1, <3>1, <4>1, SavedAnswer
      <4>2. CASE k # p
        BY <2>2, <2>3, <3>1, <4>2 DEF Only, SavedIsStored
      <4> QED
        BY <4>1, <4>2
    <3> QED
      BY <3>1, <3>2 DEF IsStored
  <2>7. ASSUME NEW k \in Jobs, NEW s \in Stages PROVE IsStored(checkpoints[k][s].outputs)'
    <3>1. PICK o : o = checkpoints'[k][s].outputs
      OBVIOUS
    <3>2. IsStored(o)'
      BY <2>1, <3>1, SavedFiled
    <3> QED
      BY <3>1, <3>2 DEF IsStored
  <2>8. SavedIsStored'
    BY <2>6, <2>7 DEF SavedIsStored
  <2> QED
    BY <2>5, <2>8
<1>2. CASE \A p \in Passes : ~AgentStep(p)
  <2>1. /\ tree' = tree /\ checkpoints' = checkpoints
        /\ \A k \in Passes :
              \/ /\ pass'[k].at = pass[k].at /\ pass'[k].outputs = pass[k].outputs
                 /\ SameCall(pass[k], pass'[k]) /\ SameTool(pass[k], pass'[k])
              \/ pass'[k].at \in Resting \cup {"begun"}
    BY <1>2, OtherSteps
  <2>2. LeftOrStored'
    BY <2>1 DEF LeftOrStored, InTree, SameCall, SameTool, Resting, StoresNow
  <2>3. \A k \in Passes : pass'[k].at \in Resting \cup {"begun"} => pass'[k].outputs = NoOutput
    <3>1. Base'
      BY BaseStep
    <3> QED
      BY <3>1 DEF Base, Shaped, ShapeOf, Resting
  <2>4. SavedIsStored'
    BY <2>1, <2>3, OutputTypes DEF SavedIsStored, IsStored
  <2> QED
    BY <2>2, <2>4
<1> QED
  BY <1>1, <1>2

\* What an agent is told is saved is in the tree, whether the answer is fresh or from a
\* checkpoint, and whichever pass it is given to: every item of a list that repeats no
\* local id, and the last item of each local id otherwise. That an earlier one with the
\* same local id was dropped, the answer does not say.
THEOREM SavedMeansStored == Spec => []SavedIsStored
<1>1. Init => LeftOrStored /\ SavedIsStored
  <2> SUFFICES ASSUME Init PROVE LeftOrStored /\ SavedIsStored
    OBVIOUS
  <2>1. \A p \in Passes : pass[p].at = "idle" /\ pass[p].outputs = NoOutput
    BY DEF Init, NoPass
  <2>2. \A j \in Jobs, s \in Stages : checkpoints[j][s].outputs = NoOutput
    BY DEF Init, NoCheckpoint
  <2> QED
    BY <2>1, <2>2, OutputTypes DEF LeftOrStored, SavedIsStored, IsStored, StoresNow
<1>2. Base /\ LeftOrStored /\ SavedIsStored /\ [Next]_vars => (Base /\ LeftOrStored /\ SavedIsStored)'
  BY BaseStep, SavedStep
<1> QED
  BY <1>1, <1>2, InitBase, PTL DEF Spec

-----------------------------------------------------------------------------
(* Where an item is placed.                                                *)

\* The item at k waits for one of its parent's local id that is still to be stored: a
\* single one, which the list creates.
Waits(s, k) ==
  \E m \in DOMAIN s :
    /\ m < k /\ s[m].id = s[k].under /\ s[m].into = 0
    /\ \A l \in DOMAIN s : l < k /\ s[l].id = s[k].under => l = m

\* The local id u leads to the item of job j that it became.
Leads(ids, u, j) == ids[u] \in DOMAIN tree /\ tree[ids[u]].id = u /\ tree[ids[u]].job = j

\* The parent of the item at k is stored, and no other with its local id is to come
\* before the item.
Finds(s, ids, j, k) ==
  /\ \A l \in DOMAIN s : l < k => s[l].id # s[k].under
  /\ Leads(ids, s[k].under, j)

\* Every item of s whose parent b creates will find it.
ParentsReady(b, s, ids, j) ==
  \A k \in DOMAIN s :
    CreatedParent(b, s[k]) # NoItem => Waits(s, k) \/ Finds(s, ids, j, k)

\* A pass that stores items knows the parents of those to come.
ParentsKnown ==
  \A p \in Passes : pass[p].at \in StoresNow =>
    ParentsReady(pass[p].call.batch, pass[p].left, pass[p].itemIDs, JobOf[p])

\* A parent that the list creates is the one the item names.
LEMMA ParentNamed ==
  \A b, i : CreatedParent(b, i) # NoItem => CreatedParent(b, i) = i.under /\ i.under # NoItem
BY DEF CreatedParent

\* The items of a list, one by one.
LEMMA ItemTypes ==
  ASSUME NEW b \in Seq(GeneratedItem), NEW i \in ItemsOf(b)
  PROVE  i \in GeneratedItem /\ i.id \in LocalIds
<1>1. PICK n \in DOMAIN b : b[n] = i
  BY InItems
<1>2. i \in GeneratedItem
  BY <1>1
<1> QED
  BY <1>2 DEF GeneratedItem

\* With an item stored as the tree's n-th, those that wait for it follow it.
LEMMA ReadyAfterHead ==
  ASSUME NEW b, NEW j, NEW s \in Seq(GeneratedItem), s # <<>>, NEW ids \in [LocalIds -> Nat],
         NEW n \in Nat, NEW t, t = Tail(s), NEW new, new = [ids EXCEPT ![Head(s).id] = n],
         \A m \in DOMAIN tree : m \in DOMAIN tree' /\ tree'[m] = tree[m],
         Head(s).into = 0 => n \in DOMAIN tree' /\ tree'[n].id = Head(s).id /\ tree'[n].job = j,
         ParentsReady(b, s, ids, j)
  PROVE  ParentsReady(b, t, new, j)'
<1>1. /\ t \in Seq(GeneratedItem) /\ 1 \in DOMAIN s /\ Head(s) = s[1]
      /\ \A k \in DOMAIN t : k + 1 \in DOMAIN s /\ t[k] = s[k + 1] /\ k \in Nat /\ k >= 1
      /\ \A k \in DOMAIN s : k = 1 \/ (k - 1 \in DOMAIN t /\ t[k - 1] = s[k])
      /\ DOMAIN s \subseteq Nat
  BY TailItems
<1>2. Head(s).id \in LocalIds
  <2>1. s[1] \in GeneratedItem
    BY <1>1
  <2> QED
    BY <1>1, <2>1 DEF GeneratedItem
<1>3. /\ new[Head(s).id] = n
      /\ \A u \in LocalIds : u # Head(s).id => new[u] = ids[u]
  BY <1>2
<1>4. ASSUME NEW k \in DOMAIN t, NEW c, c = CreatedParent(b, t[k]), c # NoItem
      PROVE  Waits(t, k) \/ Finds(t, new, j, k)'
  <2>1. k + 1 \in DOMAIN s /\ t[k] = s[k + 1] /\ k \in Nat /\ k >= 1
    BY <1>1
  <2>2. PICK u : u = t[k].under
    OBVIOUS
  <2>3. u \in LocalIds
    <3>1. s[k + 1] \in GeneratedItem
      BY <2>1
    <3>2. u \in LocalIds \cup {NoItem}
      BY <2>1, <2>2, <3>1 DEF GeneratedItem
    <3>3. u # NoItem
      BY <1>4, <2>2, ParentNamed
    <3> QED
      BY <3>2, <3>3
  <2>4. Waits(s, k + 1) \/ Finds(s, ids, j, k + 1)
    BY <1>4, <2>1 DEF ParentsReady
  <2>5. CASE Waits(s, k + 1)
    <3>1. PICK m \in DOMAIN s : /\ m < k + 1 /\ s[m].id = u /\ s[m].into = 0
                                /\ \A l \in DOMAIN s : l < k + 1 /\ s[l].id = u => l = m
      BY <2>1, <2>2, <2>5 DEF Waits
    <3>2. ASSUME NEW l \in DOMAIN t, l < k, t[l].id = u PROVE l + 1 = m
      <4>1. l + 1 \in DOMAIN s /\ t[l] = s[l + 1] /\ l \in Nat
        BY <1>1
      <4>2. l + 1 < k + 1
        BY <2>1, <3>2, <4>1
      <4> QED
        BY <3>1, <3>2, <4>1, <4>2
    <3>3. CASE m = 1
      <4>1. Head(s).id = u /\ Head(s).into = 0
        BY <1>1, <3>1, <3>3
      <4>2. new[u] = n
        BY <1>3, <4>1
      <4>3. n \in DOMAIN tree' /\ tree'[n].id = u /\ tree'[n].job = j
        BY <4>1
      <4>4. \A l \in DOMAIN t : l < k => t[l].id # u
        <5>1. \A l \in DOMAIN t : l \in Nat /\ l >= 1 /\ l + 1 # 1
          BY <1>1
        <5> QED
          BY <3>2, <3>3, <5>1
      <4>5. Leads(new, u, j)'
        BY <4>2, <4>3 DEF Leads
      <4> QED
        BY <2>2, <4>4, <4>5 DEF Finds, Leads
    <3>4. CASE m # 1
      <4>1. m - 1 \in DOMAIN t /\ t[m - 1] = s[m] /\ m \in Nat
        BY <1>1, <3>4
      <4>2. m - 1 < k
        BY <2>1, <3>1, <4>1
      <4>3. \A l \in DOMAIN t : l < k /\ t[l].id = u => l = m - 1
        <5>1. \A l \in DOMAIN t : l \in Nat
          BY <1>1
        <5> QED
          BY <3>2, <4>1, <5>1
      <4> QED
        BY <2>2, <3>1, <4>1, <4>2, <4>3 DEF Waits
    <3> QED
      BY <3>3, <3>4
  <2>6. CASE Finds(s, ids, j, k + 1)
    <3>1. /\ \A l \in DOMAIN s : l < k + 1 => s[l].id # u
          /\ Leads(ids, u, j)
      BY <2>1, <2>2, <2>6 DEF Finds
    <3>2. Head(s).id # u
      <4>1. 1 < k + 1
        BY <2>1
      <4> QED
        BY <1>1, <3>1, <4>1
    <3>3. new[u] = ids[u]
      BY <1>3, <2>3, <3>2
    <3>4. Leads(new, u, j)'
      BY <3>1, <3>3 DEF Leads
    <3>5. \A l \in DOMAIN t : l < k => t[l].id # u
      <4> SUFFICES ASSUME NEW l \in DOMAIN t, l < k PROVE t[l].id # u
        OBVIOUS
      <4>1. l + 1 \in DOMAIN s /\ t[l] = s[l + 1] /\ l \in Nat
        BY <1>1
      <4>2. l + 1 < k + 1
        BY <2>1, <4>1
      <4> QED
        BY <3>1, <4>1, <4>2
    <3> QED
      BY <2>2, <3>4, <3>5 DEF Finds, Leads
  <2> QED
    BY <2>4, <2>5, <2>6
<1> QED
  BY <1>4 DEF ParentsReady, Finds, Leads

\* Parents stay ready while the tree grows.
LEMMA ReadyStays ==
  ASSUME \A m \in DOMAIN tree : m \in DOMAIN tree' /\ tree'[m] = tree[m],
         NEW b, NEW s, NEW ids, NEW j, ParentsReady(b, s, ids, j)
  PROVE  ParentsReady(b, s, ids, j)'
<1>1. \A u : Leads(ids, u, j) => Leads(ids, u, j)'
  BY DEF Leads
<1>2. \A k : Finds(s, ids, j, k) => Finds(s, ids, j, k)'
  BY <1>1 DEF Finds, Leads
<1> QED
  BY <1>2 DEF ParentsReady, Finds, Leads

\* What the step of a pass that stores does to the tree, to its list and to its ids.
LEMMA StoresOne ==
  ASSUME Base, NEW p \in Passes, CreateItem(p) \/ MergeItem(p)
  PROVE  /\ pass[p].at \in StoresNow /\ pass'[p].at \in StoresNow
         /\ pass[p].left \in Seq(GeneratedItem) /\ pass[p].left # <<>>
         /\ pass[p].itemIDs \in [LocalIds -> Nat]
         /\ pass'[p].call = pass[p].call /\ pass'[p].left = Tail(pass[p].left)
         /\ \E n \in Nat :
              /\ n # 0 /\ n \in DOMAIN tree'
              /\ pass'[p].itemIDs = [pass[p].itemIDs EXCEPT ![Head(pass[p].left).id] = n]
              /\ Head(pass[p].left).into = 0 => tree'[n].id = Head(pass[p].left).id /\ tree'[n].job = JobOf[p]
              /\ \A m \in DOMAIN tree' : \/ m \in DOMAIN tree /\ tree'[m] = tree[m]
                                         \/ m = n /\ tree'[m].id = Head(pass[p].left).id
<1>1. pass \in [Passes -> PassTypes] /\ tree \in Seq(TreeItems) /\ Len(tree) + 1 \in Nat
  BY BaseParts
<1>2. pass[p].left \in Seq(GeneratedItem) /\ pass[p].itemIDs \in [LocalIds -> Nat]
  BY <1>1 DEF PassTypes
<1>3. NextItem(p) = Head(pass[p].left)
  BY DEF NextItem
<1>4. CASE CreateItem(p)
  <2>1. /\ pass[p].left # <<>> /\ pass[p].at = "counted" /\ pass'[p].at = "inserted"
        /\ pass'[p].left = Tail(pass[p].left) /\ pass'[p].call = pass[p].call
        /\ pass'[p].itemIDs = [pass[p].itemIDs EXCEPT ![Head(pass[p].left).id] = Len(tree) + 1]
    BY <1>3, <1>4, CreateItemDoes DEF SameCall
  <2>2. TreeItem(p) \in TreeItems
    BY <1>1, <2>1, NextItemTypes
  <2>3. TreeItem(p).job = JobOf[p] /\ TreeItem(p).id = Head(pass[p].left).id
    BY <1>3 DEF TreeItem
  <2>4. PICK y \in TreeItems : y = TreeItem(p)
    BY <2>2
  <2>5. tree' = Append(tree, y)
    BY <1>4, <2>4 DEF CreateItem
  <2>6. PICK n \in Nat : n = Len(tree) + 1
    BY <1>1
  <2>7. /\ n # 0 /\ n \in DOMAIN tree' /\ tree'[n] = y
        /\ \A m \in DOMAIN tree' : (m \in DOMAIN tree /\ tree'[m] = tree[m]) \/ m = n
    BY <1>1, <2>5, <2>6
  <2> QED
    BY <1>2, <2>1, <2>3, <2>4, <2>6, <2>7 DEF StoresNow
<1>5. CASE MergeItem(p)
  <2>1. /\ pass[p].left # <<>> /\ pass[p].at = "create" /\ pass'[p].at = "create"
        /\ pass'[p].left = Tail(pass[p].left) /\ pass'[p].call = pass[p].call
        /\ Head(pass[p].left).into # 0 /\ Head(pass[p].left).into \in DOMAIN tree
        /\ pass'[p].itemIDs = [pass[p].itemIDs EXCEPT ![Head(pass[p].left).id] = Head(pass[p].left).into]
    BY <1>3, <1>5, MergeItemDoes DEF SameCall
  <2>2. tree' = tree
    BY <1>5 DEF MergeItem
  <2>3. Head(pass[p].left).into \in Nat
    BY <1>1, <2>1
  <2> QED
    BY <1>2, <2>1, <2>2, <2>3 DEF StoresNow
<1> QED
  BY <1>4, <1>5

\* A step of p keeps the parents of its items known.
LEMMA KnownStep ==
  ASSUME Base, ParentsKnown, NEW p \in Passes, AgentStep(p), pass'[p].at \in StoresNow,
         NEW b, b = pass'[p].call.batch, NEW s, s = pass'[p].left, NEW ids, ids = pass'[p].itemIDs
  PROVE  ParentsReady(b, s, ids, JobOf[p])'
<1>1. \A n \in DOMAIN tree : n \in DOMAIN tree' /\ tree'[n] = tree[n]
  BY TreeGrows
<1>2. CASE StartPersist(p)
  <2>1. b = pass[p].call.batch /\ s = sortedItems[b] /\ pass[p].at = "persist"
    BY <1>2, StartDoes DEF SameCall
  <2>2. b \in Seq(GeneratedItem) /\ s = sortItemsTopologically(b)
    BY <2>1, CallSorted
  <2>3. \A k \in DOMAIN s : CreatedParent(b, s[k]) # NoItem => Waits(s, k)
    BY <2>2, SortedParentsFirst DEF Waits
  <2> QED
    BY <2>3 DEF ParentsReady
<1>3. CASE CreateItem(p) \/ MergeItem(p)
  <2>1. PICK old : old = pass[p].left
    OBVIOUS
  <2>2. PICK was : was = pass[p].itemIDs
    OBVIOUS
  <2>3. /\ pass[p].at \in StoresNow /\ old \in Seq(GeneratedItem) /\ old # <<>>
        /\ was \in [LocalIds -> Nat] /\ s = Tail(old) /\ b = pass[p].call.batch
    BY <1>3, <2>1, <2>2, StoresOne
  <2>4. PICK n \in Nat : /\ ids = [was EXCEPT ![Head(old).id] = n]
                         /\ n \in DOMAIN tree'
                         /\ Head(old).into = 0 => tree'[n].id = Head(old).id /\ tree'[n].job = JobOf[p]
    BY <1>3, <2>1, <2>2, StoresOne
  <2>5. PICK j : j = JobOf[p]
    OBVIOUS
  <2>6. ParentsReady(b, old, was, j)
    BY <2>1, <2>2, <2>3, <2>5 DEF ParentsKnown
  <2>7. Head(old).into = 0 => n \in DOMAIN tree' /\ tree'[n].id = Head(old).id /\ tree'[n].job = j
    BY <2>4, <2>5
  <2>8. ParentsReady(b, s, ids, j)'
    BY <1>1, <2>3, <2>4, <2>6, <2>7, ReadyAfterHead
  <2> QED
    BY <2>5, <2>8 DEF ParentsReady, Finds, Leads
<1>4. CASE pass[p].at \in StoresNow /\ tree' = tree /\ SameCall(pass[p], pass'[p]) /\ SameTool(pass[p], pass'[p])
  <2>1. b = pass[p].call.batch /\ s = pass[p].left /\ ids = pass[p].itemIDs
    BY <1>4 DEF SameCall, SameTool
  <2>2. ParentsReady(b, s, ids, JobOf[p])
    BY <1>4, <2>1 DEF ParentsKnown
  <2> QED
    BY <1>4, <2>2 DEF ParentsReady, Finds, Leads
<1> QED
  BY <1>2, <1>3, <1>4, StoringStep

\* The parents stay known.
LEMMA ParentsKnownStep ==
  ASSUME Base, ParentsKnown, [Next]_vars
  PROVE  ParentsKnown'
<1>1. CASE \E p \in Passes : AgentStep(p)
  <2>1. PICK p \in Passes : AgentStep(p)
    BY <1>1
  <2>2. \A n \in DOMAIN tree : n \in DOMAIN tree' /\ tree'[n] = tree[n]
    BY <2>1, TreeGrows
  <2>3. ASSUME NEW k \in Passes, pass'[k].at \in StoresNow, NEW j, j = JobOf[k],
               NEW b, b = pass'[k].call.batch, NEW s, s = pass'[k].left, NEW ids, ids = pass'[k].itemIDs
        PROVE  ParentsReady(b, s, ids, j)'
    <3>1. CASE k = p
      <4>1. ParentsReady(b, s, ids, JobOf[p])'
        BY <2>1, <2>3, <3>1, KnownStep
      <4> QED
        BY <2>3, <3>1, <4>1 DEF ParentsReady, Finds, Leads
    <3>2. CASE k # p
      <4>1. pass'[k] = pass[k]
        BY <2>1, <3>2, PlacesStep DEF Only
      <4>2. ParentsReady(b, s, ids, j)
        BY <2>3, <4>1 DEF ParentsKnown
      <4> QED
        BY <2>2, <4>2, ReadyStays
    <3> QED
      BY <3>1, <3>2
  <2> QED
    BY <2>3 DEF ParentsKnown, ParentsReady, Finds, Leads
<1>2. CASE \A p \in Passes : ~AgentStep(p)
  <2>1. /\ tree' = tree
        /\ \A k \in Passes :
              \/ /\ pass'[k].at = pass[k].at
                 /\ SameCall(pass[k], pass'[k]) /\ SameTool(pass[k], pass'[k])
              \/ pass'[k].at \in Resting \cup {"begun"}
    BY <1>2, OtherSteps
  <2>2. ASSUME NEW k \in Passes, pass'[k].at \in StoresNow
        PROVE  /\ pass[k].at \in StoresNow /\ pass'[k].call.batch = pass[k].call.batch
               /\ pass'[k].left = pass[k].left /\ pass'[k].itemIDs = pass[k].itemIDs
    BY <2>1, <2>2 DEF SameCall, SameTool, Resting, StoresNow
  <2> QED
    BY <2>1, <2>2 DEF ParentsKnown, ParentsReady, Finds, Leads
<1> QED
  BY <1>1, <1>2

\* An item joins the tree under its parent.
LEMMA PlacedStep ==
  ASSUME Base, ParentsKnown, PlacedUnderParent, [Next]_vars
  PROVE  PlacedUnderParent'
<1>1. CASE tree' = tree
  BY <1>1 DEF PlacedUnderParent
<1>2. CASE tree' # tree
  <2>1. PICK p \in Passes : AgentStep(p)
    BY <1>2, OtherSteps
  <2>2. /\ \A n \in DOMAIN tree : n \in DOMAIN tree' /\ tree'[n] = tree[n]
        /\ CreateItem(p) /\ tree'[Len(tree) + 1] = TreeItem(p)
        /\ DOMAIN tree' = DOMAIN tree \cup {Len(tree) + 1}
        /\ DOMAIN tree = 1..Len(tree) /\ Len(tree) \in Nat
    BY <1>2, <2>1, TreeGrows
  <2>3. ASSUME NEW n \in DOMAIN tree, tree[n].under # NoItem
        PROVE  /\ tree'[n].parent \in 1..n - 1
               /\ tree'[tree'[n].parent].id = tree'[n].under
               /\ tree'[tree'[n].parent].job = tree'[n].job
    <3>1. /\ tree[n].parent \in 1..n - 1
          /\ tree[tree[n].parent].id = tree[n].under
          /\ tree[tree[n].parent].job = tree[n].job
      BY <2>3 DEF PlacedUnderParent
    <3>2. tree[n].parent \in DOMAIN tree
      BY <2>2, <3>1
    <3> QED
      BY <2>2, <3>1, <3>2
  <2>4. PICK x : x = NextItem(p)
    OBVIOUS
  <2>5. PICK b : b = pass[p].call.batch
    OBVIOUS
  <2>6. PICK i : i = TreeItem(p)
    OBVIOUS
  <2>7. i.job = JobOf[p] /\ i.under = CreatedParent(b, x) /\ i.parent = ParentFor(p)
    BY <2>4, <2>5, <2>6 DEF TreeItem
  <2>8. ASSUME i.under # NoItem
        PROVE  /\ i.parent \in DOMAIN tree
               /\ tree[i.parent].id = i.under /\ tree[i.parent].job = i.job
    <3>1. pass[p].left # <<>> /\ pass[p].at = "counted"
      BY <2>2, CreateItemDoes
    <3>2. x = pass[p].left[1] /\ 1 \in DOMAIN pass[p].left /\ DOMAIN pass[p].left \subseteq Nat \ {0}
      <4>1. pass \in [Passes -> PassTypes]
        BY BaseParts
      <4>2. pass[p].left \in Seq(GeneratedItem)
        BY <4>1 DEF PassTypes
      <4> QED
        BY <2>4, <3>1, <4>1, <4>2, NextItemTypes
    <3>3. i.under = x.under /\ x.under # NoItem
      BY <2>7, <2>8, ParentNamed
    <3>4. ParentsReady(b, pass[p].left, pass[p].itemIDs, JobOf[p])
      BY <2>5, <3>1 DEF ParentsKnown, StoresNow
    <3>5. ~Waits(pass[p].left, 1)
      BY <3>2 DEF Waits
    <3>6. Leads(pass[p].itemIDs, x.under, JobOf[p])
      BY <2>7, <2>8, <3>2, <3>4, <3>5 DEF ParentsReady, Finds
    <3>7. pass[p].itemIDs[x.under] # 0
      BY <2>2, <3>6 DEF Leads
    <3>8. ParentFor(p) = pass[p].itemIDs[x.under]
      BY <2>4, <3>3, <3>7 DEF ParentFor
    <3> QED
      BY <2>7, <3>3, <3>6, <3>8 DEF Leads
  <2>9. ASSUME i.under # NoItem
        PROVE  /\ i.parent \in 1..(Len(tree) + 1) - 1
               /\ tree'[i.parent].id = i.under /\ tree'[i.parent].job = i.job
    BY <2>2, <2>8, <2>9
  <2> QED
    BY <2>2, <2>3, <2>6, <2>9 DEF PlacedUnderParent
<1> QED
  BY <1>1, <1>2

\* An item whose parent its own list creates hangs off that parent, in whatever order
\* the model listed them, whatever local ids it repeats and whatever other passes store
\* in between.
THEOREM ItemsHangOffTheirParents == Spec => []PlacedUnderParent
<1>1. Init => ParentsKnown /\ PlacedUnderParent
  <2> SUFFICES ASSUME Init PROVE ParentsKnown /\ PlacedUnderParent
    OBVIOUS
  <2>1. \A p \in Passes : pass[p].at = "idle"
    BY DEF Init, NoPass
  <2>2. tree = <<>>
    BY DEF Init
  <2> QED
    BY <2>1, <2>2 DEF ParentsKnown, PlacedUnderParent, StoresNow
<1>2. Base /\ ParentsKnown /\ PlacedUnderParent /\ [Next]_vars
      => (Base /\ ParentsKnown /\ PlacedUnderParent)'
  BY BaseStep, ParentsKnownStep, PlacedStep
<1> QED
  BY <1>1, <1>2, InitBase, PTL DEF Spec


-----------------------------------------------------------------------------
(* No item twice.                                                          *)

\* Something of job j is in the tree.
Has(j) == \E n \in DOMAIN tree : tree[n].job = j

\* Nothing of job j is in the tree twice.
OnceOf(j) ==
  \A m, n \in DOMAIN tree : tree[m].job = j /\ tree[n].job = j /\ tree[m].id = tree[n].id => m = n

\* What is left to store has no id yet, and what job j has in the tree has one.
IdsCover(j, s, ids) ==
  /\ Distinct(s)
  /\ \A i \in ItemsOf(s) : ids[i.id] = 0
  /\ \A n \in DOMAIN tree : tree[n].job = j => ids[tree[n].id] # 0

\* The pass stores a list, or is told that one is stored.
Holds(p) == pass[p].at \in StoresNow \/ (pass[p].at = "after" /\ pass[p].outputs.kind = "saved")

\* No list of the job is stored twice.
Plain(j) == \A b \in Batches[j] : ~KeepsBoth(b)

\* A pass about to store finds nothing of its job, one that stores knows all of it, and
\* what the job has is held by a pass or by a checkpoint.
Guarded(j) ==
  /\ OnceOf(j)
  /\ \A p \in Passes : JobOf[p] = j =>
       /\ pass[p].at = "persist" => ~Has(j)
       /\ pass[p].at \in StoresNow => IdsCover(j, pass[p].left, pass[p].itemIDs)
  /\ Has(j) => \/ \E p \in Passes : JobOf[p] = j /\ Holds(p)
               \/ checkpoints[j]["persistence"] # NoCheckpoint

NotRepeated == \A j \in Jobs : Sound(j) /\ Plain(j) => Guarded(j)

\* The first item of s has got the id n: t is left, the ids are new, and the tree has no
\* other new item.
HeadStored(s, ids, n, t, new) ==
  /\ s \in Seq(GeneratedItem) /\ s # <<>> /\ ids \in [LocalIds -> Nat]
  /\ n \in Nat /\ n # 0 /\ t = Tail(s) /\ new = [ids EXCEPT ![Head(s).id] = n]
  /\ tree \in Seq(TreeItems)
  /\ \A m \in DOMAIN tree' : \/ m \in DOMAIN tree /\ tree'[m] = tree[m]
                             \/ tree'[m].id = Head(s).id

\* With an item stored, the ids still have all and only what is in the tree.
LEMMA CoverAfterHead ==
  ASSUME NEW j, NEW s, NEW ids, NEW n, NEW t, NEW new,
         HeadStored(s, ids, n, t, new), IdsCover(j, s, ids)
  PROVE  IdsCover(j, t, new)' /\ ids[Head(s).id] = 0
<1> USE DEF HeadStored
<1>1. /\ t \in Seq(GeneratedItem) /\ 1 \in DOMAIN s /\ Head(s) = s[1]
      /\ \A k \in DOMAIN t : k + 1 \in DOMAIN s /\ t[k] = s[k + 1] /\ k \in Nat /\ k >= 1
      /\ ItemsOf(t) \subseteq ItemsOf(s)
  BY TailItems
<1>2. Head(s) \in ItemsOf(s) /\ Head(s).id \in LocalIds
  <2>1. Head(s) \in ItemsOf(s)
    BY <1>1, InItems
  <2> QED
    BY <2>1, ItemTypes
<1>3. Distinct(s)
  BY DEF IdsCover
<1>4. Distinct(t)
  <2> SUFFICES ASSUME NEW k \in DOMAIN t, NEW m \in DOMAIN t, t[k].id = t[m].id PROVE k = m
    BY DEF Distinct
  <2>1. k + 1 = m + 1
    BY <1>1, <1>3 DEF Distinct
  <2> QED
    BY <1>1, <2>1
<1>5. new[Head(s).id] = n /\ \A id \in LocalIds : id # Head(s).id => new[id] = ids[id]
  BY <1>2
<1>6. ASSUME NEW i \in ItemsOf(t) PROVE new[i.id] = 0
  <2>1. i \in ItemsOf(s) /\ i.id \in LocalIds
    BY <1>1, ItemTypes
  <2>2. i.id # Head(s).id
    <3>1. PICK k \in DOMAIN t : t[k] = i
      BY InItems
    <3>2. k + 1 \in DOMAIN s /\ s[k + 1] = i /\ k + 1 # 1
      BY <1>1, <3>1
    <3> QED
      BY <1>1, <1>3, <3>2 DEF Distinct
  <2> QED
    BY <1>5, <2>1, <2>2 DEF IdsCover
<1>7. ASSUME NEW m \in DOMAIN tree', tree'[m].job = j PROVE new[tree'[m].id] # 0
  <2>1. CASE tree'[m].id = Head(s).id
    BY <1>5, <2>1
  <2>2. CASE tree'[m].id # Head(s).id
    <3>1. m \in DOMAIN tree /\ tree'[m] = tree[m]
      BY <2>2
    <3>2. tree[m] \in TreeItems
      BY <3>1
    <3>3. tree'[m].id \in LocalIds
      BY <3>1, <3>2 DEF TreeItems
    <3>4. ids[tree'[m].id] # 0
      BY <1>7, <3>1 DEF IdsCover
    <3> QED
      BY <1>5, <2>2, <3>3, <3>4
  <2> QED
    BY <2>1, <2>2
<1>8. IdsCover(j, t, new)'
  BY <1>4, <1>6, <1>7 DEF IdsCover
<1>9. ids[Head(s).id] = 0
  BY <1>2 DEF IdsCover
<1> QED
  BY <1>8, <1>9

\* A step of p that adds nothing to the tree leaves its job guarded, if p does not start
\* to store over what is there or give up what only it held.
LEMMA GuardedWithoutItem ==
  ASSUME NEW p \in Passes, NEW j, j = JobOf[p], Only(p), tree' = tree, Guarded(j),
         \/ checkpoints'[j]["persistence"] = checkpoints[j]["persistence"]
         \/ checkpoints'[j]["persistence"] # NoCheckpoint,
         Has(j) /\ Holds(p) => Holds(p)' \/ checkpoints'[j]["persistence"] # NoCheckpoint,
         pass'[p].at = "persist" => ~Has(j),
         NEW s, s = pass'[p].left, NEW ids, ids = pass'[p].itemIDs,
         pass'[p].at \in StoresNow => IdsCover(j, s, ids)
  PROVE  Guarded(j)'
<1>1. OnceOf(j)' /\ (Has(j)' <=> Has(j)) /\ \A t, l : IdsCover(j, t, l) <=> IdsCover(j, t, l)'
  BY DEF Guarded, OnceOf, Has, IdsCover
<1>2. ASSUME NEW q \in Passes, JobOf[q] = j
      PROVE  /\ pass'[q].at = "persist" => ~Has(j)
             /\ pass'[q].at \in StoresNow => IdsCover(j, pass[q].left, pass[q].itemIDs)'
  <2>1. CASE q = p
    <3>1. pass'[q].at \in StoresNow => IdsCover(j, s, ids)'
      BY <1>1, <2>1
    <3> QED
      BY <2>1, <3>1 DEF IdsCover
  <2>2. CASE q # p
    <3>1. pass'[q] = pass[q]
      BY <2>2 DEF Only
    <3>2. PICK t, l : t = pass[q].left /\ l = pass[q].itemIDs
      OBVIOUS
    <3>3. pass'[q].at \in StoresNow => IdsCover(j, t, l)'
      BY <1>1, <1>2, <3>1, <3>2 DEF Guarded
    <3>4. pass'[q].at = "persist" => ~Has(j)
      BY <1>2, <3>1 DEF Guarded
    <3> QED
      BY <3>1, <3>2, <3>3, <3>4 DEF IdsCover
  <2> QED
    BY <2>1, <2>2
<1>3. ASSUME Has(j)
      PROVE  (\E q \in Passes : JobOf[q] = j /\ Holds(q)') \/ checkpoints'[j]["persistence"] # NoCheckpoint
  <2>1. CASE checkpoints[j]["persistence"] # NoCheckpoint
    BY <2>1
  <2>2. CASE \E q \in Passes : JobOf[q] = j /\ Holds(q)
    <3>1. PICK q \in Passes : JobOf[q] = j /\ Holds(q)
      BY <2>2
    <3>2. CASE q = p
      BY <1>3, <3>1, <3>2
    <3>3. CASE q # p
      BY <3>1, <3>3 DEF Holds, Only
    <3> QED
      BY <3>2, <3>3
  <2> QED
    BY <1>3, <2>1, <2>2 DEF Guarded
<1> QED
  BY <1>1, <1>2, <1>3 DEF Guarded

\* Where a pass that is to store, stores or holds a list stands.
LEMMA BusyStage ==
  ASSUME Base', AnswersOfStage', NEW q \in Passes, JobOf[q] \notin mixed',
         pass'[q].at = "persist" \/ Holds(q)'
  PROVE  pass'[q].at \in BetweenHooks /\ checkpointKey(pass'[q].call) = "persistence"
<1>1. ShapeOf(q, pass'[q])
  BY DEF Base, Shaped
<1>2. CASE pass'[q].at \in StoresNow \cup {"persist"}
  BY <1>1, <1>2 DEF ShapeOf, checkpointKey, BetweenHooks, AtTool, StoresNow
<1>3. CASE pass'[q].at = "after" /\ pass'[q].outputs.kind = "saved"
  <2>1. OwnAnswer(pass'[q].outputs, JobOf[q], checkpointKey(pass'[q].call))
    BY <1>3 DEF AnswersOfStage
  <2> QED
    BY <1>3, <2>1 DEF OwnAnswer, BetweenHooks
<1> QED
  BY <1>2, <1>3 DEF Holds

\* Of the passes of a sound job one at most is to store, stores or holds a list.
LEMMA OneBusy ==
  ASSUME Base', AnswersOfStage', StageOfOne', NEW p \in Passes, NEW q \in Passes,
         p # q, JobOf[p] = JobOf[q], Sound(JobOf[p])',
         pass'[p].at = "persist" \/ Holds(p)', pass'[q].at = "persist" \/ Holds(q)'
  PROVE  FALSE
<1>1. JobOf[p] \notin mixed' /\ JobOf[q] \notin mixed' /\ JobOf[p] \notin raced'
  BY DEF Sound
<1>2. /\ pass'[p].at \in BetweenHooks /\ checkpointKey(pass'[p].call) = "persistence"
      /\ pass'[q].at \in BetweenHooks /\ checkpointKey(pass'[q].call) = "persistence"
  BY <1>1, BusyStage
<1> QED
  BY <1>1, <1>2 DEF StageOfOne

\* An item that p stores is not in the tree yet.
LEMMA GuardedByItem ==
  ASSUME Base, Base', AnswersOfStage', StageOfOne', NEW p \in Passes, AgentStep(p),
         CreateItem(p) \/ MergeItem(p), NEW j, j = JobOf[p], Sound(j)', Guarded(j)
  PROVE  Guarded(j)'
<1>1. PICK s, ids : s = pass[p].left /\ ids = pass[p].itemIDs
  OBVIOUS
<1>2. /\ tree \in Seq(TreeItems)
      /\ Only(p)
  BY BaseParts, PlacesStep
<1>3. /\ pass[p].at \in StoresNow /\ pass'[p].at \in StoresNow
      /\ s \in Seq(GeneratedItem) /\ s # <<>> /\ ids \in [LocalIds -> Nat]
      /\ pass'[p].left = Tail(s)
  BY <1>1, StoresOne
<1>4. PICK n \in Nat :
        /\ n # 0
        /\ pass'[p].itemIDs = [ids EXCEPT ![Head(s).id] = n]
        /\ \A m \in DOMAIN tree' : \/ m \in DOMAIN tree /\ tree'[m] = tree[m]
                                   \/ m = n /\ tree'[m].id = Head(s).id
  BY <1>1, StoresOne
<1>5. PICK t, new : t = Tail(s) /\ new = [ids EXCEPT ![Head(s).id] = n]
  OBVIOUS
<1>6. IdsCover(j, s, ids) /\ OnceOf(j)
  BY <1>1, <1>3 DEF Guarded
<1>7. IdsCover(j, t, new)' /\ ids[Head(s).id] = 0
  <2>1. HeadStored(s, ids, n, t, new)
    BY <1>2, <1>3, <1>4, <1>5 DEF HeadStored
  <2> QED
    BY <1>6, <2>1, CoverAfterHead
<1>8. \A m \in DOMAIN tree : tree[m].job = j => tree[m].id # Head(s).id
  BY <1>6, <1>7 DEF IdsCover
<1>9. OnceOf(j)'
  <2> SUFFICES ASSUME NEW m \in DOMAIN tree', NEW k \in DOMAIN tree',
                      tree'[m].job = j, tree'[k].job = j, tree'[m].id = tree'[k].id
               PROVE  m = k
    BY DEF OnceOf
  <2>1. CASE m \in DOMAIN tree /\ tree'[m] = tree[m] /\ k \in DOMAIN tree /\ tree'[k] = tree[k]
    BY <1>6, <2>1 DEF OnceOf
  <2>2. CASE tree'[m].id = Head(s).id /\ m = n
    BY <1>4, <1>8, <2>2
  <2>3. CASE tree'[k].id = Head(s).id /\ k = n
    BY <1>4, <1>8, <2>3
  <2> QED
    BY <1>4, <2>1, <2>2, <2>3
<1>10. Holds(p)'
  BY <1>3 DEF Holds
<1>11. \A q \in Passes : q # p /\ JobOf[q] = j => pass'[q].at # "persist" /\ pass'[q].at \notin StoresNow
  <2> SUFFICES ASSUME NEW q \in Passes, q # p, JobOf[q] = j,
                      pass'[q].at = "persist" \/ pass'[q].at \in StoresNow
               PROVE  FALSE
    OBVIOUS
  <2>1. pass'[q].at = "persist" \/ Holds(q)'
    BY DEF Holds
  <2> QED
    BY <1>10, <2>1, OneBusy
<1>12. IdsCover(j, pass[p].left, pass[p].itemIDs)'
  BY <1>3, <1>4, <1>5, <1>7 DEF IdsCover
<1>13. pass'[p].at # "persist"
  BY <1>3 DEF StoresNow
<1> QED
  BY <1>9, <1>10, <1>11, <1>12, <1>13 DEF Guarded

\* The checkpoint of the stage that persists is not taken away from a job whose hooks
\* are its own.
LEMMA PersistenceStays ==
  ASSUME Base, NEW p \in Passes, AgentStep(p), NEW k \in Jobs, k \notin mixed'
  PROVE  \/ checkpoints'[k]["persistence"] = checkpoints[k]["persistence"]
         \/ checkpoints'[k]["persistence"] # NoCheckpoint
<1> SUFFICES ASSUME checkpoints'[k]["persistence"] # checkpoints[k]["persistence"]
             PROVE  checkpoints'[k]["persistence"] # NoCheckpoint
  OBVIOUS
<1>1. "persistence" \in Stages
  BY DEF Stages
<1>2. checkpoints'[k]["persistence"].doc = JobOf[p]
  BY <1>1, FiledByOwnHook
<1>3. NoCheckpoint.doc # JobOf[p]
  BY JobIs, NamesAssumption DEF NoCheckpoint
<1> QED
  BY <1>2, <1>3

\* A step of one of its own passes does not repeat what a job has in the tree.
LEMMA GuardedByOwnStep ==
  ASSUME Base, AnswersOfStage, NamesItsDocument, StageOfOne, Base', AnswersOfStage', StageOfOne',
         NEW p \in Passes, AgentStep(p), NEW j \in Jobs, j = JobOf[p],
         Sound(j)', Guarded(j), Plain(j)
  PROVE  Guarded(j)'
<1>1. pass \in [Passes -> PassTypes] /\ tree \in Seq(TreeItems) /\ ShapeOf(p, pass[p]) /\ Only(p)
  BY BaseParts, PlacesStep
<1>2. j \notin mixed' /\ j \notin unsealed'
  BY DEF Sound
<1>3. \/ checkpoints'[j]["persistence"] = checkpoints[j]["persistence"]
      \/ checkpoints'[j]["persistence"] # NoCheckpoint
  BY <1>2, PersistenceStays
<1>4. PICK s, ids : s = pass'[p].left /\ ids = pass'[p].itemIDs
  OBVIOUS
<1>5. CASE CreateItem(p) \/ MergeItem(p)
  BY <1>5, GuardedByItem
<1>6. CASE EnterTool(p) /\ pass'[p].at = "persist"
  <2>1. tree' = tree /\ pass[p].at = "before" /\ checkpoints' = checkpoints
    BY <1>6 DEF EnterTool, Before, At
  <2>2. ~Holds(p) /\ pass'[p].at \notin StoresNow
    BY <1>6, <2>1 DEF Holds, StoresNow
  <2>3. checkpointKey(pass[p].call) = "persistence"
    BY <1>1, <1>6, EnterToolDoes DEF checkpointKey
  <2>4. checkpoints[j]["persistence"] = NoCheckpoint
    BY <1>2, <1>6, <2>3, NotYetFiled
  <2>5. \A q \in Passes : JobOf[q] = j => ~Holds(q)
    <3> SUFFICES ASSUME NEW q \in Passes, JobOf[q] = j, Holds(q) PROVE FALSE
      OBVIOUS
    <3>1. q # p
      BY <2>2
    <3>2. Holds(q)'
      BY <1>1, <3>1 DEF Holds, Only
    <3> QED
      BY <1>6, <3>1, <3>2, OneBusy
  <2>6. ~Has(j)
    BY <2>4, <2>5 DEF Guarded
  <2> QED
    BY <1>1, <1>3, <1>4, <2>1, <2>2, <2>6, GuardedWithoutItem
<1>7. CASE StartPersist(p)
  <2>1. tree' = tree
    BY <1>7 DEF StartPersist, Reserve
  <2>2. /\ pass[p].at = "persist" /\ pass'[p].at = "create"
        /\ s = sortedItems[pass[p].call.batch] /\ ids = pass[p].itemIDs
    BY <1>4, <1>7, StartDoes
  <2>3. PICK b : b = pass[p].call.batch
    OBVIOUS
  <2>4. b \in Seq(GeneratedItem) /\ b \in Batches[j] /\ s = sortItemsTopologically(b)
    BY <2>2, <2>3, CallSorted
  <2>5. ~KeepsBoth(b)
    BY <2>4 DEF Plain
  <2>6. Distinct(s) /\ s \in Seq(GeneratedItem)
    BY <2>4, <2>5, SortedParentsFirst
  <2>7. ids = [i \in LocalIds |-> 0]
    BY <1>1, <2>2 DEF ShapeOf, Idle, StoresNow
  <2>8. \A i \in ItemsOf(s) : ids[i.id] = 0
    BY <2>6, <2>7, ItemTypes
  <2>9. ~Has(j)
    BY <2>2 DEF Guarded
  <2>10. IdsCover(j, s, ids)
    BY <2>6, <2>8, <2>9 DEF IdsCover, Has
  <2>11. pass'[p].at # "persist"
    BY <2>2
  <2> QED
    BY <1>1, <1>3, <1>4, <2>1, <2>9, <2>10, <2>11, GuardedWithoutItem
<1>8. CASE CountItems(p) \/ LogItem(p)
  <2>1. tree' = tree
    BY <1>8 DEF CountItems, LogItem
  <2>2. /\ pass[p].at \in StoresNow /\ pass'[p].at \in StoresNow /\ SameTool(pass[p], pass'[p])
    BY <1>8, CountItemsDoes, LogItemDoes DEF StoresNow
  <2>3. PICK t, l : t = pass[p].left /\ l = pass[p].itemIDs
    OBVIOUS
  <2>4. IdsCover(j, t, l) /\ t = s /\ l = ids
    BY <1>4, <2>2, <2>3 DEF Guarded, SameTool
  <2>5. Holds(p)' /\ pass'[p].at # "persist"
    BY <2>2 DEF Holds, StoresNow
  <2> QED
    BY <1>1, <1>3, <1>4, <2>1, <2>4, <2>5, GuardedWithoutItem
<1>9. CASE ItemRefused(p) \/ StoringFails(p)
  <2>1. pass[p].at \in StoresNow /\ pass'[p].at = "after" /\ tree' = tree
    BY <1>9, StopDoes
  <2>2. \E stays \in BOOLEAN : StopAt(p, stays)
    BY <1>9 DEF ItemRefused, StoringFails
  <2>3. ~HasStored(p)
    BY <1>2, <2>2 DEF StopAt
  <2>4. IdsCover(j, pass[p].left, pass[p].itemIDs)
    BY <2>1 DEF Guarded
  <2>5. \A n \in DOMAIN tree : tree[n].id \in LocalIds
    <3>1. \A n \in DOMAIN tree : tree[n] \in TreeItems
      BY <1>1
    <3> QED
      BY <3>1 DEF TreeItems
  <2>6. ~Has(j)
    BY <2>3, <2>4, <2>5 DEF IdsCover, Has, HasStored
  <2>7. pass'[p].at # "persist" /\ pass'[p].at \notin StoresNow
    BY <2>1 DEF StoresNow
  <2> QED
    BY <1>1, <1>3, <1>4, <2>1, <2>6, <2>7, GuardedWithoutItem
<1>10. CASE RewriteLinks(p)
  <2>1. tree' = tree
    BY <1>10 DEF RewriteLinks
  <2>2. Holds(p)' /\ pass'[p].at # "persist" /\ pass'[p].at \notin StoresNow
    BY <1>1, <1>10, RewriteLinksDoes DEF Holds, StoresNow
  <2> QED
    BY <1>1, <1>3, <1>4, <2>1, <2>2, GuardedWithoutItem
<1>11. CASE AfterTool(p)
  <2>1. tree' = tree
    BY <1>11 DEF AfterTool
  <2>2. pass'[p].at # "persist" /\ pass'[p].at \notin StoresNow
    BY <1>1, <1>11, AnsweredDoes DEF AfterTool, StoresNow
  <2>3. PICK c, o : c = checkpointKey(pass[p].call) /\ o = pass[p].outputs
    OBVIOUS
  <2>4. /\ pass[p].at = "after"
        /\ \/ checkpoints'[j][c].doc = j
           \/ o.kind = "saved" => j \in unsealed'
    BY <1>2, <1>11, <2>3, OwnHookFiles
  <2>5. Holds(p) => checkpoints'[j]["persistence"] # NoCheckpoint
    <3> SUFFICES ASSUME Holds(p) PROVE checkpoints'[j]["persistence"] # NoCheckpoint
      OBVIOUS
    <3>1. o.kind = "saved"
      BY <2>3, <2>4 DEF Holds, StoresNow
    <3>2. j \notin mixed
      BY <1>2, Remembered DEF Next
    <3>3. OwnAnswer(o, j, c)
      BY <2>3, <2>4, <3>2 DEF AnswersOfStage
    <3>4. c = "persistence"
      BY <3>1, <3>3 DEF OwnAnswer
    <3>5. checkpoints'[j][c].doc = j
      BY <1>2, <2>4, <3>1
    <3>6. NoCheckpoint.doc # j
      BY NamesAssumption DEF NoCheckpoint
    <3> QED
      BY <3>4, <3>5, <3>6
  <2> QED
    BY <1>1, <1>3, <1>4, <2>1, <2>2, <2>5, GuardedWithoutItem
<1>12. CASE /\ ~CreateItem(p) /\ ~MergeItem(p) /\ ~StartPersist(p) /\ ~CountItems(p) /\ ~LogItem(p)
            /\ ~ItemRefused(p) /\ ~StoringFails(p) /\ ~RewriteLinks(p) /\ ~AfterTool(p)
            /\ (EnterTool(p) => pass'[p].at # "persist")
  <2>1. tree' = tree
    BY <1>12, TreeKept
  <2>2. pass[p].at \notin StoresNow \cup {"after"}
    BY <1>12 DEF AgentStep, ProcessDocument, prepareDocumentMap, CallTool, FinalResponse, AgentRunFails,
         Nudge, ResumeFromCheckpoint, EnterTool, Before, generate_brief, PersistNothing, PersistRefused,
         Reserve, At, StoresNow
  <2>3. pass'[p].at # "persist" /\ pass'[p].at \notin StoresNow
    BY <1>12, PlacesAfter DEF StoresNow
  <2>4. ~Holds(p)
    BY <2>2 DEF Holds
  <2> QED
    BY <1>1, <1>3, <1>4, <2>1, <2>3, <2>4, GuardedWithoutItem
<1> QED
  BY <1>5, <1>6, <1>7, <1>8, <1>9, <1>10, <1>11, <1>12

\* A step of another job's pass leaves j guarded.
LEMMA GuardedByOther ==
  ASSUME Base, NEW p \in Passes, AgentStep(p), NEW j \in Jobs, j # JobOf[p], j \notin mixed', Guarded(j)
  PROVE  Guarded(j)'
<1>1. \A q \in Passes : JobOf[q] = j => pass'[q] = pass[q]
  BY PlacesStep DEF Only
<1>2. \/ checkpoints'[j]["persistence"] = checkpoints[j]["persistence"]
      \/ checkpoints'[j]["persistence"] # NoCheckpoint
  BY PersistenceStays
<1>3. /\ \A n \in DOMAIN tree : n \in DOMAIN tree' /\ tree'[n] = tree[n]
      /\ \A n \in DOMAIN tree' : n \in DOMAIN tree \/ tree'[n].job = JobOf[p]
  <2>1. TreeItem(p).job = JobOf[p]
    BY DEF TreeItem
  <2> QED
    BY <2>1, TreeGrows
<1>4. \A n \in DOMAIN tree' : tree'[n].job = j => n \in DOMAIN tree /\ tree'[n] = tree[n]
  BY <1>3
<1>5. OnceOf(j)' /\ (Has(j)' => Has(j))
  BY <1>4 DEF Guarded, OnceOf, Has
<1>6. \A s, ids : IdsCover(j, s, ids) => IdsCover(j, s, ids)'
  BY <1>4 DEF IdsCover
<1>7. ASSUME NEW q \in Passes, JobOf[q] = j
      PROVE  /\ pass'[q].at = "persist" => ~Has(j)'
             /\ pass'[q].at \in StoresNow => IdsCover(j, pass[q].left, pass[q].itemIDs)'
  <2>1. PICK s, ids : s = pass[q].left /\ ids = pass[q].itemIDs
    OBVIOUS
  <2>2. pass[q].at \in StoresNow => IdsCover(j, s, ids)
    BY <1>7, <2>1 DEF Guarded
  <2>3. pass'[q].at \in StoresNow => IdsCover(j, s, ids)'
    BY <1>1, <1>6, <1>7, <2>2
  <2>4. pass'[q].at = "persist" => ~Has(j)'
    BY <1>1, <1>5, <1>7 DEF Guarded
  <2> QED
    BY <1>1, <1>7, <2>1, <2>3, <2>4 DEF IdsCover
<1>8. \A q \in Passes : JobOf[q] = j => (Holds(q)' <=> Holds(q))
  BY <1>1 DEF Holds
<1>9. Has(j)' => \/ \E q \in Passes : JobOf[q] = j /\ Holds(q)'
                 \/ checkpoints'[j]["persistence"] # NoCheckpoint
  BY <1>2, <1>5, <1>8 DEF Guarded
<1> QED
  BY <1>5, <1>7, <1>9 DEF Guarded

\* The beginning, the interruption or the loss of passes leaves j guarded.
LEMMA GuardedThroughout ==
  ASSUME Base, [Next]_vars, \A p \in Passes : ~AgentStep(p), NEW j \in Jobs, Sound(j)', Guarded(j)
  PROVE  Guarded(j)'
<1>1. /\ UNCHANGED <<checkpoints, tree>>
      /\ \A k \in Passes :
            \/ /\ pass'[k].at = pass[k].at /\ pass'[k].outputs = pass[k].outputs
               /\ SameTool(pass[k], pass'[k])
            \/ /\ pass'[k].at \in Resting \cup {"begun"}
               /\ LeavesItems(k) => JobOf[k] \in unsealed'
  BY OtherSteps
<1>2. /\ OnceOf(j)' /\ (Has(j)' <=> Has(j))
      /\ \A s, ids : IdsCover(j, s, ids) => IdsCover(j, s, ids)'
  BY <1>1 DEF Guarded, OnceOf, Has, IdsCover
<1>3. \A n \in DOMAIN tree : tree[n].id \in LocalIds
  <2>1. tree \in Seq(TreeItems)
    BY BaseParts
  <2>2. \A n \in DOMAIN tree : tree[n] \in TreeItems
    BY <2>1
  <2> QED
    BY <2>2 DEF TreeItems
<1>4. ASSUME NEW q \in Passes, JobOf[q] = j
      PROVE  /\ pass'[q].at = "persist" => ~Has(j)'
             /\ pass'[q].at \in StoresNow => IdsCover(j, pass[q].left, pass[q].itemIDs)'
             /\ Has(j) /\ Holds(q) => Holds(q)'
  <2>1. PICK s, ids : s = pass[q].left /\ ids = pass[q].itemIDs
    OBVIOUS
  <2>2. CASE /\ pass'[q].at = pass[q].at /\ pass'[q].outputs = pass[q].outputs
             /\ SameTool(pass[q], pass'[q])
    <3>1. pass'[q].left = s /\ pass'[q].itemIDs = ids
      BY <2>1, <2>2 DEF SameTool
    <3>2. pass[q].at \in StoresNow => IdsCover(j, s, ids)
      BY <1>4, <2>1 DEF Guarded
    <3>3. pass'[q].at \in StoresNow => IdsCover(j, s, ids)'
      BY <1>2, <2>2, <3>2
    <3>4. pass'[q].at \in StoresNow => IdsCover(j, pass[q].left, pass[q].itemIDs)'
      BY <3>1, <3>3 DEF IdsCover
    <3>5. pass'[q].at = "persist" => ~Has(j)'
      BY <1>2, <1>4, <2>2 DEF Guarded
    <3>6. Holds(q)' <=> Holds(q)
      BY <2>2 DEF Holds
    <3> QED
      BY <3>4, <3>5, <3>6
  <2>3. CASE pass'[q].at \in Resting \cup {"begun"} /\ ~LeavesItems(q)
    <3>1. pass'[q].at # "persist" /\ pass'[q].at \notin StoresNow
      BY <2>3 DEF Resting, StoresNow
    <3>2. Holds(q) => pass[q].at \in StoresNow /\ ~HasStored(q)
      BY <2>3 DEF Holds, LeavesItems, Persisting, StoresNow, At
    <3>3. Holds(q) => ~Has(j)
      BY <1>3, <1>4, <3>2 DEF Guarded, IdsCover, Has, HasStored
    <3> QED
      BY <3>1, <3>3
  <2>4. j \notin unsealed'
    BY DEF Sound
  <2> QED
    BY <1>1, <1>4, <2>2, <2>3, <2>4
<1>5. Has(j)' => \/ \E q \in Passes : JobOf[q] = j /\ Holds(q)'
                 \/ checkpoints'[j]["persistence"] # NoCheckpoint
  BY <1>1, <1>2, <1>4 DEF Guarded
<1> QED
  BY <1>2, <1>4, <1>5 DEF Guarded

\* What is guarded stays so.
LEMMA NotRepeatedStep ==
  ASSUME Base, AnswersOfStage, NamesItsDocument, StageOfOne, NotRepeated, [Next]_vars
  PROVE  NotRepeated'
<1>1. Base' /\ AnswersOfStage' /\ StageOfOne'
  BY BaseStep, AnswersStep, StageOfOneStep
<1> SUFFICES ASSUME NEW j \in Jobs, Sound(j)', Plain(j) PROVE Guarded(j)'
  BY DEF NotRepeated, Plain
<1>2. Guarded(j)
  <2>1. Sound(j)
    BY Remembered DEF Sound
  <2> QED
    BY <2>1 DEF NotRepeated
<1>3. ASSUME NEW p \in Passes, AgentStep(p) PROVE Guarded(j)'
  <2>1. CASE j = JobOf[p]
    BY <1>1, <1>2, <1>3, <2>1, GuardedByOwnStep
  <2>2. CASE j # JobOf[p]
    <3>1. j \notin mixed'
      BY DEF Sound
    <3> QED
      BY <1>2, <1>3, <2>2, <3>1, GuardedByOther
  <2> QED
    BY <2>1, <2>2
<1>4. CASE \A p \in Passes : ~AgentStep(p)
  BY <1>2, <1>4, GuardedThroughout
<1> QED
  BY <1>3, <1>4

\* A job's item is in the tree twice only if one of its persist calls stopped half-way,
\* its checkpoint was not written or not read, the hooks were mixed, two of its passes
\* were in the stage at the same time, or its list repeats a local id on a cycle: a pass
\* that starts again does not repeat what an earlier one finished.
THEOREM NoItemTwice == Spec => []ItemsOnce
<1>1. Init => NotRepeated /\ NamesItsDocument /\ AnswersOfStage /\ StageOfOne
  <2> SUFFICES ASSUME Init PROVE NotRepeated /\ NamesItsDocument /\ AnswersOfStage /\ StageOfOne
    OBVIOUS
  <2>1. \A p \in Passes : pass[p].at = "idle"
    BY DEF Init, NoPass
  <2>2. \A j \in Jobs, s \in Stages : checkpoints[j][s] = NoCheckpoint
    BY DEF Init
  <2>3. tree = <<>>
    BY DEF Init
  <2>4. NotRepeated
    BY <2>1, <2>3 DEF NotRepeated, Guarded, OnceOf, Has, StoresNow
  <2>5. NamesItsDocument /\ AnswersOfStage /\ StageOfOne
    BY <2>1, <2>2 DEF NamesItsDocument, AnswersOfStage, StageOfOne, BetweenHooks, AtTool
  <2> QED
    BY <2>4, <2>5
<1>2. Base /\ AnswersOfStage /\ NamesItsDocument /\ StageOfOne /\ NotRepeated /\ [Next]_vars
      => (Base /\ AnswersOfStage /\ NamesItsDocument /\ StageOfOne /\ NotRepeated)'
  BY BaseStep, AnswersStep, NamesItsDocumentStep, StageOfOneStep, NotRepeatedStep
<1>3. Base /\ NotRepeated => ItemsOnce
  <2> SUFFICES ASSUME Base, NotRepeated, NEW m \in DOMAIN tree, NEW n \in DOMAIN tree,
                      tree[m].job = tree[n].job, tree[m].id = tree[n].id, m # n,
                      tree[m].job \notin unsealed \cup mixed \cup raced,
                      \A b \in Batches[tree[m].job] : ~KeepsBoth(b)
               PROVE  FALSE
    BY DEF ItemsOnce
  <2>1. tree \in Seq(TreeItems)
    BY BaseParts
  <2>2. tree[m] \in TreeItems
    BY <2>1
  <2>3. tree[m].job \in Jobs
    BY <2>2 DEF TreeItems
  <2>4. Guarded(tree[m].job)
    BY <2>3 DEF NotRepeated, Sound, Plain
  <2> QED
    BY <2>4 DEF Guarded, OnceOf
<1> QED
  BY <1>1, <1>2, <1>3, InitBase, PTL DEF Spec
=============================================================================
