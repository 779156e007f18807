--------------------------- MODULE System_proofs ---------------------------
(***************************************************************************)
(* What holds of the program as a whole, for every set of functions, every *)
(* bound and every way the client edits and runs the graph.  The two       *)
(* halves are proved about in GraphBuilder_proofs and PipelineRunner_      *)
(* proofs; here it is shown that the client is an editor as the former     *)
(* supposes, that every graph it builds is one of those the latter         *)
(* supposes, and what follows from both.                                   *)
(***************************************************************************)
EXTENDS System, TLAPS

----------------------------------------------------------------------------
(***************************************************************************)
(* The graphs that the client can build a pipeline from                    *)
(***************************************************************************)

Maps(S, T) == UNION {[D -> T] : D \in SUBSET S}

GraphStates ==
  [nodeInfos  : Maps(G!NodeId, G!NodeInfo),
   slotInfos  : Maps(G!Slot, G!SlotInfo),
   slotStates : Maps(G!Slot, G!SlotState),
   edgeInfos  : Maps(G!EdgeId, G!EdgeInfo),
   sortOrder  : Seq(G!NodeId)]

\* Edges join an output to another slot of its type.
EdgesTyped(g) ==
  \A e \in DOMAIN g.edgeInfos :
    LET src == R!From(g.edgeInfos[e])
        dst == R!To(g.edgeInfos[e])
    IN  /\ g.slotInfos[src].access = "O"
        /\ g.slotInfos[src].dtype = g.slotInfos[dst].dtype

\* Functions are those of the registry.
FunctionsKnown(g) ==
  \A n \in DOMAIN g.nodeInfos : R!IsFunction(g, n) => g.nodeInfos[n].uri \in DOMAIN Registry

\* Slots have the types of inputs, outputs and parameters.
SlotsTyped(g) == \A s \in DOMAIN g.slotInfos : g.slotInfos[s].dtype \in UsedTypes

EditorGraphs ==
  {g \in GraphStates : /\ R!IsGraphState(g) /\ R!IsWired(g) /\ R!Ordered(g) /\ R!TasksFit(g)
                       /\ EdgesTyped(g) /\ FunctionsKnown(g) /\ SlotsTyped(g)}

B == INSTANCE GraphBuilder_proofs WITH Batches <- Seq(G!Entry)

P == INSTANCE PipelineRunner_proofs WITH Graphs <- EditorGraphs

----------------------------------------------------------------------------
(***************************************************************************)
(* The operations of G are those of B, and those of R are those of P: the  *)
(* instances differ in constants that these do not mention.                *)
(***************************************************************************)

LEMMA SameEditInit == G!Init = B!Init
BY DEF G!Init, B!Init, G!EmptyMap, B!EmptyMap, G!EmptySorter, B!EmptySorter

LEMMA SameAddFuncNode ==
  ASSUME NEW uri, NEW override
  PROVE  G!AddFuncNode(uri, override) = B!AddFuncNode(uri, override)
BY DEF G!AddFuncNode, B!AddFuncNode, G!Fail, B!Fail, G!graphVars, B!graphVars, G!nodeVars,
   B!nodeVars, G!slotVars, B!slotVars, G!ids, B!ids, G!AddNodeWithId, B!AddNodeWithId,
   G!NoOverride, B!NoOverride, G!NodeId, B!NodeId, G!InsertNode, B!InsertNode, G!Entries,
   B!Entries, G!NewSlotState, B!NewSlotState, G!Put, B!Put, G!NamesOf, B!NamesOf, G!SortedSeq,
   B!SortedSeq, G!Cardinality, B!Cardinality, G!IsFiniteSet, B!IsFiniteSet, G!AddNode, B!AddNode,
   G!Nodes, B!Nodes

LEMMA SameAddIONode ==
  ASSUME NEW dtype, NEW isOutput, NEW override
  PROVE  G!AddIONode(dtype, isOutput, override) = B!AddIONode(dtype, isOutput, override)
BY DEF G!AddIONode, B!AddIONode, G!AddNodeWithId, B!AddNodeWithId, G!NoOverride, B!NoOverride,
   G!NodeId, B!NodeId, G!nodeVars, B!nodeVars, G!slotVars, B!slotVars, G!InsertNode,
   B!InsertNode, G!Entries, B!Entries, G!NewSlotState, B!NewSlotState, G!Put, B!Put, G!NamesOf,
   B!NamesOf, G!SortedSeq, B!SortedSeq, G!Cardinality, B!Cardinality, G!IsFiniteSet,
   B!IsFiniteSet, G!AddNode, B!AddNode, G!Nodes, B!Nodes

LEMMA SameShiftRegion ==
  ASSUME NEW s, NEW u, NEW v
  PROVE  G!ShiftRegion(s, u, v) = B!ShiftRegion(s, u, v)
BY DEF G!ShiftRegion, B!ShiftRegion, G!ForwardDelta, B!ForwardDelta, G!Closure, B!Closure,
   G!Nodes, B!Nodes, G!BackwardDelta, B!BackwardDelta, G!Reposition, B!Reposition, G!Entries,
   B!Entries, G!IndexIn, B!IndexIn, G!NodesAt, B!NodesAt, G!SortedSeq, B!SortedSeq,
   G!Cardinality, B!Cardinality, G!IsFiniteSet, B!IsFiniteSet

LEMMA SameReorder ==
  ASSUME NEW s, NEW u, NEW v
  PROVE  G!Reorder(s, u, v) = B!Reorder(s, u, v)
BY SameShiftRegion DEF G!Reorder, B!Reorder, G!HitsUpperBound, B!HitsUpperBound, G!ForwardDelta,
   B!ForwardDelta, G!Closure, B!Closure, G!Nodes, B!Nodes, G!RemoveEdge, B!RemoveEdge

LEMMA SameAddNode ==
  ASSUME NEW s, NEW u
  PROVE  G!AddNode(s, u) = B!AddNode(s, u)
BY DEF G!AddNode, B!AddNode, G!Nodes, B!Nodes

LEMMA SameInsertEdge ==
  ASSUME NEW s, NEW u, NEW v
  PROVE  G!InsertEdge(s, u, v) = B!InsertEdge(s, u, v)
BY DEF G!InsertEdge, B!InsertEdge, G!Nodes, B!Nodes

LEMMA SameAddEdge ==
  ASSUME NEW s, NEW u, NEW v
  PROVE  G!AddEdge(s, u, v) = B!AddEdge(s, u, v)
BY SameReorder, SameAddNode, SameInsertEdge DEF G!AddEdge, B!AddEdge

LEMMA SameConnect ==
  ASSUME NEW b, NEW id, NEW entry
  PROVE  G!Connect(b, id, entry) = B!Connect(b, id, entry)
BY SameAddEdge DEF G!Connect, B!Connect, G!SourceOf, B!SourceOf, G!TargetOf, B!TargetOf, G!Put,
   B!Put

LEMMA SameAddEntry ==
  ASSUME NEW b, NEW entry
  PROVE  G!AddEntry(b, entry) = B!AddEntry(b, entry)
BY SameConnect DEF G!AddEntry, B!AddEntry, G!NoOverride, B!NoOverride, G!EndsFound, B!EndsFound,
   G!SourceOf, B!SourceOf, G!TargetOf, B!TargetOf

LEMMA SameAfterEntry ==
  ASSUME NEW entries
  PROVE  G!AfterEntry(entries) = B!AfterEntry(entries)
<1>1. G!Batch = B!Batch
  BY DEF G!Batch, B!Batch
<1>2. \A b, entry : G!AddEntry(b, entry) = B!AddEntry(b, entry)
  BY SameAddEntry
<1>3. \A after :
        after = [i \in 0 .. Len(entries) |->
                   IF i = 0 THEN G!Batch ELSE G!AddEntry(after[i - 1], entries[i])]
        <=> after = [i \in 0 .. Len(entries) |->
                       IF i = 0 THEN B!Batch ELSE B!AddEntry(after[i - 1], entries[i])]
  BY <1>1, <1>2, Zenon
<1>4. QED
  BY <1>3, Zenon DEF G!AfterEntry, B!AfterEntry

LEMMA SameAddEdges ==
  ASSUME NEW entries
  PROVE  G!AddEdges(entries) = B!AddEdges(entries)
BY SameAfterEntry DEF G!AddEdges, B!AddEdges, G!EdgeId, B!EdgeId, G!nodeVars, B!nodeVars

LEMMA SameDeleteElements ==
  ASSUME NEW nodeIds, NEW edgeIds
  PROVE  G!DeleteElements(nodeIds, edgeIds) = B!DeleteElements(nodeIds, edgeIds)
BY DEF G!DeleteElements, B!DeleteElements, G!Entries, B!Entries, G!Erase, B!Erase, G!TargetOf,
   B!TargetOf, G!SourceOf, B!SourceOf, G!Unsort, B!Unsort, G!AfterRemoval, B!AfterRemoval,
   G!CutPairs, B!CutPairs, G!Nodes, B!Nodes, G!RemoveNode, B!RemoveNode, G!GetDownstreamNodeIds,
   B!GetDownstreamNodeIds, G!ids, B!ids

LEMMA SameSetSlotEncodedData ==
  ASSUME NEW slot, NEW data
  PROVE  G!SetSlotEncodedData(slot, data) = B!SetSlotEncodedData(slot, data)
BY DEF G!SetSlotEncodedData, B!SetSlotEncodedData, G!Fail, B!Fail, G!graphVars, B!graphVars,
   G!nodeVars, B!nodeVars, G!slotVars, B!slotVars, G!ids, B!ids

LEMMA SameSetGraphMeta ==
  ASSUME NEW nodeId, NEW edgeId
  PROVE  G!SetGraphMeta(nodeId, edgeId) = B!SetGraphMeta(nodeId, edgeId)
BY DEF G!SetGraphMeta, B!SetGraphMeta, G!nodeVars, B!nodeVars, G!slotVars, B!slotVars

LEMMA SameValidateEdge ==
  ASSUME NEW src, NEW dst
  PROVE  G!ValidateEdge(src, dst) = B!ValidateEdge(src, dst)
BY DEF G!ValidateEdge, B!ValidateEdge

LEMMA SameWellFormed ==
  ASSUME NEW entries
  PROVE  G!WellFormed(entries) = B!WellFormed(entries)
BY DEF G!WellFormed, B!WellFormed, G!SourceOf, B!SourceOf, G!Acyclic, B!Acyclic, G!Closure,
   B!Closure, G!NodeId, B!NodeId, G!Pairs, B!Pairs

LEMMA SameEdgesAt ==
  ASSUME NEW nodes
  PROVE  G!EdgesAt(nodes) = B!EdgesAt(nodes)
BY DEF G!EdgesAt, B!EdgesAt

LEMMA SameRunInit == R!Init = P!Init
BY DEF R!Init, P!Init, R!EmptyMap, P!EmptyMap

LEMMA SameBuildOk ==
  ASSUME NEW g
  PROVE  R!BuildOk(g) = P!BuildOk(g)
BY DEF R!BuildOk, P!BuildOk, R!IsFunction, P!IsFunction, R!FuncNodeOk, P!FuncNodeOk, R!Entries,
   P!Entries, R!SlotNames, P!SlotNames, R!HasSlot, P!HasSlot, R!IoNodeOk, P!IoNodeOk, R!IoNames,
   P!IoNames, R!Cardinality, P!Cardinality, R!IsFiniteSet, P!IsFiniteSet, R!ExecutorHasSlot,
   P!ExecutorHasSlot, R!From, P!From, R!To, P!To

LEMMA SameExecutors ==
  ASSUME NEW g, NEW n
  PROVE  R!Executors(g, n) = P!Executors(g, n)
BY DEF R!Executors, P!Executors, R!IsFunction, P!IsFunction, R!Manual, P!Manual, R!SlotNames,
   P!SlotNames, R!SortedSeq, P!SortedSeq, R!Cardinality, P!Cardinality, R!IsFiniteSet,
   P!IsFiniteSet, R!Decoder, P!Decoder, R!MainFunction, P!MainFunction, R!Entries, P!Entries,
   R!IoNames, P!IoNames, R!Encoder, P!Encoder

LEMMA SameManualTransfers ==
  ASSUME NEW g, NEW n
  PROVE  R!ManualTransfers(g, n) = P!ManualTransfers(g, n)
BY SameExecutors DEF R!ManualTransfers, P!ManualTransfers, R!IsFunction, P!IsFunction, R!Manual,
   P!Manual, R!SlotNames, P!SlotNames, R!SortedSeq, P!SortedSeq, R!Cardinality, P!Cardinality,
   R!IsFiniteSet, P!IsFiniteSet, R!MainEntry, P!MainEntry

LEMMA SameEdgeTransfers ==
  ASSUME NEW g, NEW n
  PROVE  R!EdgeTransfers(g, n) = P!EdgeTransfers(g, n)
BY SameExecutors DEF R!EdgeTransfers, P!EdgeTransfers, R!SortedSeq, P!SortedSeq, R!Cardinality,
   P!Cardinality, R!IsFiniteSet, P!IsFiniteSet, R!MainEntry, P!MainEntry, R!From, P!From, R!To,
   P!To

LEMMA SameStage ==
  ASSUME NEW g, NEW n
  PROVE  R!Stage(g, n) = P!Stage(g, n)
BY SameExecutors, SameManualTransfers, SameEdgeTransfers DEF R!Stage, P!Stage

LEMMA SameFreshAttrs ==
  ASSUME NEW g
  PROVE  R!FreshAttrs(g) = P!FreshAttrs(g)
BY ZenonT(30) DEF R!FreshAttrs, P!FreshAttrs, R!EntryNames, P!EntryNames, R!Executors, P!Executors,
   R!IsFunction, P!IsFunction, R!Manual, P!Manual, R!SlotNames, P!SlotNames, R!SortedSeq,
   P!SortedSeq, R!Cardinality, P!Cardinality, R!IsFiniteSet, P!IsFiniteSet, R!Decoder, P!Decoder,
   R!MainFunction, P!MainFunction, R!Entries, P!Entries, R!IoNames, P!IoNames, R!Encoder,
   P!Encoder, R!Unset, P!Unset

LEMMA SameBuild ==
  ASSUME NEW g
  PROVE  R!Build(g) = P!Build(g)
BY SameBuildOk, SameStage, SameFreshAttrs DEF R!Build, P!Build, R!functionVars, P!functionVars,
   R!EmptyMap, P!EmptyMap

LEMMA SameBeginStep == R!BeginStep = P!BeginStep
BY DEF R!BeginStep, P!BeginStep, R!Report, P!Report, R!EmptyMap, P!EmptyMap, R!pipelineVars,
   P!pipelineVars, R!functionVars, P!functionVars

LEMMA SameRunExecutor == R!RunExecutor = P!RunExecutor
BY DEF R!RunExecutor, P!RunExecutor, R!pipelineVars, P!pipelineVars, R!functionVars,
   P!functionVars, R!Executor, P!Executor, R!ThisStage, P!ThisStage, R!StageNode, P!StageNode,
   R!Registered, P!Registered, R!Abort, P!Abort, R!RunSync, P!RunSync, R!Readable, P!Readable,
   R!InputsOk, P!InputsOk, R!Refused, P!Refused, R!Key, P!Key, R!FinishExecutor,
   P!FinishExecutor, R!Recorded, P!Recorded, R!IsLast, P!IsLast, R!Report, P!Report, R!Written, P!Written, R!Output, P!Output, R!Pause, P!Pause, R!Break,
   P!Break, R!Transferred, P!Transferred, R!Deliver, P!Deliver, R!AfterTransfer, P!AfterTransfer,
   R!Transfer, P!Transfer, R!Self, P!Self, R!HandOver, P!HandOver, R!AddTask, P!AddTask, R!Task,
   P!Task, R!Resume, P!Resume, R!ReleaseTask, P!ReleaseTask, R!HasResult, P!HasResult,
   R!Collected, P!Collected, R!Dispatch, P!Dispatch, R!Capture, P!Capture

LEMMA SameFulfil ==
  ASSUME NEW t
  PROVE  R!Fulfil(t) = P!Fulfil(t)
BY DEF R!Fulfil, P!Fulfil, R!pipelineVars, P!pipelineVars

LEMMA SameValues ==
  ASSUME NEW g
  PROVE  R!Values(g) = P!Values(g)
BY DEF R!Values, P!Values, R!IsComputed, P!IsComputed, R!IsFunction, P!IsFunction, R!Entries,
   P!Entries, R!EdgesInto, P!EdgesInto, R!To, P!To, R!Source, P!Source, R!From, P!From

LEMMA SameNothingRefused ==
  ASSUME NEW g
  PROVE  R!NothingRefused(g) = P!NothingRefused(g)
BY SameExecutors, SameValues
   DEF R!NothingRefused, P!NothingRefused, R!Arrives, P!Arrives, R!Entries, P!Entries

LEMMA SameIsWired ==
  ASSUME NEW g
  PROVE  R!IsWired(g) = P!IsWired(g)
BY DEF R!IsWired, P!IsWired, R!Entries, P!Entries, R!SlotNames, P!SlotNames, R!From, P!From,
   R!To, P!To

LEMMA SameIsGraphState ==
  ASSUME NEW g
  PROVE  R!IsGraphState(g) = P!IsGraphState(g)
BY DEF R!IsGraphState, P!IsGraphState, R!Entries, P!Entries, R!IsFiniteSet, P!IsFiniteSet

LEMMA SameOrdered ==
  ASSUME NEW g
  PROVE  R!Ordered(g) = P!Ordered(g)
BY DEF R!Ordered, P!Ordered, R!Entries, P!Entries, R!Depends, P!Depends

LEMMA SameTasksFit ==
  ASSUME NEW g
  PROVE  R!TasksFit(g) = P!TasksFit(g)
BY DEF R!TasksFit, P!TasksFit, R!IsFunction, P!IsFunction, R!Entries, P!Entries, R!EdgesInto,
   P!EdgesInto, R!To, P!To

----------------------------------------------------------------------------
(***************************************************************************)
(* The assumptions of the two halves                                       *)
(***************************************************************************)

LEMMA SameNames ==
  /\ G!NodeId = B!NodeId /\ G!EdgeId = B!EdgeId /\ G!NoOverride = B!NoOverride
  /\ G!Entry = B!Entry /\ G!NodeInfo = B!NodeInfo /\ G!Slot = B!Slot
  /\ G!SlotInfo = B!SlotInfo /\ G!SlotState = B!SlotState /\ G!EdgeInfo = B!EdgeInfo
BY DEF G!NodeId, B!NodeId, G!EdgeId, B!EdgeId, G!NoOverride, B!NoOverride, G!Entry, B!Entry,
       G!NodeInfo, B!NodeInfo, G!Slot, B!Slot, G!SlotInfo, B!SlotInfo, G!Access, B!Access,
       G!SlotState, B!SlotState, G!Data, B!Data, G!EdgeInfo, B!EdgeInfo

LEMMA EditorAssumed == B!BuilderAssumption
<1>1. G!BuilderAssumption
  BY SystemAssumption
<1>2. G!FuncParam = B!FuncParam
  BY DEF G!FuncParam, B!FuncParam, G!Access, B!Access
<1>3. QED
  BY <1>1, <1>2, SameNames DEF G!BuilderAssumption, B!BuilderAssumption

LEMMA RunnerAssumed == P!NamesAssumption /\ P!RunnerAssumption
<1>1. R!NamesAssumption /\ R!RunnerAssumption
  BY SystemAssumption
<1>2. P!NamesAssumption
  BY <1>1 DEF R!NamesAssumption, P!NamesAssumption
<1>3. \A g \in EditorGraphs : P!IsGraphState(g)
  BY SameIsGraphState DEF EditorGraphs
<1>4. P!RunnerAssumption
  BY <1>1, <1>3 DEF R!RunnerAssumption, P!RunnerAssumption, R!ReturnCode, P!ReturnCode
<1>5. QED
  BY <1>2, <1>4

\* The theorems about outputs suppose graphs like those the client builds.
LEMMA EditorGraphsFit == P!GraphsFit /\ P!GraphsOrdered
BY SameIsWired, SameTasksFit, SameOrdered DEF EditorGraphs, P!GraphsFit, P!GraphsOrdered

----------------------------------------------------------------------------
(***************************************************************************)
(* The client is an editor                                                 *)
(***************************************************************************)

LEMMA CreatesAsEditor ==
  ASSUME Creates
  PROVE  B!EditorCreates /\ Answer
<1>1. PICK override \in FreeIds(DOMAIN nodeInfos, lastNodeId) :
        \/ \E uri \in DOMAIN Registry : CreateNode(uri, override)
        \/ \E kind \in IoKinds : CreateIONode(kind[1], kind[2], override)
  BY DEF Creates
<1>2. override \in B!FreeIds(DOMAIN nodeInfos, lastNodeId)
  BY <1>1, SameNames DEF FreeIds, B!FreeIds
<1>3. ASSUME NEW uri \in DOMAIN Registry, CreateNode(uri, override)
      PROVE  B!EditorCreates /\ Answer
  BY <1>2, <1>3, SameAddFuncNode DEF CreateNode, B!EditorCreates
<1>4. ASSUME NEW kind \in IoKinds, CreateIONode(kind[1], kind[2], override)
      PROVE  B!EditorCreates /\ Answer
  <2>1. kind[1] \in Dtype /\ kind[2] \in BOOLEAN
    BY SystemAssumption
  <2>2. B!AddIONode(kind[1], kind[2], override) /\ Answer
    BY <1>4, SameAddIONode DEF CreateIONode
  <2>3. QED
    BY <1>2, <2>1, <2>2 DEF B!EditorCreates
<1>5. QED
  BY <1>1, <1>3, <1>4

LEMMA ConnectsAsEditor ==
  ASSUME B!EditingInv, Connects
  PROVE  B!EditorConnects /\ Answer
<1> DEFINE Link(src, dst, edgeId) ==
             [node0 |-> src[1], slot0 |-> src[2], node1 |-> dst[1], slot1 |-> dst[2],
              edgeId |-> edgeId]
<1>1. PICK src \in DOMAIN slotInfos, dst \in DOMAIN slotInfos,
           edgeId \in FreeIds(DOMAIN edgeInfos, lastEdgeId) :
        /\ slotInfos[src].access = "O" /\ slotInfos[dst].access # "O"
        /\ G!ValidateEdge(src, dst) \in {"VALID", "WARN_DATA"}
        /\ G!WellFormed(<<Link(src, dst, edgeId)>>)
        /\ AddEdges(<<Link(src, dst, edgeId)>>)
  BY DEF Connects
<1> DEFINE entry == Link(src, dst, edgeId)
<1>2. edgeId \in B!FreeIds(DOMAIN edgeInfos, lastEdgeId)
  BY <1>1, SameNames DEF FreeIds, B!FreeIds
<1>3. B!TypeOK
  BY DEF B!EditingInv, B!CarefulInv, B!GraphInv
<1>4. src \in G!Slot /\ dst \in G!Slot
  BY <1>3, SameNames DEF B!TypeOK
<1>5. edgeId \in G!EdgeId \cup {G!NoOverride}
  <2>1. lastEdgeId \in G!EdgeId \cup {0}
    BY <1>3, SameNames DEF B!TypeOK
  <2>2. MaxEdgeId \in Nat
    BY SystemAssumption DEF G!BuilderAssumption
  <2>3. QED
    BY <2>1, <2>2 DEF FreeIds, G!EdgeId, G!NoOverride
<1>6. entry \in G!Entry
  BY <1>4, <1>5 DEF G!Slot, G!Entry
<1>7. <<entry>> \in Seq(G!Entry)
  BY <1>6
<1>8. B!WellFormed(<<entry>>) /\ B!AddEdges(<<entry>>) /\ Answer
  BY <1>1, SameWellFormed, SameAddEdges DEF AddEdges
<1>9. B!ValidateEdge(src, dst) \in {"VALID", "WARN_DATA"}
  BY <1>1, SameValidateEdge
<1>10. QED
  BY <1>1, <1>2, <1>7, <1>8, <1>9 DEF B!EditorConnects

LEMMA DeletesAsEditor ==
  ASSUME B!EditingInv, Deletes
  PROVE  B!EditorDeletes /\ Answer
<1>1. B!TypeOK
  BY DEF B!EditingInv, B!CarefulInv, B!GraphInv
<1>2. DOMAIN nodeInfos \subseteq B!NodeId /\ DOMAIN edgeInfos \subseteq B!EdgeId /\ B!NodeId \subseteq Nat
  BY <1>1, EditorAssumed DEF B!TypeOK, B!NodeId, B!BuilderAssumption
<1>3. ASSUME NEW n \in DOMAIN nodeInfos, DeleteElements(<<n>>, G!EdgesAt({n}))
      PROVE  B!EditorDeletes /\ Answer
  <2>1. B!SortedSeq({n}) = <<n>>
    BY <1>2, EditorAssumed, B!SortedSingle
  <2>2. B!EdgesAt({n}) \subseteq DOMAIN edgeInfos
    BY DEF B!EdgesAt
  <2>3. B!DeleteElements(B!SortedSeq({n}), B!EdgesAt({n})) /\ Answer
    BY <1>3, <2>1, SameDeleteElements, SameEdgesAt DEF DeleteElements
  <2>4. {n} \in SUBSET B!NodeId /\ B!EdgesAt({n}) \in SUBSET B!EdgeId
    BY <1>2, <2>2
  <2>5. QED
    BY <2>3, <2>4 DEF B!EditorDeletes
<1>4. ASSUME NEW e \in DOMAIN edgeInfos, DeleteElements(<< >>, {e})
      PROVE  B!EditorDeletes /\ Answer
  <2>1. B!SortedSeq({}) = << >>
    BY EditorAssumed, B!SortedNone
  <2>2. B!EdgesAt({}) = {}
    BY DEF B!EdgesAt
  <2>3. B!DeleteElements(B!SortedSeq({}), {e}) /\ Answer
    BY <1>4, <2>1, SameDeleteElements DEF DeleteElements
  <2>4. {} \in SUBSET B!NodeId /\ {e} \in SUBSET B!EdgeId
    BY <1>2
  <2>5. QED
    BY <2>2, <2>3, <2>4 DEF B!EditorDeletes
<1>5. QED
  BY <1>3, <1>4 DEF Deletes

LEMMA EntersDataAsEditor ==
  ASSUME B!EditingInv, EntersData
  PROVE  B!EditorEntersData /\ Answer
<1>1. B!Data = Payload \cup {NoData}
  BY DEF B!Data
<1>2. ASSUME NEW data \in Payload \cup {NoData}, NEW n \in DOMAIN nodeInfos,
             nodeInfos[n].ntype = "IN", SetEncodedData(TRUE, n, << >>, data)
      PROVE  B!EditorEntersData /\ Answer
  <2> DEFINE slot == <<n, "$out">>
  <2>1. nodeInfos[n].outs = <<"$out">>
    BY <1>2 DEF B!EditingInv, B!IoShapes, B!IoShape
  <2>2. slot \in B!SlotsOf(n)
    BY <2>1 DEF B!SlotsOf, B!Entries
  <2>3. slot \in DOMAIN slotInfos
    BY <2>2 DEF B!EditingInv, B!CarefulInv, B!GraphInv, B!SlotsMatchNodes
  <2>4. slot[1] = n
    OBVIOUS
  <2>5. B!SetSlotEncodedData(slot, data) /\ Answer
    BY <1>2, SameSetSlotEncodedData DEF SetEncodedData
  <2>6. nodeInfos[slot[1]].ntype # "FN"
    BY <1>2, <2>4
  <2> HIDE DEF slot
  <2>7. QED
    BY <1>1, <2>3, <2>5, <2>6 DEF B!EditorEntersData
<1>3. ASSUME NEW data \in Payload \cup {NoData}, NEW slot \in DOMAIN slotInfos,
             slotInfos[slot].access # "O", SetEncodedData(FALSE, 0, slot, data)
      PROVE  B!EditorEntersData /\ Answer
  <2>1. B!SetSlotEncodedData(slot, data) /\ Answer
    BY <1>3, SameSetSlotEncodedData DEF SetEncodedData
  <2>2. QED
    BY <1>1, <1>3, <2>1 DEF B!EditorEntersData
<1>4. QED
  BY <1>2, <1>3 DEF EntersData

LEMMA SetsMetaAsEditor ==
  ASSUME SetsMeta
  PROVE  B!EditorSetsMeta /\ Answer
<1>1. PICK meta \in Metas : nodeInfos = EmptyMap /\ SetGraphMeta(meta[1], meta[2])
  BY DEF SetsMeta
<1>2. meta[1] \in 0 .. MaxNodeId /\ meta[2] \in 0 .. MaxEdgeId
  BY SystemAssumption
<1>3. meta[1] \in B!NodeId \cup {0} /\ meta[2] \in B!EdgeId \cup {0}
  <2>1. MaxNodeId \in Nat /\ MaxEdgeId \in Nat
    BY EditorAssumed DEF B!BuilderAssumption
  <2>2. QED
    BY <1>2, <2>1 DEF B!NodeId, B!EdgeId
<1>4. B!SetGraphMeta(meta[1], meta[2]) /\ Answer
  BY <1>1, SameSetGraphMeta DEF SetGraphMeta
<1>5. nodeInfos = B!EmptyMap
  BY <1>1 DEF EmptyMap, B!EmptyMap
<1>6. QED
  BY <1>3, <1>4, <1>5 DEF B!EditorSetsMeta

\* The calls that edit the graph, and the others.
Runs == BuildPipeline \/ StepPipeline \/ RunExecutor \/ Fulfil

\* An edit is answered with ok, and nothing of the pipeline changes.
LEMMA EditStep ==
  ASSUME B!EditingInv, Edits
  PROVE  B!EditingInv' /\ Answer /\ phase' = "idle" /\ UNCHANGED <<pipelineVars, stepVars, phase>>
<1>1. B!EditorNext /\ Answer
  BY CreatesAsEditor, ConnectsAsEditor, DeletesAsEditor, EntersDataAsEditor, SetsMetaAsEditor
     DEF Edits, B!EditorNext
<1>2. B!EditingInv' /\ ok'
  BY <1>1, EditorAssumed, B!EditorStep
<1>3. QED
  BY <1>1, <1>2 DEF Answer

LEMMA RunStep ==
  ASSUME B!EditingInv, Runs
  PROVE  B!EditingInv' /\ UNCHANGED edits
<1>1. UNCHANGED <<graphVars, edits>>
  BY DEF Runs, BuildPipeline, StepPipeline, RunExecutor, Fulfil
<1>2. UNCHANGED B!vars
  BY <1>1 DEF graphVars, B!vars, B!graphVars, B!nodeVars, B!slotVars, B!ids
<1>3. QED
  BY <1>1, <1>2, EditorAssumed, B!EditingStays

\* The graph between two calls, whatever was edited and run.
LEMMA EditingAlways == Spec => []B!EditingInv
<1>1. Init => B!EditingInv
  BY SameEditInit, EditorAssumed, B!EditingStarts DEF Init
<1>2. B!EditingInv /\ [Next]_vars => B!EditingInv'
  <2> SUFFICES ASSUME B!EditingInv, [Next]_vars PROVE B!EditingInv'
    OBVIOUS
  <2>1. CASE UNCHANGED vars
    <3>1. UNCHANGED B!vars
      BY <2>1 DEF vars, graphVars, B!vars, B!graphVars, B!nodeVars, B!slotVars, B!ids
    <3>2. QED
      BY <3>1, EditorAssumed, B!EditingStays
  <2>2. CASE Next
    BY <2>2, EditStep, RunStep DEF Next, Edits, Runs
  <2>3. QED
    BY <2>1, <2>2
<1>3. QED
  BY <1>1, <1>2, PTL DEF Spec

\* No edit of this client ends the program: counters and ids given again never
\* meet, whatever was restored, deleted and given before.
THEOREM EditsNeverAbortAlways == Spec => EditsNeverAbort
<1>1. B!EditingInv /\ [Next]_vars => [edits' # edits => phase' # "aborted"]_vars
  BY EditStep, RunStep DEF Next, Edits, Runs, vars
<1>2. QED
  BY <1>1, EditingAlways, PTL DEF Spec, EditsNeverAbort

\* Whatever getGraph lists can be asked for: nodes, slots and edges are told of
\* by several maps, and after every edit these have the same keys.
THEOREM ListedIsAnsweredAlways == Spec => []ListedIsAnswered
<1>1. B!EditingInv => ListedIsAnswered
  <2> SUFFICES ASSUME B!EditingInv PROVE ListedIsAnswered
    OBVIOUS
  <2>1. B!TypeOK /\ B!EditorInv
    BY DEF B!EditingInv, B!CarefulInv, B!GraphInv
  <2>2. DOMAIN nodeStates = DOMAIN nodeInfos /\ DOMAIN slotStates = DOMAIN slotInfos
    BY <2>1 DEF B!TypeOK, B!EditorInv
  <2>3. \A src, dst \in DOMAIN slotInfos : G!ValidateEdge(src, dst) # "error"
    BY <2>2 DEF G!ValidateEdge
  <2>4. QED
    BY <2>2, <2>3 DEF ListedIsAnswered, GetNodeStatesOk, GetSlotStatesOk, ValidateEdgeOk
<1>2. QED
  BY <1>1, EditingAlways, PTL

----------------------------------------------------------------------------
(***************************************************************************)
(* The graph that a build is given                                         *)
(***************************************************************************)

LEMMA SamePipeline ==
  /\ B!Pipeline!IsGraphState(Graph) = R!IsGraphState(Graph)
  /\ B!Pipeline!IsWired(Graph) = R!IsWired(Graph)
  /\ B!Pipeline!Ordered(Graph) = R!Ordered(Graph)
BY DEF B!Pipeline!IsGraphState, R!IsGraphState, B!Pipeline!Entries, R!Entries,
       B!Pipeline!IsFiniteSet, R!IsFiniteSet, B!Pipeline!IsWired, R!IsWired,
       B!Pipeline!SlotNames, R!SlotNames, B!Pipeline!From, R!From, B!Pipeline!To, R!To,
       B!Pipeline!Ordered, R!Ordered, B!Pipeline!Depends, R!Depends

\* Slots, nodes and edges as PipelineBuilder sees them.
LEMMA GraphWired ==
  ASSUME B!EditingInv
  PROVE  R!IsGraphState(Graph) /\ R!IsWired(Graph) /\ R!Ordered(Graph)
<1>1. B!CarefulInv /\ B!IoShapes
  BY DEF B!EditingInv
<1>2. /\ B!Pipeline!IsGraphState(B!Graph) /\ B!Pipeline!IsWired(B!Graph)
      /\ B!Pipeline!Ordered(B!Graph)
  BY <1>1, EditorAssumed, B!GraphIsWired
<1>3. B!Graph = Graph
  BY DEF B!Graph, Graph
<1>4. QED
  BY <1>2, <1>3, SamePipeline

LEMMA GraphFields ==
  /\ Graph.nodeInfos = nodeInfos /\ Graph.slotInfos = slotInfos
  /\ Graph.slotStates = slotStates /\ Graph.edgeInfos = edgeInfos
  /\ Graph.sortOrder = sorter.sortOrder
BY DEF Graph

\* A map whose keys and values are of a kind.
LEMMA MapOf ==
  ASSUME NEW S, NEW T, NEW f, f = [x \in DOMAIN f |-> f[x]], DOMAIN f \subseteq S,
         \A x \in DOMAIN f : f[x] \in T
  PROVE  f \in Maps(S, T)
<1>1. f \in [DOMAIN f -> T]
  OBVIOUS
<1>2. QED
  BY <1>1 DEF Maps

LEMMA GraphTyped ==
  ASSUME B!EditingInv
  PROVE  Graph \in GraphStates
<1>1. B!TypeOK /\ B!AreMaps
  BY DEF B!EditingInv, B!CarefulInv, B!GraphInv, B!EditorInv
<1>2. nodeInfos \in Maps(G!NodeId, G!NodeInfo)
  BY <1>1, SameNames, MapOf DEF B!TypeOK, B!AreMaps
<1>3. slotInfos \in Maps(G!Slot, G!SlotInfo)
  BY <1>1, SameNames, MapOf DEF B!TypeOK, B!AreMaps
<1>4. slotStates \in Maps(G!Slot, G!SlotState)
  BY <1>1, SameNames, MapOf DEF B!TypeOK, B!AreMaps
<1>5. edgeInfos \in Maps(G!EdgeId, G!EdgeInfo)
  BY <1>1, SameNames, MapOf DEF B!TypeOK, B!AreMaps
<1>6. sorter.sortOrder \in Seq(G!NodeId)
  BY <1>1, SameNames DEF B!TypeOK, B!IsSorter
<1>7. QED
  BY <1>2, <1>3, <1>4, <1>5, <1>6 DEF Graph, GraphStates

LEMMA GraphTasksFit ==
  ASSUME B!EditingInv
  PROVE  R!TasksFit(Graph)
<1>1. R!IsWired(Graph) /\ B!FunctionsFit /\ B!EdgesFit
  BY GraphWired DEF B!EditingInv, B!EditorInv
<1>2. SUFFICES ASSUME NEW n \in DOMAIN nodeInfos, nodeInfos[n].ntype = "FN"
               PROVE  /\ nodeInfos[n].uri \notin Async
                      /\ \A y \in R!Entries(nodeInfos[n].outs) :
                           /\ R!EdgesInto(Graph, <<n, y>>) = {}
                           /\ slotStates[<<n, y>>].encodedData = NoData
  BY GraphFields DEF R!TasksFit, R!IsFunction
<1>3. nodeInfos[n].uri \notin Async
  BY <1>1, <1>2, SystemAssumption DEF B!FunctionsFit
<1>4. ASSUME NEW y \in R!Entries(nodeInfos[n].outs)
      PROVE  /\ R!EdgesInto(Graph, <<n, y>>) = {}
             /\ slotStates[<<n, y>>].encodedData = NoData
  <2>1. y \in B!Entries(nodeInfos[n].outs)
    BY <1>4 DEF R!Entries, B!Entries
  <2>2. slotInfos[<<n, y>>].access = "O"
    BY <2>1 DEF B!EditingInv, B!CarefulInv, B!GraphInv, B!SlotsMatchNodes
  <2>3. slotStates[<<n, y>>].encodedData = NoData
    BY <1>1, <1>2, <2>1 DEF B!FunctionsFit
  <2>4. \A e \in DOMAIN edgeInfos : R!To(edgeInfos[e]) # <<n, y>>
    BY <1>1, <2>2 DEF B!EdgesFit, B!TargetOf, R!To
  <2>5. QED
    BY <2>3, <2>4, GraphFields DEF R!EdgesInto
<1>5. QED
  BY <1>3, <1>4

\* Every graph the client can build from has what the theorems about the
\* pipeline suppose of a graph.
LEMMA GraphIsEditors ==
  ASSUME B!EditingInv
  PROVE  Graph \in EditorGraphs
<1>1. B!EdgesFit /\ B!FunctionsFit
  BY DEF B!EditingInv, B!EditorInv
<1>2. EdgesTyped(Graph)
  BY <1>1, GraphFields DEF EdgesTyped, B!EdgesFit, R!From, R!To, B!SourceOf, B!TargetOf
<1>3. FunctionsKnown(Graph)
  BY <1>1, GraphFields DEF FunctionsKnown, B!FunctionsFit, R!IsFunction
<1>4. SlotsTyped(Graph)
  BY GraphFields DEF SlotsTyped, B!EditingInv, B!EditorInv, UsedTypes, B!UsedTypes
<1>5. QED
  BY <1>2, <1>3, <1>4, GraphTyped, GraphWired, GraphTasksFit DEF EditorGraphs

\* What of BuildOk does not depend on how complete the graph is.
LEMMA SlotsAreThere ==
  ASSUME B!EditingInv, TypesKnown
  PROVE  /\ \A n \in DOMAIN nodeInfos : \A x \in R!Entries(R!SlotNames(Graph, n)) :
              R!HasSlot(Graph, <<n, x>>)
         /\ \A e \in DOMAIN edgeInfos : /\ R!ExecutorHasSlot(Graph, R!From(edgeInfos[e]))
                                        /\ R!ExecutorHasSlot(Graph, R!To(edgeInfos[e]))
<1>1. R!IsWired(Graph)
  BY GraphWired
<1>2. /\ DOMAIN slotInfos = DOMAIN slotStates
      /\ \A s \in DOMAIN slotInfos : slotInfos[s].dtype \in KnownDtype
  BY DEF B!EditingInv, B!EditorInv, TypesKnown, UsedTypes, B!UsedTypes
<1>3. ASSUME NEW n \in DOMAIN nodeInfos, NEW x \in R!Entries(R!SlotNames(Graph, n))
      PROVE  R!HasSlot(Graph, <<n, x>>)
  <2>1. <<n, x>> \in DOMAIN slotStates
    BY <1>1, <1>3, GraphFields DEF R!IsWired
  <2>2. QED
    BY <1>2, <2>1, GraphFields DEF R!HasSlot
<1>4. ASSUME NEW s \in DOMAIN slotStates PROVE R!ExecutorHasSlot(Graph, s)
  <2>1. PICK n \in DOMAIN nodeInfos : \E x \in R!Entries(R!SlotNames(Graph, n)) : s = <<n, x>>
    BY <1>1, GraphFields DEF R!IsWired
  <2>2. PICK x \in R!Entries(R!SlotNames(Graph, n)) : s = <<n, x>>
    BY <2>1
  <2>3. s[1] = n /\ s[2] = x
    BY <2>2
  <2>4. ASSUME ~ R!IsFunction(Graph, n) PROVE x \in {"$in", "$out"}
    <3>1. nodeInfos[n].ntype \in {"IN", "OUT"}
      BY <2>4, GraphWired, GraphFields DEF R!IsGraphState, R!IsFunction
    <3>2. \/ R!SlotNames(Graph, n) = << >> \o <<"$out">> \o << >>
          \/ R!SlotNames(Graph, n) = <<"$in">> \o << >> \o << >>
      BY <1>1, <3>1, GraphFields DEF R!IsWired, R!SlotNames
    <3>3. << >> \o <<"$out">> \o << >> = <<"$out">> /\ <<"$in">> \o << >> \o << >> = <<"$in">>
      OBVIOUS
    <3>4. QED
      BY <2>2, <3>2, <3>3 DEF R!Entries
  <2>5. QED
    BY <2>3, <2>4, GraphFields DEF R!ExecutorHasSlot
<1>5. ASSUME NEW e \in DOMAIN edgeInfos
      PROVE  /\ R!ExecutorHasSlot(Graph, R!From(edgeInfos[e]))
             /\ R!ExecutorHasSlot(Graph, R!To(edgeInfos[e]))
  <2>1. {R!From(edgeInfos[e]), R!To(edgeInfos[e])} \subseteq DOMAIN slotStates
    BY <1>1, GraphFields DEF R!IsWired
  <2>2. QED
    BY <1>4, <2>1
<1>6. QED
  BY <1>3, <1>5

\* The edges at a slot from which a value is read, and at one to which none is
\* delivered by the node itself.
LEMMA EdgesAtSlot ==
  ASSUME B!EditingInv, NEW s \in DOMAIN slotStates
  PROVE  /\ slotInfos[s].access = "O" =>
              slotStates[s].inEdges = {} /\ Links(Graph, s) \subseteq slotStates[s].outEdges
         /\ slotInfos[s].access # "O" =>
              slotStates[s].outEdges = {} /\ Links(Graph, s) = slotStates[s].inEdges
<1>1. B!SlotIndexSound /\ B!EdgesHaveEnds /\ B!EdgesFit
  BY DEF B!EditingInv, B!CarefulInv, B!GraphInv, B!EdgesAreMirrored, B!EditorInv
<1>2. \A e : R!From(edgeInfos[e]) = B!SourceOf(edgeInfos[e]) /\ R!To(edgeInfos[e]) = B!TargetOf(edgeInfos[e])
  BY DEF R!From, R!To, B!SourceOf, B!TargetOf
<1>3. \A e : e \in Links(Graph, s) <=>
               e \in DOMAIN edgeInfos /\ s \in {B!SourceOf(edgeInfos[e]), B!TargetOf(edgeInfos[e])}
  BY <1>2, GraphFields DEF Links
<1>4. \A e \in DOMAIN edgeInfos :
        /\ slotInfos[B!SourceOf(edgeInfos[e])].access = "O"
        /\ slotInfos[B!TargetOf(edgeInfos[e])].access # "O"
        /\ e \in slotStates[B!SourceOf(edgeInfos[e])].outEdges
        /\ e \in slotStates[B!TargetOf(edgeInfos[e])].inEdges
  BY <1>1 DEF B!EdgesFit, B!EdgesHaveEnds
<1>5. /\ \A e \in slotStates[s].inEdges : e \in DOMAIN edgeInfos /\ B!TargetOf(edgeInfos[e]) = s
      /\ \A e \in slotStates[s].outEdges : e \in DOMAIN edgeInfos /\ B!SourceOf(edgeInfos[e]) = s
  BY <1>1 DEF B!SlotIndexSound
<1>6. QED
  BY <1>3, <1>4, <1>5

\* A graph whose inputs and outputs an editor shows as complete can be built,
\* after every edit: slot indexes, edges and the sort order agree.
THEOREM CompleteGraphsBuildAlways ==
  ASSUME TypesKnown
  PROVE  Spec => []CompleteGraphsBuild
<1>1. B!EditingInv => CompleteGraphsBuild
  <2> SUFFICES ASSUME B!EditingInv, InputsAndOutputsComplete(Graph) PROVE R!BuildOk(Graph)
    BY DEF CompleteGraphsBuild
  <2>1. R!IsWired(Graph) /\ R!IsGraphState(Graph) /\ R!Ordered(Graph)
    BY GraphWired
  <2>2. ASSUME NEW n \in DOMAIN nodeInfos, ~ R!IsFunction(Graph, n) PROVE R!IoNodeOk(Graph, n)
    <3> DEFINE name == IF nodeInfos[n].ntype = "IN" THEN "$out" ELSE "$in"
               slot == <<n, name>>
    <3>1. nodeInfos[n].ntype \in {"IN", "OUT"}
      BY <2>1, <2>2, GraphFields DEF R!IsGraphState, R!IsFunction
    <3>2. R!IoNames(Graph, n) = <<name>>
      BY <2>1, <3>1, GraphFields DEF R!IsWired, R!IoNames
    <3>3. name \in IF nodeInfos[n].ntype = "IN" THEN B!Entries(nodeInfos[n].outs)
                                                ELSE B!Entries(nodeInfos[n].ins)
      BY <3>2, GraphFields DEF R!IoNames, B!Entries
    <3>4. /\ slot \in DOMAIN slotStates
          /\ slotInfos[slot].access = IF nodeInfos[n].ntype = "IN" THEN "O" ELSE "I"
      <4>1. B!SlotsMatchNodes
        BY DEF B!EditingInv, B!CarefulInv, B!GraphInv
      <4>2. slot \in B!SlotsOf(n)
        BY <3>3 DEF B!SlotsOf
      <4>3. QED
        BY <3>1, <3>3, <4>1, <4>2 DEF B!SlotsMatchNodes
    <3>5. R!HasSlot(Graph, slot)
      <4>1. /\ DOMAIN slotInfos = DOMAIN slotStates
            /\ \A s \in DOMAIN slotInfos : slotInfos[s].dtype \in KnownDtype
        BY DEF B!EditingInv, B!EditorInv, TypesKnown, UsedTypes, B!UsedTypes
      <4> HIDE DEF slot
      <4>2. QED
        BY <3>4, <4>1, GraphFields DEF R!HasSlot
    <3>6. CASE nodeInfos[n].ntype = "IN"
      <4>1. slotStates[slot].inEdges = {} /\ Links(Graph, slot) \subseteq slotStates[slot].outEdges
        BY <3>4, <3>6, EdgesAtSlot
      <4>2. Links(Graph, slot) # {} /\ slotStates[slot].encodedData # NoData
        BY <3>6, GraphFields DEF InputsAndOutputsComplete
      <4>3. QED
        BY <3>2, <3>4, <3>5, <3>6, <4>1, <4>2, GraphFields DEF R!IoNodeOk
    <3>7. CASE nodeInfos[n].ntype = "OUT"
      <4>1. slotStates[slot].outEdges = {} /\ Links(Graph, slot) = slotStates[slot].inEdges
        BY <3>4, <3>7, EdgesAtSlot
      <4>2. Cardinality(Links(Graph, slot)) = 1 /\ slotStates[slot].encodedData = NoData
        BY <3>7, GraphFields DEF InputsAndOutputsComplete
      <4>3. R!Cardinality(slotStates[slot].inEdges) = 1
        BY <4>1, <4>2 DEF Cardinality, R!Cardinality, IsFiniteSet, R!IsFiniteSet
      <4>4. QED
        BY <3>2, <3>4, <3>5, <3>7, <4>1, <4>2, <4>3, GraphFields DEF R!IoNodeOk
    <3>8. QED
      BY <3>1, <3>6, <3>7
  <2>3. \A n \in DOMAIN nodeInfos : R!IsFunction(Graph, n) => R!FuncNodeOk(Graph, n)
    BY SlotsAreThere DEF R!FuncNodeOk
  <2>4. R!Entries(Graph.sortOrder) \subseteq DOMAIN Graph.nodeInfos
    BY <2>1 DEF R!Ordered
  <2>5. QED
    BY <2>2, <2>3, <2>4, SlotsAreThere, GraphFields DEF R!BuildOk
<1>2. QED
  BY <1>1, EditingAlways, PTL

----------------------------------------------------------------------------
(***************************************************************************)
(* The pipeline runs on the graphs of an editor                            *)
(***************************************************************************)

LEMMA SameRunVars ==
  <<pipelineVars, stepVars, phase>> = <<pipelineVars, stepVars, phase>>' <=> P!vars = P!vars'
BY DEF pipelineVars, stepVars, P!vars, P!pipelineVars, P!functionVars

LEMMA RunsAsRunner ==
  ASSUME B!EditingInv, Runs
  PROVE  P!Next
<1>1. ASSUME BuildPipeline PROVE P!Next
  <2>1. P!Build(Graph) /\ Graph \in EditorGraphs
    BY <1>1, SameBuild, GraphIsEditors DEF BuildPipeline
  <2>2. QED
    BY <2>1 DEF P!Next
<1>2. ASSUME StepPipeline PROVE P!Next
  BY <1>2, SameBeginStep DEF StepPipeline, P!Next
<1>3. ASSUME RunExecutor PROVE P!Next
  BY <1>3, SameRunExecutor DEF RunExecutor, P!Next
<1>4. ASSUME Fulfil PROVE P!Next
  BY <1>4, SameFulfil DEF Fulfil, P!Next
<1>5. QED
  BY <1>1, <1>2, <1>3, <1>4 DEF Runs

\* However the graph is edited between and after builds, the pipeline behaves
\* as PipelineRunner says, on no other graphs than those of an editor: what is
\* proved of the runner holds of the program.
THEOREM ImplementsRunner == Spec => P!Spec
<1>1. Init => P!Init
  BY SameRunInit DEF Init
<1>2. B!EditingInv /\ [Next]_vars => [P!Next]_P!vars
  <2> SUFFICES ASSUME B!EditingInv, [Next]_vars PROVE P!Next \/ UNCHANGED P!vars
    OBVIOUS
  <2>1. CASE UNCHANGED vars
    BY <2>1, SameRunVars DEF vars
  <2>2. CASE Edits
    BY <2>2, EditStep, SameRunVars
  <2>3. CASE Runs
    BY <2>3, RunsAsRunner
  <2>4. QED
    BY <2>1, <2>2, <2>3 DEF Next, Edits, Runs
<1>3. QED
  BY <1>1, <1>2, EditingAlways, PTL DEF Spec, P!Spec

----------------------------------------------------------------------------
(***************************************************************************)
(* What a step reports                                                     *)
(***************************************************************************)

\* The outputs of a result are those recorded, or none.
ResultKept ==
  (phase = "idle" /\ result # NoResult) => result.outputs \in {completed, EmptyMap}

LEMMA ReportedOutputs ==
  ASSUME NEW status, NEW outputs, NEW awaits
  PROVE  R!Report(status, outputs, awaits).outputs = outputs
BY DEF R!Report

LEMMA StepKeepsResult ==
  ASSUME R!BeginStep
  PROVE  ResultKept'
<1>1. CASE result' = R!Report("SUCCESS", R!EmptyMap, {})
  BY <1>1, ReportedOutputs DEF ResultKept, R!EmptyMap, EmptyMap
<1>2. CASE phase' = "stepping"
  BY <1>2 DEF ResultKept
<1>3. QED
  BY <1>1, <1>2 DEF R!BeginStep

\* A turn of the loop that ends the step reports what is recorded then.
LEMMA RunKeepsResult ==
  ASSUME R!RunExecutor
  PROVE  ResultKept'
<1>1. phase = "stepping"
  BY DEF R!RunExecutor
<1>2. ASSUME NEW A, R!FinishExecutor(A) PROVE ResultKept'
  <2>1. CASE UNCHANGED phase
    BY <1>1, <2>1 DEF ResultKept
  <2>2. CASE result' = R!Report("SUCCESS", R!Recorded(A), {})
    <3>1. completed' = R!Recorded(A)
      BY <1>2 DEF R!FinishExecutor
    <3>2. QED
      BY <2>2, <3>1, ReportedOutputs DEF ResultKept
  <2>3. QED
    BY <1>2, <2>1, <2>2 DEF R!FinishExecutor
<1>3. ASSUME NEW awaits, R!Pause(awaits) PROVE ResultKept'
  BY <1>3, ReportedOutputs DEF R!Pause, ResultKept
<1>4. ASSUME R!Break PROVE ResultKept'
  BY <1>4, ReportedOutputs DEF R!Break, ResultKept
<1>5. ASSUME phase' \in {"aborted", "undefined"} PROVE ResultKept'
  BY <1>5 DEF ResultKept
<1>6. ASSUME R!Abort PROVE ResultKept'
  BY <1>5, <1>6 DEF R!Abort
<1>7. ASSUME NEW A, R!RunSync(A) \/ R!HandOver(A) \/ R!Resume(A) \/ R!Dispatch(A) \/ R!Capture(A)
      PROVE  ResultKept'
  BY <1>2, <1>3, <1>4, <1>6, <1>7 DEF R!RunSync, R!HandOver, R!Resume, R!Dispatch, R!Capture
<1>8. QED
  BY <1>5, <1>6, <1>7 DEF R!RunExecutor

LEMMA ResultAlways == Spec => []ResultKept
<1>1. Init => ResultKept
  BY DEF Init, R!Init, ResultKept
<1>2. ResultKept /\ B!EditingInv /\ [Next]_vars => ResultKept'
  <2> SUFFICES ASSUME ResultKept, B!EditingInv, [Next]_vars PROVE ResultKept'
    OBVIOUS
  <2>1. CASE UNCHANGED <<completed, phase, result>>
    BY <2>1 DEF ResultKept, EmptyMap
  <2>2. CASE UNCHANGED vars
    BY <2>1, <2>2 DEF vars, stepVars
  <2>3. CASE Edits
    BY <2>1, <2>3, EditStep DEF stepVars
  <2>4. ASSUME BuildPipeline PROVE ResultKept'
    <3>1. R!Build(Graph)
      BY <2>4 DEF BuildPipeline
    <3>2. phase' = "aborted" \/ result' = NoResult
      BY <3>1 DEF R!Build
    <3>3. QED
      BY <3>2 DEF ResultKept
  <2>5. ASSUME StepPipeline PROVE ResultKept'
    BY <2>5, StepKeepsResult DEF StepPipeline
  <2>6. ASSUME RunExecutor PROVE ResultKept'
    BY <2>6, RunKeepsResult DEF RunExecutor
  <2>7. ASSUME Fulfil PROVE ResultKept'
    BY <2>1, <2>7 DEF Fulfil, R!Fulfil
  <2>8. QED
    BY <2>2, <2>3, <2>4, <2>5, <2>6, <2>7 DEF Next, Edits
<1>3. QED
  BY <1>1, <1>2, EditingAlways, PTL DEF Spec

LEMMA ValuesAlways == Spec => []P!ValuesInv
<1>1. P!Spec => []P!ValuesInv
  BY RunnerAssumed, P!ValuesInvariant
<1>2. QED
  BY <1>1, ImplementsRunner, PTL

\* A step reports what the graph computes that was there at the last build,
\* however the graph was edited since.
THEOREM OutputsOfTheBuildAlways == Spec => []OutputsOfTheBuild
<1>1. P!ValuesInv /\ ResultKept => OutputsOfTheBuild
  <2> SUFFICES ASSUME P!ValuesInv, ResultKept PROVE OutputsOfTheBuild
    OBVIOUS
  <2> SUFFICES ASSUME phase = "idle", result # NoResult, NEW n \in DOMAIN result.outputs
               PROVE  result.outputs[n] = R!Values(built)[<<n, "$in">>]
    BY Zenon DEF OutputsOfTheBuild
  <2>1. DOMAIN EmptyMap = {}
    BY DEF EmptyMap
  <2>2. result.outputs = completed /\ n \in DOMAIN completed
    BY <2>1 DEF ResultKept
  <2>3. P!RunnerInv
    BY DEF P!ValuesInv
  <2>4. P!Loaded
    <3>1. P!Unloaded \/ P!Loaded
      BY <2>3 DEF P!RunnerInv
    <3>2. P!Unloaded => DOMAIN completed = {}
      BY DEF P!Unloaded, P!EmptyMap
    <3>3. QED
      BY <2>2, <3>1, <3>2
  <2>5. built \in EditorGraphs
    BY <2>4 DEF P!Loaded
  <2>6. P!Ordered(built)
    BY <2>5, SameOrdered DEF EditorGraphs
  <2>7. P!Fitting(built)
    BY <2>4, <2>6, EditorGraphsFit, RunnerAssumed, P!LoadedFits
  <2>8. P!ValuesKept
    BY <2>4, <2>7 DEF P!ValuesInv
  <2>9. completed[n] = P!Values(built)[<<n, "$in">>]
    BY <2>2, <2>8 DEF P!ValuesKept
  <2>10. QED
    BY <2>2, <2>9, SameValues
<1>2. QED
  BY <1>1, ResultAlways, ValuesAlways, PTL

----------------------------------------------------------------------------
(***************************************************************************)
(* How a step can end the program                                          *)
(***************************************************************************)

LEMMA EditorGraphFacts ==
  ASSUME NEW g \in EditorGraphs
  PROVE  /\ P!IsGraphState(g) /\ P!IsWired(g) /\ P!Ordered(g) /\ P!TasksFit(g)
         /\ R!IsGraphState(g) /\ R!IsWired(g) /\ R!Ordered(g)
         /\ EdgesTyped(g) /\ FunctionsKnown(g) /\ SlotsTyped(g)
BY SameIsGraphState, SameIsWired, SameOrdered, SameTasksFit DEF EditorGraphs

\* What the executors of a stage run is registered.
LEMMA ExecutorsRegistered ==
  ASSUME AllRegistered, NEW g \in EditorGraphs, P!BuildOk(g), NEW n \in DOMAIN g.nodeInfos,
         NEW i \in DOMAIN P!Executors(g, n)
  PROVE  P!Executors(g, n)[i].uri \in P!Registered
<1> DEFINE x == P!Executors(g, n)[i]
           Codes(slot) == P!Decoder(g.slotInfos[slot].dtype, g.slotStates[slot].encodedData)
<1>1. P!Built(g) /\ FunctionsKnown(g) /\ SlotsTyped(g)
  BY EditorGraphFacts DEF P!Built
<1>2. ASSUME NEW dtype \in UsedTypes, NEW payload
      PROVE  P!Decoder(dtype, payload).uri \in P!Registered /\ P!Encoder(dtype).uri \in P!Registered
  BY DEF AllRegistered, P!Registered, P!Decoder, P!Encoder
<1>3. /\ DOMAIN P!Executors(g, n) = 1 .. Len(P!Executors(g, n))
      /\ P!IsFunction(g, n) =>
           /\ Len(P!Executors(g, n)) = Len(P!Manual(g, n)) + 1 /\ Len(P!Manual(g, n)) \in Nat
           /\ P!Executors(g, n)[Len(P!Manual(g, n)) + 1] = P!MainFunction(g, n)
           /\ \A j \in 1 .. Len(P!Manual(g, n)) :
                \E slot \in {<<n, y>> : y \in P!Entries(P!SlotNames(g, n))} :
                  P!Executors(g, n)[j] = Codes(slot)
      /\ ~ P!IsFunction(g, n) =>
           /\ Len(P!Executors(g, n)) = 1
           /\ LET slot == <<n, P!IoNames(g, n)[1]>>
              IN  P!Executors(g, n)[1] = IF g.nodeInfos[n].ntype = "IN"
                                         THEN Codes(slot) ELSE P!Encoder(g.slotInfos[slot].dtype)
  BY <1>1, RunnerAssumed, P!ExecutorsOfNode
<1> DEFINE m == Len(P!Manual(g, n))
<1>4. CASE P!IsFunction(g, n) /\ i = m + 1
  <2>1. x = P!MainFunction(g, n)
    BY <1>3, <1>4
  <2>2. x.uri = g.nodeInfos[n].uri
    BY <2>1 DEF P!MainFunction
  <2>3. g.nodeInfos[n].uri \in P!Registered
    BY <1>1, <1>4 DEF FunctionsKnown, R!IsFunction, P!IsFunction, AllRegistered, P!Registered
  <2>4. QED
    BY <2>2, <2>3
<1>5. CASE P!IsFunction(g, n) /\ i # m + 1
  <2>1. i \in 1 .. m
    <3>1. i \in 1 .. m + 1 /\ m \in Nat
      BY <1>3, <1>5
    <3> HIDE DEF m
    <3>2. QED
      BY <3>1, <1>5
  <2>2. PICK slot \in {<<n, y>> : y \in P!Entries(P!SlotNames(g, n))} : x = Codes(slot)
    BY <1>3, <1>5, <2>1
  <2>3. P!HasSlot(g, slot)
    BY <1>5, <2>2 DEF P!BuildOk, P!FuncNodeOk
  <2>4. QED
    BY <1>1, <1>2, <2>2, <2>3 DEF P!HasSlot, SlotsTyped
<1>6. CASE ~ P!IsFunction(g, n)
  <2> DEFINE slot == <<n, P!IoNames(g, n)[1]>>
  <2>1. P!HasSlot(g, slot)
    BY <1>6 DEF P!BuildOk, P!IoNodeOk
  <2>2. x \in {Codes(slot), P!Encoder(g.slotInfos[slot].dtype)}
    BY <1>3, <1>6
  <2> HIDE DEF slot
  <2>3. QED
    BY <1>1, <1>2, <2>1, <2>2 DEF P!HasSlot, SlotsTyped
<1>7. QED
  BY <1>4, <1>5, <1>6

\* No edge leaves a slot that a node reads.
LEMMA LinksOfInput ==
  ASSUME NEW g \in EditorGraphs, NEW n \in DOMAIN g.nodeInfos,
         NEW x \in R!Entries(g.nodeInfos[n].ins)
  PROVE  Links(g, <<n, x>>) = P!EdgesInto(g, <<n, x>>)
<1>1. R!IsWired(g) /\ R!IsGraphState(g) /\ EdgesTyped(g)
  BY EditorGraphFacts
<1>2. x \in R!Entries(R!SlotNames(g, n)) /\ x \notin R!Entries(g.nodeInfos[n].outs)
  <2>1. x \in P!Entries(P!SlotNames(g, n))
    <3>1. P!IsGraphState(g) /\ x \in P!Entries(g.nodeInfos[n].ins)
      BY EditorGraphFacts DEF P!Entries, R!Entries
    <3>2. P!Entries(g.nodeInfos[n].ins) \subseteq P!Entries(P!SlotNames(g, n))
      BY <3>1, RunnerAssumed, P!NodeTypes
    <3>3. QED
      BY <3>1, <3>2
  <2>2. QED
    BY <1>1, <2>1 DEF R!IsWired, R!Entries, P!Entries, R!SlotNames, P!SlotNames
<1>3. g.slotInfos[<<n, x>>].access # "O"
  BY <1>1, <1>2 DEF R!IsWired
<1>4. \A e \in DOMAIN g.edgeInfos : R!From(g.edgeInfos[e]) # <<n, x>>
  BY <1>1, <1>3 DEF EdgesTyped
<1>5. QED
  BY <1>4 DEF Links, P!EdgesInto, P!To, R!To

LEMMA EditorGraphsSound ==
  ASSUME AllRegistered, NEW g \in EditorGraphs, P!BuildOk(g)
  PROVE  P!Sound(g)
<1>1. P!Ordered(g) /\ EdgesTyped(g)
  BY EditorGraphFacts
<1>2. ASSUME NEW slot PROVE P!EdgeFits(g, slot)
  <2> SUFFICES ASSUME P!EdgesInto(g, slot) # {}
               PROVE  /\ g.slotInfos[P!Source(g, slot)].access = "O"
                      /\ g.slotInfos[P!Source(g, slot)].dtype = g.slotInfos[slot].dtype
    BY DEF P!EdgeFits
  <2>1. PICK e \in P!EdgesInto(g, slot) : P!Source(g, slot) = P!From(g.edgeInfos[e])
    BY DEF P!Source
  <2>2. e \in DOMAIN g.edgeInfos /\ P!To(g.edgeInfos[e]) = slot
    BY <2>1 DEF P!EdgesInto
  <2>3. QED
    BY <1>1, <2>1, <2>2 DEF EdgesTyped, R!From, R!To, P!From, P!To
<1>3. QED
  BY <1>1, <1>2, ExecutorsRegistered DEF P!Sound

\* Where every type is coded and no function paints on the graphics card, a
\* step of a graph that an editor could build ends the program only if an
\* input of a function was left without wire and data, or if a function refuses
\* what was entered or is computed for it.
THEOREM OnlyMissingInputsAbortAlways ==
  ASSUME AllRegistered, Gpu = {}
  PROVE  Spec => []OnlyMissingInputsAbort
<1>1. P!TypeOK /\ P!CompleteGraphsRun => OnlyMissingInputsAbort
  <2> SUFFICES ASSUME P!TypeOK, P!CompleteGraphsRun, built # NoGraph, R!BuildOk(built)
               PROVE  /\ R!Ordered(built)
                      /\ phase = "aborted" => MissesInput(built) \/ ~ R!NothingRefused(built)
    BY DEF OnlyMissingInputsAbort
  <2>1. built \in EditorGraphs
    BY DEF P!TypeOK
  <2>2. P!BuildOk(built)
    BY SameBuildOk
  <2>3. P!Sound(built) /\ R!Ordered(built)
    BY <2>1, <2>2, EditorGraphsSound, EditorGraphFacts
  <2>4. ASSUME phase = "aborted", R!NothingRefused(built) PROVE MissesInput(built)
    <3>1. ~ P!Complete(built)
      BY <2>2, <2>4, SameNothingRefused DEF P!CompleteGraphsRun
    <3>2. PICK n \in DOMAIN built.nodeInfos : \E x \in P!Entries(built.nodeInfos[n].ins) :
            /\ P!EdgesInto(built, <<n, x>>) = {}
            /\ built.slotStates[<<n, x>>].encodedData = NoData
      BY <2>3, <3>1 DEF P!Complete
    <3>3. PICK x \in P!Entries(built.nodeInfos[n].ins) :
            /\ P!EdgesInto(built, <<n, x>>) = {}
            /\ built.slotStates[<<n, x>>].encodedData = NoData
      BY <3>2
    <3>4. x \in R!Entries(built.nodeInfos[n].ins) /\ x \in Entries(built.nodeInfos[n].ins)
      BY DEF P!Entries, R!Entries, Entries
    <3>5. Links(built, <<n, x>>) = {}
      BY <2>1, <3>3, <3>4, LinksOfInput
    <3>6. QED
      BY <3>3, <3>4, <3>5 DEF MissesInput
  <2>5. QED
    BY <2>3, <2>4
<1>2. P!Spec => []P!TypeOK /\ []P!CompleteGraphsRun
  <2>1. P!Spec => []P!TypeOK
    BY RunnerAssumed, P!RunnerTypeCorrect
  <2>2. P!Spec => []P!CompleteGraphsRun
    BY RunnerAssumed, EditorGraphsFit, P!CompleteGraphsRunAlways
  <2>3. QED
    BY <2>1, <2>2
<1>3. QED
  BY <1>1, <1>2, ImplementsRunner, PTL
=============================================================================
