------------------------------- MODULE System -------------------------------
(***************************************************************************)
(* The program as its client sees it: the Graph API                        *)
(* (api_backends/GraphApiBackend.cpp) and the Flow API on the one graph    *)
(* state, sorter, builder and runner of SharedStore.  GraphBuilder and     *)
(* PipelineRunner keep their variables; what they share is the graph that  *)
(* a build reads, and the program, which ends for both when a call fails.  *)
(*                                                                         *)
(* The handlers are those of the code.  The client is one that asks only   *)
(* for what the answers it got allow: it names what getGraph lists, gives  *)
(* no id again that is in use and none above the counters of getGraphMeta, *)
(* draws only edges that validateEdge accepts, from outputs and in no      *)
(* circle, and deletes the edges of the nodes it deletes.                  *)
(***************************************************************************)
EXTENDS TopoSortOps

CONSTANTS
  MaxNodeId, MaxEdgeId, Registry, Dtype, Payload, NoData,   \* of GraphBuilder
  KnownDtype, MaxBuilds, Outcomes, Async, Gpu, Fatal, NoResult, NoGraph,   \* of PipelineRunner
  IoKinds,   \* the data types of the graph inputs and outputs, as <<dtype, isOutput>>
  Metas,     \* the counters <<lastNodeId, lastEdgeId>> of stored graphs
  MaxEdits   \* bound on the number of calls that edit the graph

VARIABLES
  nodeInfos, nodeStates, slotInfos, slotStates, edgeInfos, lastNodeId, lastEdgeId,
  sorter, ok,
  built, stages, sequence, generation, attrs, started, tasks, saved, pos, completed,
  phase, result,
  edits      \* number of edits made

G == INSTANCE CarefulEditing WITH Batches <- {}
R == INSTANCE PipelineRunner WITH Graphs <- {}

ASSUME SystemAssumption ==
  /\ G!BuilderAssumption /\ R!NamesAssumption /\ R!RunnerAssumption
  /\ MaxEdits \in Nat /\ IoKinds \subseteq Dtype \X BOOLEAN
  /\ Metas \subseteq (0 .. MaxNodeId) \X (0 .. MaxEdgeId)
  /\ DOMAIN Registry \cap Async = {}

\* The types that a client may ask for and that functions have.
UsedTypes ==
  Dtype \cup UNION {{Registry[uri][i].dtype : i \in DOMAIN Registry[uri]} : uri \in DOMAIN Registry}

\* The pipeline knows them all, and each has a decoder and an encoder that can
\* run, as every function can.
TypesKnown == UsedTypes \subseteq KnownDtype

AllRegistered ==
  DOMAIN Registry \cup ({"$IN", "$OUT"} \X UsedTypes) \subseteq DOMAIN Outcomes \cup Async

graphVars ==
  <<nodeInfos, nodeStates, slotInfos, slotStates, edgeInfos, lastNodeId, lastEdgeId, sorter, ok>>
pipelineVars == <<built, stages, sequence, generation>>
stepVars == <<attrs, started, tasks, saved, pos, completed, result>>
vars == <<graphVars, pipelineVars, stepVars, phase, edits>>

Init == G!Init /\ R!Init /\ edits = 0

----------------------------------------------------------------------------
(***************************************************************************)
(* The handlers of the Graph API.  What the builder did stays done, and a  *)
(* status other than ok is a LOG(FATAL).                                   *)
(***************************************************************************)

Answer ==
  /\ phase = "idle"
  /\ edits < MaxEdits /\ edits' = edits + 1
  /\ phase' = IF ok' THEN "idle" ELSE "aborted"
  /\ UNCHANGED <<pipelineVars, stepVars>>

CreateNode(uri, overrideId) == G!AddFuncNode(uri, overrideId) /\ Answer

CreateIONode(dtype, isOutput, overrideId) == G!AddIONode(dtype, isOutput, overrideId) /\ Answer

AddEdges(entries) == G!AddEdges(entries) /\ Answer

DeleteElements(nodeIds, edgeIds) == G!DeleteElements(nodeIds, edgeIds) /\ Answer

\* Mutant: the decoder of a graph input reads the data from the graph.
SetEncodedData_Live(isNode, node, slot, data) ==
  /\ G!SetSlotEncodedData(IF isNode THEN <<node, "$out">> ELSE slot, data)
  /\ phase = "idle" /\ edits < MaxEdits /\ edits' = edits + 1
  /\ attrs' = [k \in DOMAIN attrs |-> IF isNode /\ k = <<node, 1, "$in">>
                                      THEN [attrs[k] EXCEPT !.value = data] ELSE attrs[k]]
  /\ UNCHANGED <<pipelineVars, started, tasks, saved, pos, completed, result, phase>>

SetEncodedData(isNode, node, slot, data) ==
  G!SetSlotEncodedData(IF isNode THEN <<node, "$out">> ELSE slot, data) /\ Answer

SetGraphMeta(node, edge) == G!SetGraphMeta(node, edge) /\ Answer

\* The calls that only read end the program when one of the ids is unknown.
GetNodeStatesOk(nodes) == nodes \subseteq DOMAIN nodeStates

GetSlotStatesOk(slots) == slots \subseteq DOMAIN slotStates

ValidateEdgeOk(src, dst) == G!ValidateEdge(src, dst) # "error"

----------------------------------------------------------------------------
(***************************************************************************)
(* The Flow API, on the graph as it is at the call                         *)
(***************************************************************************)

Graph ==
  [nodeInfos |-> nodeInfos, slotInfos |-> slotInfos, slotStates |-> slotStates,
   edgeInfos |-> edgeInfos, sortOrder |-> sorter.sortOrder]

BuildPipeline == R!Build(Graph) /\ UNCHANGED <<graphVars, edits>>

StepPipeline == R!BeginStep /\ UNCHANGED <<graphVars, edits>>

RunExecutor == R!RunExecutor /\ UNCHANGED <<graphVars, edits>>

Fulfil == (\E t \in DOMAIN tasks : R!Fulfil(t)) /\ UNCHANGED <<graphVars, edits>>

----------------------------------------------------------------------------
(***************************************************************************)
(* The client                                                              *)
(***************************************************************************)

\* No id, or one that was given once and is free now.
FreeIds(used, last) == {G!NoOverride} \cup ((1 .. last) \ used)

Creates ==
  \E overrideId \in FreeIds(DOMAIN nodeInfos, lastNodeId) :
    \/ \E uri \in DOMAIN Registry : CreateNode(uri, overrideId)
    \/ \E kind \in IoKinds : CreateIONode(kind[1], kind[2], overrideId)

Connects ==
  \E src, dst \in DOMAIN slotInfos : \E edgeId \in FreeIds(DOMAIN edgeInfos, lastEdgeId) :
    LET entry == [node0 |-> src[1], slot0 |-> src[2], node1 |-> dst[1], slot1 |-> dst[2],
                  edgeId |-> edgeId]
    IN  /\ slotInfos[src].access = "O" /\ slotInfos[dst].access # "O"
        /\ G!ValidateEdge(src, dst) \in {"VALID", "WARN_DATA"}
        /\ G!WellFormed(<<entry>>)
        /\ AddEdges(<<entry>>)

Deletes ==
  \/ \E n \in DOMAIN nodeInfos : DeleteElements(<<n>>, G!EdgesAt({n}))
  \/ \E e \in DOMAIN edgeInfos : DeleteElements(<< >>, {e})

\* Data goes to graph inputs, by node, and to what a function takes in.
EntersData ==
  \E data \in Payload \cup {NoData} :
    \/ \E n \in DOMAIN nodeInfos :
         /\ nodeInfos[n].ntype = "IN"
         /\ slotStates[<<n, "$out">>].encodedData # data
         /\ SetEncodedData(TRUE, n, << >>, data)
    \/ \E slot \in DOMAIN slotInfos :
         /\ slotInfos[slot].access # "O"
         /\ slotStates[slot].encodedData # data
         /\ SetEncodedData(FALSE, 0, slot, data)

\* A stored graph is restored by setting its counters and giving its elements
\* their ids again.
SetsMeta ==
  \E meta \in Metas : nodeInfos = EmptyMap /\ SetGraphMeta(meta[1], meta[2])

\* It calls between two other calls, as long as the number of edits allows it.
Edits ==
  /\ phase = "idle" /\ edits < MaxEdits
  /\ Creates \/ Connects \/ Deletes \/ EntersData \/ SetsMeta

Next ==
  \/ Edits
  \/ BuildPipeline \/ StepPipeline \/ RunExecutor \/ Fulfil

Spec == Init /\ [][Next]_vars

----------------------------------------------------------------------------
(***************************************************************************)
(* Properties                                                              *)
(***************************************************************************)

\* No edit of this client ends the program: counters and override ids never
\* meet, through restoring, deleting and giving ids again.
EditsNeverAbort == [][edits' # edits => phase' # "aborted"]_vars

\* Whatever getGraph lists can be asked for.
ListedIsAnswered ==
  /\ GetNodeStatesOk(DOMAIN nodeInfos)
  /\ GetSlotStatesOk(DOMAIN slotInfos)
  /\ \A src, dst \in DOMAIN slotInfos : ValidateEdgeOk(src, dst)

Links(g, slot) == {e \in DOMAIN g.edgeInfos : slot \in {R!From(g.edgeInfos[e]), R!To(g.edgeInfos[e])}}

\* What an editor shows as complete: each graph input has a wire and data, each
\* graph output has one wire.
InputsAndOutputsComplete(g) ==
  \A n \in DOMAIN g.nodeInfos :
    /\ g.nodeInfos[n].ntype = "IN" =>
         Links(g, <<n, "$out">>) # {} /\ g.slotStates[<<n, "$out">>].encodedData # NoData
    /\ g.nodeInfos[n].ntype = "OUT" =>
         Cardinality(Links(g, <<n, "$in">>)) = 1 /\ g.slotStates[<<n, "$in">>].encodedData = NoData

\* Such a graph can always be built: slot indexes, edges and the sort order
\* agree after every edit.
CompleteGraphsBuild == InputsAndOutputsComplete(Graph) => R!BuildOk(Graph)

\* An input of a function that was left without wire and data.
MissesInput(g) ==
  \E n \in DOMAIN g.nodeInfos : \E x \in Entries(g.nodeInfos[n].ins) :
    Links(g, <<n, x>>) = {} /\ g.slotStates[<<n, x>>].encodedData = NoData

\* A graph that can be built is built in an order in which it can be run, and
\* ends the program in a step only if it misses an input or a function refuses
\* what was entered or computed for it: validateEdge lets no value of a wrong
\* type through, and no sequence of edits keeps a value from arriving.
OnlyMissingInputsAbort ==
  (built # NoGraph /\ R!BuildOk(built)) =>
    /\ R!Ordered(built)
    /\ phase = "aborted" => MissesInput(built) \/ ~ R!NothingRefused(built)

\* A step reports what the graph computes that was there at the last build,
\* however the graph was edited since.
OutputsOfTheBuild ==
  (phase = "idle" /\ result # NoResult) =>
    \A n \in DOMAIN result.outputs :
      result.outputs[n] = R!Values(built)[<<n, "$in">>]
=============================================================================
