---------------------------- MODULE GraphBuilder ----------------------------
(***************************************************************************)
(* Class GraphBuilder (graph/GraphBuilder.cpp) on the GraphState and the   *)
(* TopoSorter it is given, with setGraphMeta of GraphApiBackend: one step  *)
(* per call, by any client, in any order.  The program has one thread, so  *)
(* a call is atomic, but it is not a transaction: an error returned in the *)
(* middle of a batch leaves what was done before it.                       *)
(*                                                                         *)
(* A slot id is a pair <<node, name>>.  Labels, alphanumeric ids and the   *)
(* two generation counters, which no code changes, are left out.           *)
(***************************************************************************)
EXTENDS TopoSortOps

CONSTANTS
  MaxNodeId, MaxEdgeId,   \* bounds on ids, 32 bits in the code
  Registry,               \* uri -> the parameters of the registered function
  Dtype,                  \* data types a client may give an input or output node
  Payload, NoData,        \* encoded data, and its absence
  Batches                 \* the edge batches a client may ask for

NodeId == 1 .. MaxNodeId
EdgeId == 1 .. MaxEdgeId

\* No overrideId was given; ids start from 1.
NoOverride == 0

Entry ==
  [node0 : NodeId, slot0 : STRING, node1 : NodeId, slot1 : STRING,
   edgeId : EdgeId \cup {NoOverride}]

Access == {"I", "O", "M"}

FuncParam == [name : STRING, dtype : STRING, access : Access]

ASSUME BuilderAssumption ==
  /\ MaxNodeId \in Nat /\ MaxEdgeId \in Nat
  /\ \A uri \in DOMAIN Registry :
       /\ Registry[uri] \in Seq(FuncParam)
       /\ \A i, j \in DOMAIN Registry[uri] :
            Registry[uri][i].name = Registry[uri][j].name => i = j
  /\ Dtype \cup {"$in", "$out"} \subseteq STRING
  /\ NoData \notin Payload
  /\ Batches \subseteq Seq(Entry)

VARIABLES
  nodeInfos,    \* node -> its type, function and slot names
  nodeStates,   \* node -> its encoded data
  slotInfos,    \* slot -> its data type and access
  slotStates,   \* slot -> the edges in and out, and its encoded data
  edgeInfos,    \* edge -> its two ends
  lastNodeId, lastEdgeId,   \* idgen_state
  sorter,       \* the TopoSorter, with the sortOrder of the graph state
  ok            \* the status of the last call

ids == <<lastNodeId, lastEdgeId>>
nodeVars == <<nodeInfos, nodeStates>>
slotVars == <<slotInfos, slotStates>>
graphVars == <<nodeVars, slotVars, edgeInfos, ids, sorter>>
vars == <<graphVars, ok>>

\* std::map::operator[] assignment and erase.
Put(map, key, value) ==
  [k \in DOMAIN map \cup {key} |-> IF k = key THEN value ELSE map[k]]
Erase(map, keys) == [k \in DOMAIN map \ keys |-> map[k]]

Init ==
  /\ nodeInfos = EmptyMap /\ nodeStates = EmptyMap
  /\ slotInfos = EmptyMap /\ slotStates = EmptyMap
  /\ edgeInfos = EmptyMap
  /\ lastNodeId = 0 /\ lastEdgeId = 0
  /\ sorter = EmptySorter
  /\ ok = TRUE

Fail == ok' = FALSE /\ UNCHANGED graphVars

----------------------------------------------------------------------------
(***************************************************************************)
(* Adding nodes                                                            *)
(***************************************************************************)

NewSlotState == [inEdges |-> {}, outEdges |-> {}, encodedData |-> NoData]

NamesOf(params, access) ==
  LET chosen == SortedSeq({i \in DOMAIN params : params[i].access = access})
  IN  [k \in DOMAIN chosen |-> params[chosen[k]].name]

\* The tail that AddFuncNode and AddIONode share: slots, info, state, order.
InsertNode(id, ntype, uri, params) ==
  LET param == [s \in {<<id, params[i].name>> : i \in DOMAIN params} |->
                  CHOOSE p \in Entries(params) : p.name = s[2]]
  IN  /\ slotStates' = [s \in DOMAIN slotStates \cup DOMAIN param |->
                          IF s \in DOMAIN param THEN NewSlotState ELSE slotStates[s]]
      /\ slotInfos' = [s \in DOMAIN slotInfos \cup DOMAIN param |->
                          IF s \in DOMAIN param
                          THEN [dtype |-> param[s].dtype, access |-> param[s].access]
                          ELSE slotInfos[s]]
      /\ nodeInfos' = Put(nodeInfos, id,
                          [ntype |-> ntype, uri |-> uri, ins |-> NamesOf(params, "I"),
                           outs |-> NamesOf(params, "O"), inouts |-> NamesOf(params, "M")])
      /\ nodeStates' = Put(nodeStates, id, NoData)
      /\ sorter' = AddNode(sorter, id)
      /\ ok' = TRUE
      /\ UNCHANGED <<edgeInfos, lastEdgeId>>

\* Mutant: the id is taken from the number of nodes.
AddNodeWithId_ByCount(override, ntype, uri, params) ==
  LET id == IF override = NoOverride THEN Cardinality(DOMAIN nodeInfos) + 1 ELSE override
  IN  /\ id \in NodeId
      /\ lastNodeId' = IF override = NoOverride THEN id ELSE lastNodeId
      /\ \/ /\ id \in DOMAIN nodeInfos
            /\ ok' = FALSE
            /\ UNCHANGED <<nodeVars, slotVars, edgeInfos, lastEdgeId, sorter>>
         \/ /\ id \notin DOMAIN nodeInfos
            /\ InsertNode(id, ntype, uri, params)

\* The counter has moved before an id in use is refused.
AddNodeWithId(override, ntype, uri, params) ==
  LET id == IF override = NoOverride THEN lastNodeId + 1 ELSE override
  IN  /\ id \in NodeId
      /\ lastNodeId' = IF override = NoOverride THEN id ELSE lastNodeId
      /\ \/ /\ id \in DOMAIN nodeInfos
            /\ ok' = FALSE
            /\ UNCHANGED <<nodeVars, slotVars, edgeInfos, lastEdgeId, sorter>>
         \/ /\ id \notin DOMAIN nodeInfos
            /\ InsertNode(id, ntype, uri, params)

AddFuncNode(uri, override) ==
  \/ uri \notin DOMAIN Registry /\ Fail
  \/ uri \in DOMAIN Registry /\ AddNodeWithId(override, "FN", uri, Registry[uri])

AddIONode(dtype, isOutput, override) ==
  LET param == [name |-> IF isOutput THEN "$in" ELSE "$out",
                dtype |-> dtype, access |-> IF isOutput THEN "I" ELSE "O"]
  IN  AddNodeWithId(override, IF isOutput THEN "OUT" ELSE "IN",
                    <<IF isOutput THEN "$OUT" ELSE "$IN", dtype>>, <<param>>)

----------------------------------------------------------------------------
(***************************************************************************)
(* Adding edges                                                            *)
(***************************************************************************)

SourceOf(edge) == <<edge.node0, edge.slot0>>
TargetOf(edge) == <<edge.node1, edge.slot1>>

\* The lookups at the top of the loop, which all must succeed.
EndsFound(entry) ==
  /\ {entry.node0, entry.node1} \subseteq DOMAIN nodeInfos \cap DOMAIN nodeStates
  /\ {SourceOf(entry), TargetOf(entry)} \subseteq DOMAIN slotInfos \cap DOMAIN slotStates

\* Mutant: the source slot does not list the edge.
Connect_TargetOnly(b, id, entry) ==
  [ok |-> TRUE,
   lastEdgeId |-> b.lastEdgeId,
   edgeInfos  |-> Put(b.edgeInfos, id,
                      [node0 |-> entry.node0, slot0 |-> entry.slot0,
                       node1 |-> entry.node1, slot1 |-> entry.slot1]),
   slotStates |-> [b.slotStates EXCEPT ![TargetOf(entry)].inEdges = @ \cup {id}],
   sorter |-> AddEdge(b.sorter, entry.node0, entry.node1).sorter]

\* Mutant: connecting a slot drops the data entered for it.
Connect_DropData(b, id, entry) ==
  [ok |-> TRUE,
   lastEdgeId |-> b.lastEdgeId,
   edgeInfos  |-> Put(b.edgeInfos, id,
                      [node0 |-> entry.node0, slot0 |-> entry.slot0,
                       node1 |-> entry.node1, slot1 |-> entry.slot1]),
   slotStates |-> [b.slotStates EXCEPT ![SourceOf(entry)].outEdges = @ \cup {id},
                     ![TargetOf(entry)] = [@ EXCEPT !.inEdges = @ \cup {id},
                                                    !.encodedData = NoData]],
   sorter |-> AddEdge(b.sorter, entry.node0, entry.node1).sorter]

\* The edge is recorded at both slots, then given to the sorter, whose answer
\* is not looked at.
Connect(b, id, entry) ==
  LET src == SourceOf(entry)
      dst == TargetOf(entry)
  IN  [ok |-> TRUE,
       lastEdgeId |-> b.lastEdgeId,
       edgeInfos  |-> Put(b.edgeInfos, id,
                          [node0 |-> entry.node0, slot0 |-> entry.slot0,
                           node1 |-> entry.node1, slot1 |-> entry.slot1]),
       slotStates |-> [s \in DOMAIN b.slotStates |->
                         [inEdges  |-> b.slotStates[s].inEdges \cup IF s = dst THEN {id} ELSE {},
                          outEdges |-> b.slotStates[s].outEdges \cup IF s = src THEN {id} ELSE {},
                          encodedData |-> b.slotStates[s].encodedData]],
       sorter |-> AddEdge(b.sorter, entry.node0, entry.node1).sorter]

\* Mutant: a connected target slot accepts a second edge.
AddEntry_NoTargetCheck(b, entry) ==
  LET id == IF entry.edgeId = NoOverride THEN b.lastEdgeId + 1 ELSE entry.edgeId
      counted == [b EXCEPT !.lastEdgeId = IF entry.edgeId = NoOverride THEN id ELSE @]
  IN  IF ~ b.ok THEN b
      ELSE IF ~ EndsFound(entry) THEN [b EXCEPT !.ok = FALSE]
      ELSE IF id \in DOMAIN b.edgeInfos THEN [counted EXCEPT !.ok = FALSE]
      ELSE Connect(counted, id, entry)

\* Mutant: an edge id in use is taken over.
AddEntry_NoIdCheck(b, entry) ==
  LET id == IF entry.edgeId = NoOverride THEN b.lastEdgeId + 1 ELSE entry.edgeId
      counted == [b EXCEPT !.lastEdgeId = IF entry.edgeId = NoOverride THEN id ELSE @]
  IN  IF ~ b.ok THEN b
      ELSE IF ~ EndsFound(entry) THEN [b EXCEPT !.ok = FALSE]
      ELSE IF b.slotStates[TargetOf(entry)].inEdges # {} THEN b
      ELSE Connect(counted, id, entry)

\* One turn of the loop of AddEdges; `b' is the state it works on.  After an
\* error the remaining entries are not looked at.  A target that is already
\* connected is skipped without an error.
AddEntry(b, entry) ==
  LET id == IF entry.edgeId = NoOverride THEN b.lastEdgeId + 1 ELSE entry.edgeId
      counted == [b EXCEPT !.lastEdgeId = IF entry.edgeId = NoOverride THEN id ELSE @]
  IN  IF ~ b.ok THEN b
      ELSE IF ~ EndsFound(entry) THEN [b EXCEPT !.ok = FALSE]
      ELSE IF b.slotStates[TargetOf(entry)].inEdges # {} THEN b
      ELSE IF id \in DOMAIN b.edgeInfos THEN [counted EXCEPT !.ok = FALSE]
      ELSE Connect(counted, id, entry)

\* The state that AddEdges works on.
Batch ==
  [ok |-> TRUE, lastEdgeId |-> lastEdgeId, edgeInfos |-> edgeInfos,
   slotStates |-> slotStates, sorter |-> sorter]

\* That state before the first turn of the loop and after each.
AfterEntry(entries) ==
  LET after[i \in 0 .. Len(entries)] ==
        IF i = 0 THEN Batch ELSE AddEntry(after[i - 1], entries[i])
  IN  after

AddEdges(entries) ==
  LET result == AfterEntry(entries)[Len(entries)]
  IN  /\ DOMAIN result.edgeInfos \subseteq EdgeId
      /\ result.lastEdgeId \in EdgeId \cup {0}
      /\ ok' = result.ok
      /\ lastEdgeId' = result.lastEdgeId
      /\ edgeInfos' = result.edgeInfos
      /\ slotStates' = result.slotStates
      /\ sorter' = result.sorter
      /\ UNCHANGED <<nodeVars, slotInfos, lastNodeId>>

----------------------------------------------------------------------------
(***************************************************************************)
(* Deleting                                                                *)
(***************************************************************************)

\* Mutant: the edges of the mutable slots are overlooked.
GetDownstreamNodeIds_OutsOnly(n) ==
  IF n \notin DOMAIN nodeInfos THEN {}
  ELSE LET slots == {<<n, name>> : name \in Entries(nodeInfos[n].outs)}
           out == UNION {slotStates[s].outEdges : s \in slots \cap DOMAIN slotStates}
       IN  {edgeInfos[e].node1 : e \in out \cap DOMAIN edgeInfos}

\* The nodes that an edge leads to from an output or mutable slot of n.
GetDownstreamNodeIds(n) ==
  IF n \notin DOMAIN nodeInfos THEN {}
  ELSE LET slots == {<<n, name>> : name \in Entries(nodeInfos[n].outs)
                                         \cup Entries(nodeInfos[n].inouts)}
           out == UNION {slotStates[s].outEdges : s \in slots \cap DOMAIN slotStates}
       IN  {edgeInfos[e].node1 : e \in out \cap DOMAIN edgeInfos}

\* The calls of RemoveEdge for the pairs.
CutPairs(pairs) ==
  [sortOrder |-> sorter.sortOrder, hasDirtyBit |-> sorter.hasDirtyBit, pos |-> sorter.pos,
   inAdj  |-> [n \in Nodes(sorter) |-> {m \in sorter.inAdj[n] : <<m, n>> \notin pairs}],
   outAdj |-> [n \in Nodes(sorter) |-> {m \in sorter.outAdj[n] : <<n, m>> \notin pairs}]]

\* The sorter after each of the calls of RemoveNode that follow.
AfterRemoval(pairs, nodeIds) ==
  LET after[i \in 0 .. Len(nodeIds)] ==
        IF i = 0 THEN CutPairs(pairs) ELSE RemoveNode(after[i - 1], nodeIds[i])
  IN  after

Unsort(pairs, nodeIds) == AfterRemoval(pairs, nodeIds)[Len(nodeIds)]

\* Mutant: a deleted edge stays in the state of its target slot.
DeleteElements_KeepInEdges(nodeIds, edgeIds) ==
  LET deleted == edgeIds \cap DOMAIN edgeInfos
      slots == {s \in DOMAIN slotInfos : s[1] \in Entries(nodeIds)}
      pairs == {<<edgeInfos[e].node0, edgeInfos[e].node1>> : e \in deleted}
  IN  /\ nodeInfos' = Erase(nodeInfos, Entries(nodeIds))
      /\ nodeStates' = Erase(nodeStates, Entries(nodeIds))
      /\ slotInfos' = Erase(slotInfos, slots)
      /\ edgeInfos' = Erase(edgeInfos, deleted)
      /\ slotStates' = [s \in DOMAIN slotStates \ slots |->
           [slotStates[s] EXCEPT
              !.outEdges = @ \ {e \in deleted : SourceOf(edgeInfos[e]) = s}]]
      /\ sorter' = Unsort({p \in pairs : p[2] \notin GetDownstreamNodeIds(p[1])'}, nodeIds)
      /\ ok' = TRUE
      /\ UNCHANGED ids

\* Mutant: the slot infos of a deleted node stay.
DeleteElements_KeepSlotInfos(nodeIds, edgeIds) ==
  LET deleted == edgeIds \cap DOMAIN edgeInfos
      slots == {s \in DOMAIN slotInfos : s[1] \in Entries(nodeIds)}
      pairs == {<<edgeInfos[e].node0, edgeInfos[e].node1>> : e \in deleted}
  IN  /\ nodeInfos' = Erase(nodeInfos, Entries(nodeIds))
      /\ nodeStates' = Erase(nodeStates, Entries(nodeIds))
      /\ edgeInfos' = Erase(edgeInfos, deleted)
      /\ slotStates' = [s \in DOMAIN slotStates \ slots |->
           [slotStates[s] EXCEPT
              !.inEdges  = @ \ {e \in deleted : TargetOf(edgeInfos[e]) = s},
              !.outEdges = @ \ {e \in deleted : SourceOf(edgeInfos[e]) = s}]]
      /\ sorter' = Unsort({p \in pairs : p[2] \notin GetDownstreamNodeIds(p[1])'}, nodeIds)
      /\ ok' = TRUE
      /\ UNCHANGED <<slotInfos, ids>>

\* The edges deleted are the ones asked for; those of a deleted node are not
\* looked for.  The sorter forgets a dependency when no edge between the same
\* two nodes is left.
DeleteElements(nodeIds, edgeIds) ==
  LET deleted == edgeIds \cap DOMAIN edgeInfos
      slots == {s \in DOMAIN slotInfos : s[1] \in Entries(nodeIds)}
      pairs == {<<edgeInfos[e].node0, edgeInfos[e].node1>> : e \in deleted}
  IN  /\ nodeInfos' = Erase(nodeInfos, Entries(nodeIds))
      /\ nodeStates' = Erase(nodeStates, Entries(nodeIds))
      /\ slotInfos' = Erase(slotInfos, slots)
      /\ edgeInfos' = Erase(edgeInfos, deleted)
      /\ slotStates' = [s \in DOMAIN slotStates \ slots |->
           [slotStates[s] EXCEPT
              !.inEdges  = @ \ {e \in deleted : TargetOf(edgeInfos[e]) = s},
              !.outEdges = @ \ {e \in deleted : SourceOf(edgeInfos[e]) = s}]]
      /\ sorter' = Unsort({p \in pairs : p[2] \notin GetDownstreamNodeIds(p[1])'}, nodeIds)
      /\ ok' = TRUE
      /\ UNCHANGED ids

\* Mutant: the states of the nodes are left behind.
ClearGraph_KeepNodeStates ==
  /\ edgeInfos' = EmptyMap
  /\ nodeInfos' = EmptyMap
  /\ slotStates' = EmptyMap
  /\ ok' = TRUE
  /\ UNCHANGED <<nodeStates, slotInfos, sorter, ids>>

\* Mutant: the states of the slots are left behind.
ClearGraph_KeepSlotStates ==
  /\ edgeInfos' = EmptyMap
  /\ nodeInfos' = EmptyMap
  /\ nodeStates' = EmptyMap
  /\ ok' = TRUE
  /\ UNCHANGED <<slotVars, sorter, ids>>

\* The slot infos and the sorter are not touched.
ClearGraph ==
  /\ edgeInfos' = EmptyMap
  /\ nodeInfos' = EmptyMap
  /\ nodeStates' = EmptyMap
  /\ slotStates' = EmptyMap
  /\ ok' = TRUE
  /\ UNCHANGED <<slotInfos, sorter, ids>>

----------------------------------------------------------------------------
(***************************************************************************)
(* Encoded data and meta data                                              *)
(***************************************************************************)

SetNodeEncodedData(n, data) ==
  \/ n \notin DOMAIN nodeStates /\ Fail
  \/ /\ n \in DOMAIN nodeStates
     /\ nodeStates' = [nodeStates EXCEPT ![n] = data]
     /\ ok' = TRUE
     /\ UNCHANGED <<nodeInfos, slotVars, edgeInfos, ids, sorter>>

SetSlotEncodedData(slot, data) ==
  \/ slot \notin DOMAIN slotStates /\ Fail
  \/ /\ slot \in DOMAIN slotStates
     /\ slotStates' = [slotStates EXCEPT ![slot].encodedData = data]
     /\ ok' = TRUE
     /\ UNCHANGED <<nodeVars, slotInfos, edgeInfos, ids, sorter>>

IoSlot(n) ==
  <<n, IF nodeInfos[n].ntype = "IN" THEN nodeInfos[n].outs[1] ELSE nodeInfos[n].ins[1]>>

\* The checks before SetGraphInputs or ClearGraphInputs writes to a node.
TakesInput(n) ==
  /\ n \in DOMAIN nodeInfos
  /\ nodeInfos[n].ntype = "IN"
  /\ IoSlot(n) \in DOMAIN slotInfos \cap DOMAIN slotStates

\* The loop of both: inputs is a sequence of pairs <<node, data>>, and the
\* first node that takes no input ends it with an error.
WriteInputs(inputs) ==
  LET done == {i \in DOMAIN inputs : \A j \in 1 .. i : TakesInput(inputs[j][1])}
      last(s) == CHOOSE i \in done : /\ IoSlot(inputs[i][1]) = s
                                     /\ \A j \in done : IoSlot(inputs[j][1]) = s => j <= i
  IN  /\ slotStates' = [s \in DOMAIN slotStates |->
           IF \E i \in done : IoSlot(inputs[i][1]) = s
           THEN [slotStates[s] EXCEPT !.encodedData = inputs[last(s)][2]]
           ELSE slotStates[s]]
      /\ ok' = (done = DOMAIN inputs)
      /\ UNCHANGED <<nodeVars, slotInfos, edgeInfos, ids, sorter>>

SetGraphInputs(inputs) == WriteInputs(inputs)

ClearGraphInputs(nodeIds) == WriteInputs([i \in DOMAIN nodeIds |-> <<nodeIds[i], NoData>>])

SetGraphMeta(nodeId, edgeId) ==
  /\ lastNodeId' = nodeId
  /\ lastEdgeId' = edgeId
  /\ ok' = TRUE
  /\ UNCHANGED <<nodeVars, slotVars, edgeInfos, sorter>>

\* Mutant: the types of the slots are not compared.
ValidateEdge_AnyType(src, dst) ==
  IF ~ {src, dst} \subseteq DOMAIN slotInfos THEN "error"
  ELSE IF dst \notin DOMAIN slotStates THEN "error"
  ELSE IF slotStates[dst].inEdges # {} THEN "ERR_EDGE"
  ELSE IF slotStates[dst].encodedData # NoData THEN "WARN_DATA"
  ELSE "VALID"

\* What ValidateEdge answers; it changes nothing.
ValidateEdge(src, dst) ==
  IF ~ {src, dst} \subseteq DOMAIN slotInfos THEN "error"
  ELSE IF slotInfos[src].dtype # slotInfos[dst].dtype THEN "ERR_TYPE"
  ELSE IF dst \notin DOMAIN slotStates THEN "error"
  ELSE IF slotStates[dst].inEdges # {} THEN "ERR_EDGE"
  ELSE IF slotStates[dst].encodedData # NoData THEN "WARN_DATA"
  ELSE "VALID"
----------------------------------------------------------------------------
(***************************************************************************)
(* The specification.  DeleteElements is given its nodes in order of id:   *)
(* the calls of RemoveNode commute.                                        *)
(***************************************************************************)

Data == Payload \cup {NoData}

AddsNode ==
  \E override \in NodeId \cup {NoOverride} :
    \/ \E uri \in DOMAIN Registry \cup {"unregistered"} : AddFuncNode(uri, override)
    \/ \E dtype \in Dtype, isOutput \in BOOLEAN : AddIONode(dtype, isOutput, override)

SetsData ==
  \/ \E n \in NodeId, data \in Data : SetNodeEncodedData(n, data)
  \/ \E slot \in DOMAIN slotInfos, data \in Data : SetSlotEncodedData(slot, data)
  \/ \E k \in 1 .. 2 : \E inputs \in [1 .. k -> NodeId \X Payload] : SetGraphInputs(inputs)
  \/ \E k \in 1 .. 2 : \E nodeIds \in [1 .. k -> NodeId] : ClearGraphInputs(nodeIds)

SetsMeta ==
  \E n \in NodeId \cup {0}, e \in EdgeId \cup {0} : SetGraphMeta(n, e)

Next ==
  \/ AddsNode
  \/ \E entries \in Batches : AddEdges(entries)
  \/ \E nodes \in SUBSET NodeId, edges \in SUBSET EdgeId :
       DeleteElements(SortedSeq(nodes), edges)
  \/ ClearGraph
  \/ SetsData
  \/ SetsMeta

Spec == Init /\ [][Next]_vars

----------------------------------------------------------------------------
(***************************************************************************)
(* What holds whatever the client asks for                                 *)
(***************************************************************************)

NodeInfo ==
  [ntype : {"FN", "IN", "OUT"}, uri : DOMAIN Registry \cup ({"$IN", "$OUT"} \X Dtype),
   ins : Seq(STRING), outs : Seq(STRING), inouts : Seq(STRING)]

Slot == NodeId \X STRING

SlotInfo == [dtype : STRING, access : Access]

SlotState == [inEdges : SUBSET EdgeId, outEdges : SUBSET EdgeId, encodedData : Data]

EdgeInfo == [node0 : NodeId, slot0 : STRING, node1 : NodeId, slot1 : STRING]

\* The type invariant.
TypeOK ==
  /\ DOMAIN nodeInfos \subseteq NodeId
  /\ \A n \in DOMAIN nodeInfos : nodeInfos[n] \in NodeInfo
  /\ nodeStates \in [DOMAIN nodeInfos -> Data]
  /\ DOMAIN slotInfos \subseteq Slot
  /\ \A s \in DOMAIN slotInfos : slotInfos[s] \in SlotInfo
  /\ DOMAIN slotStates \subseteq Slot
  /\ \A s \in DOMAIN slotStates : slotStates[s] \in SlotState
  /\ DOMAIN edgeInfos \subseteq EdgeId
  /\ \A e \in DOMAIN edgeInfos : edgeInfos[e] \in EdgeInfo
  /\ lastNodeId \in NodeId \cup {0} /\ lastEdgeId \in EdgeId \cup {0}
  /\ IsSorter(sorter, NodeId) /\ DOMAIN nodeInfos \subseteq Nodes(sorter)
  /\ ok \in BOOLEAN

SlotsOf(n) ==
  {<<n, name>> : name \in Entries(nodeInfos[n].ins) \cup Entries(nodeInfos[n].outs)
                             \cup Entries(nodeInfos[n].inouts)}

\* Exactly the slots of the present nodes have a state, and an info with the
\* access under which the node lists them: an info left behind by ClearGraph
\* never shows through a node that takes the id again.
SlotsMatchNodes ==
  /\ DOMAIN slotStates = UNION {SlotsOf(n) : n \in DOMAIN nodeInfos}
  /\ DOMAIN slotStates \subseteq DOMAIN slotInfos
  /\ \A n \in DOMAIN nodeInfos :
       /\ \A name \in Entries(nodeInfos[n].ins) : slotInfos[<<n, name>>].access = "I"
       /\ \A name \in Entries(nodeInfos[n].outs) : slotInfos[<<n, name>>].access = "O"
       /\ \A name \in Entries(nodeInfos[n].inouts) : slotInfos[<<n, name>>].access = "M"

\* A slot lists only edges that exist and end there, and at most one inwards.
SlotIndexSound ==
  \A s \in DOMAIN slotStates :
    /\ \A e \in slotStates[s].inEdges :
         e \in DOMAIN edgeInfos /\ TargetOf(edgeInfos[e]) = s
    /\ \A e \in slotStates[s].outEdges :
         e \in DOMAIN edgeInfos /\ SourceOf(edgeInfos[e]) = s
    /\ \A d, e \in slotStates[s].inEdges : d = e

\* ValidateEdge foretells what AddEdges will do between the slots of present
\* nodes: after VALID and WARN_DATA it adds the edge, after ERR_EDGE it leaves
\* everything as it was without an error.
ValidateForetells ==
  \A src, dst \in DOMAIN slotStates :
    LET answer == ValidateEdge(src, dst)
        entry == [node0 |-> src[1], slot0 |-> src[2], node1 |-> dst[1], slot1 |-> dst[2],
                  edgeId |-> NoOverride]
        after == AddEntry(Batch, entry)
    IN  /\ answer # "error"
        /\ answer = "ERR_EDGE" => after = Batch
        /\ (answer \in {"VALID", "WARN_DATA"} /\ lastEdgeId + 1 \notin DOMAIN edgeInfos) =>
             /\ after.ok
             /\ lastEdgeId + 1 \in DOMAIN after.edgeInfos
             /\ after.slotStates[dst].inEdges = {lastEdgeId + 1}

\* As long as an id is in use it denotes the same node or the same edge,
\* whatever override ids are given and wherever the counters are set.
IdsKept ==
  /\ \A n \in DOMAIN nodeInfos \cap DOMAIN nodeInfos' : nodeInfos'[n] = nodeInfos[n]
  /\ \A e \in DOMAIN edgeInfos \cap DOMAIN edgeInfos' : edgeInfos'[e] = edgeInfos[e]

IdsKeepTheirMeaning == [][IdsKept]_vars

\* Only calls that set data change the encoded data of a slot that stays: no
\* adding or deleting of nodes and edges loses what the client entered.
DataKept ==
  <<nodeInfos, edgeInfos>>' # <<nodeInfos, edgeInfos>> =>
    \A s \in DOMAIN slotStates \cap DOMAIN slotStates' :
      slotStates'[s].encodedData = slotStates[s].encodedData

EditsKeepData == [][DataKept]_vars

----------------------------------------------------------------------------
(***************************************************************************)
(* What the code's comments promise and hold only for a careful client,    *)
(* see CarefulEditing                                                      *)
(***************************************************************************)

Pairs == {<<edgeInfos[e].node0, edgeInfos[e].node1>> : e \in DOMAIN edgeInfos}

\* An edge is deleted with either of its nodes, and both its slots list it.
EdgesHaveEnds ==
  \A e \in DOMAIN edgeInfos :
    LET src == SourceOf(edgeInfos[e])
        dst == TargetOf(edgeInfos[e])
    IN  /\ {src, dst} \subseteq DOMAIN slotStates
        /\ e \in slotStates[src].outEdges
        /\ e \in slotStates[dst].inEdges

\* The order lists the nodes of the graph and no others.
OrderListsNodes == Entries(sorter.sortOrder) = DOMAIN nodeInfos

\* If the edges of the graph have an order at all, sortOrder is one.
OrderRespectsEdges ==
  (\A n \in NodeId :
     ~ \E e \in Pairs : e[1] = n /\
         n \in Closure(e[2], [m \in NodeId |-> {p[2] : p \in {q \in Pairs : q[1] = m}}]))
  => \A e \in Pairs : {e[1], e[2]} \subseteq Nodes(sorter) => sorter.pos[e[1]] < sorter.pos[e[2]]
=============================================================================
