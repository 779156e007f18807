------------------------ MODULE GraphBuilder_proofs ------------------------
(***************************************************************************)
(* What holds of the graph state for every registry, every bound on the    *)
(* ids and every set of batches.  The type invariant is not inductive: the *)
(* edges that a slot lists are ids only because the slot index is sound,   *)
(* and the sorter keeps its type only with the invariant of its class.     *)
(***************************************************************************)
EXTENDS CarefulEditing, TopoSortLemmas

\* A slot lists only edges of infos that end there, at most one inwards.
IndexSound(states, infos) ==
  \A s \in DOMAIN states :
    /\ \A e \in states[s].inEdges : e \in DOMAIN infos /\ TargetOf(infos[e]) = s
    /\ \A e \in states[s].outEdges : e \in DOMAIN infos /\ SourceOf(infos[e]) = s
    /\ \A d, e \in states[s].inEdges : d = e

GraphInv ==
  /\ TypeOK
  /\ SlotsMatchNodes
  /\ SlotIndexSound
  /\ SorterInv(sorter, NodeId)

----------------------------------------------------------------------------
(***************************************************************************)
(* Adding nodes                                                            *)
(***************************************************************************)

\* The parameters of a function: each has a name of its own.
GoodParams(params) ==
  /\ params \in Seq(FuncParam)
  /\ \A i, j \in DOMAIN params : params[i].name = params[j].name => i = j

\* Its parameters are a sequence of records of strings.
LEMMA ParamTypes ==
  ASSUME NEW params, GoodParams(params)
  PROVE  /\ Len(params) \in Nat /\ DOMAIN params = 1 .. Len(params)
         /\ \A i \in DOMAIN params : /\ params[i].name \in STRING
                                     /\ params[i].dtype \in STRING
                                     /\ params[i].access \in Access
<1>1. params \in Seq(FuncParam)
  BY DEF GoodParams
<1>2. \A i \in 1 .. Len(params) : params[i] \in FuncParam
  BY <1>1
<1>3. \A p \in FuncParam : p.name \in STRING /\ p.dtype \in STRING /\ p.access \in Access
  BY DEF FuncParam
<1>4. Len(params) \in Nat /\ DOMAIN params = 1 .. Len(params)
  BY <1>1
<1>5. QED
  BY <1>2, <1>3, <1>4

\* NamesOf lists exactly the names of the parameters with the given access.
LEMMA NamesOfFacts ==
  ASSUME NEW params, GoodParams(params), NEW access
  PROVE  /\ NamesOf(params, access) \in Seq(STRING)
         /\ \A name : name \in Entries(NamesOf(params, access)) <=>
               \E i \in DOMAIN params : params[i].access = access /\ params[i].name = name
<1> DEFINE I == {i \in DOMAIN params : params[i].access = access}
           sq == SortedSeq(I)
           c == Cardinality(I)
<1>1. /\ DOMAIN params = 1 .. Len(params) /\ Len(params) \in Nat
      /\ \A i \in DOMAIN params : params[i].name \in STRING
  BY ParamTypes
<1>2. I \in SUBSET Nat /\ IsFiniteSet(I)
  <2>1. I \subseteq 1 .. Len(params) /\ IsFiniteSet(1 .. Len(params))
    BY <1>1, FS_Interval
  <2> HIDE DEF I
  <2>2. IsFiniteSet(I)
    BY <2>1, FS_Subset
  <2>3. QED
    BY <2>1, <2>2
<1>3. /\ c \in Nat /\ sq \in [1 .. c -> I]
      /\ \A i \in I : \E k \in 1 .. c : sq[k] = i
  <2> HIDE DEF I
  <2>1. QED
    BY <1>2, SortedSeqSorts
<1>4. NamesOf(params, access) = [k \in 1 .. c |-> params[sq[k]].name]
  BY <1>3 DEF NamesOf
<1>5. \A k \in 1 .. c : sq[k] \in DOMAIN params /\ params[sq[k]].access = access
  BY <1>3
<1> HIDE DEF sq, c
<1>6. \A k \in 1 .. c : params[sq[k]].name \in STRING
  BY <1>1, <1>5
<1>7. NamesOf(params, access) \in Seq(STRING)
  BY <1>3, <1>4, <1>6
<1>8. \A name : name \in Entries(NamesOf(params, access)) <=>
               \E k \in 1 .. c : name = params[sq[k]].name
  BY <1>4 DEF Entries
<1>9. \A name : (\E k \in 1 .. c : name = params[sq[k]].name) <=>
               \E i \in DOMAIN params : params[i].access = access /\ params[i].name = name
  BY <1>3, <1>5
<1>10. QED
  BY <1>7, <1>8, <1>9

\* The record of slot infos that InsertNode builds from the parameters.
LEMMA ParamOfSlot ==
  ASSUME NEW params, GoodParams(params), NEW i \in DOMAIN params
  PROVE  (CHOOSE p \in Entries(params) : p.name = params[i].name) = params[i]
<1>1. params[i] \in Entries(params)
  BY DEF Entries
<1>2. \A p \in Entries(params) : p.name = params[i].name => p = params[i]
  BY DEF Entries, GoodParams
<1>3. QED
  BY <1>1, <1>2

\* A node with an id that was free, and its slots, join the graph.
LEMMA InsertNodeInv ==
  ASSUME GraphInv, NEW id \in NodeId, id \notin DOMAIN nodeInfos,
         NEW ntype \in {"FN", "IN", "OUT"},
         NEW uri \in DOMAIN Registry \cup ({"$IN", "$OUT"} \X Dtype),
         NEW params, GoodParams(params),
         InsertNode(id, ntype, uri, params), lastNodeId' \in NodeId \cup {0}
  PROVE  GraphInv' /\ IdsKept /\ DataKept
<1> DEFINE names == {params[i].name : i \in DOMAIN params}
           fresh == {<<id, params[i].name>> : i \in DOMAIN params}
           info == [ntype |-> ntype, uri |-> uri, ins |-> NamesOf(params, "I"),
                    outs |-> NamesOf(params, "O"), inouts |-> NamesOf(params, "M")]
<1>1. /\ TypeOK /\ SlotsMatchNodes /\ SlotIndexSound /\ SorterInv(sorter, NodeId)
  BY DEF GraphInv
<1>2. \A i \in DOMAIN params : params[i].name \in STRING /\ params[i].dtype \in STRING
                               /\ params[i].access \in Access
  BY ParamTypes
<1>3. \A i \in DOMAIN params : <<id, params[i].name>>[2] = params[i].name
  OBVIOUS
<1> DEFINE param == [s \in fresh |-> CHOOSE p \in Entries(params) : p.name = s[2]]
<1>4. \A i \in DOMAIN params : <<id, params[i].name>> \in fresh
                                /\ param[<<id, params[i].name>>] = params[i]
  BY ParamOfSlot, <1>3
<1>5. /\ slotStates' = [s \in DOMAIN slotStates \cup fresh |->
                          IF s \in fresh THEN NewSlotState ELSE slotStates[s]]
      /\ slotInfos' = [s \in DOMAIN slotInfos \cup fresh |->
                          IF s \in fresh
                          THEN [dtype |-> param[s].dtype, access |-> param[s].access]
                          ELSE slotInfos[s]]
      /\ nodeInfos' = [n \in DOMAIN nodeInfos \cup {id} |->
                          IF n = id THEN info ELSE nodeInfos[n]]
      /\ nodeStates' = [n \in DOMAIN nodeStates \cup {id} |->
                          IF n = id THEN NoData ELSE nodeStates[n]]
      /\ sorter' = AddNode(sorter, id)
      /\ ok' = TRUE
      /\ edgeInfos' = edgeInfos /\ lastEdgeId' = lastEdgeId
  BY DEF InsertNode, Put
<1> HIDE DEF param, info
<1>6. info \in NodeInfo
  BY NamesOfFacts DEF info, NodeInfo
<1>7. \A s \in fresh : s \in Slot /\ s[1] = id
                        /\ [dtype |-> param[s].dtype, access |-> param[s].access] \in SlotInfo
  <2>1. TAKE s \in fresh
  <2>2. PICK i \in DOMAIN params : s = <<id, params[i].name>>
    OBVIOUS
  <2>3. QED
    BY <2>2, <1>2, <1>4 DEF Slot, SlotInfo
<1>8. \A n, name : <<n, name>> \in fresh <=>
         n = id /\ \E i \in DOMAIN params : params[i].name = name
  OBVIOUS
<1>9. \A s \in DOMAIN slotStates : s \notin fresh /\ s \in DOMAIN slotInfos
                                    /\ s[1] \in DOMAIN nodeInfos
  <2>1. TAKE s \in DOMAIN slotStates
  <2>2. PICK n \in DOMAIN nodeInfos : s \in SlotsOf(n)
    BY <1>1 DEF SlotsMatchNodes
  <2>3. s[1] = n
    BY <2>2 DEF SlotsOf
  <2> HIDE DEF fresh
  <2>4. QED
    BY <2>2, <2>3, <1>1, <1>7 DEF SlotsMatchNodes
<1>10. /\ info.ins = NamesOf(params, "I") /\ info.outs = NamesOf(params, "O")
       /\ info.inouts = NamesOf(params, "M")
  BY DEF info
<1>11. \A n \in DOMAIN nodeInfos : SlotsOf(n)' = SlotsOf(n)
  BY <1>5 DEF SlotsOf
<1>12. SlotsOf(id)' = fresh
  <2>1. nodeInfos'[id] = info
    BY <1>5
  <2>2. \A name : name \in Entries(info.ins) \cup Entries(info.outs) \cup Entries(info.inouts)
                   <=> \E i \in DOMAIN params : params[i].name = name
    BY <1>2, <1>10, NamesOfFacts DEF Access
  <2>3. QED
    BY <2>1, <2>2 DEF SlotsOf
<1>13. SorterInv(sorter', NodeId) /\ Nodes(sorter') = Nodes(sorter) \cup {id}
  BY <1>1, <1>5, AddNodeInv
<1> HIDE DEF fresh
<1>14. NewSlotState \in SlotState
  BY DEF NewSlotState, SlotState, Data
<1>15. TypeOK'
  <2>1. /\ DOMAIN nodeInfos' \subseteq NodeId
        /\ \A n \in DOMAIN nodeInfos' : nodeInfos'[n] \in NodeInfo
        /\ nodeStates' \in [DOMAIN nodeInfos' -> Data]
    BY <1>1, <1>5, <1>6 DEF TypeOK, Data
  <2>2. DOMAIN slotInfos' \subseteq Slot /\ \A s \in DOMAIN slotInfos' : slotInfos'[s] \in SlotInfo
    BY <1>1, <1>5, <1>7 DEF TypeOK
  <2>3. DOMAIN slotStates' \subseteq Slot /\ \A s \in DOMAIN slotStates' : slotStates'[s] \in SlotState
    BY <1>1, <1>5, <1>7, <1>14 DEF TypeOK
  <2>4. IsSorter(sorter', NodeId) /\ DOMAIN nodeInfos' \subseteq Nodes(sorter')
    BY <1>1, <1>5, <1>13 DEF TypeOK, SorterInv
  <2>5. QED
    BY <2>1, <2>2, <2>3, <2>4, <1>1, <1>5 DEF TypeOK
<1>16. SlotsMatchNodes'
  <2>1. DOMAIN slotStates' = UNION {SlotsOf(n)' : n \in DOMAIN nodeInfos'}
    BY <1>1, <1>5, <1>11, <1>12 DEF SlotsMatchNodes
  <2>2. DOMAIN slotStates' \subseteq DOMAIN slotInfos'
    BY <1>1, <1>5 DEF SlotsMatchNodes
  <2>3. ASSUME NEW n \in DOMAIN nodeInfos, NEW name, <<n, name>> \in SlotsOf(n)
        PROVE  slotInfos'[<<n, name>>] = slotInfos[<<n, name>>]
    <3>1. <<n, name>> \in DOMAIN slotStates
      BY <2>3, <1>1 DEF SlotsMatchNodes
    <3>2. QED
      BY <3>1, <1>5, <1>9
  <2>4. ASSUME NEW n \in DOMAIN nodeInfos
        PROVE  /\ \A name \in Entries(nodeInfos'[n].ins) : slotInfos'[<<n, name>>].access = "I"
               /\ \A name \in Entries(nodeInfos'[n].outs) : slotInfos'[<<n, name>>].access = "O"
               /\ \A name \in Entries(nodeInfos'[n].inouts) : slotInfos'[<<n, name>>].access = "M"
    <3>1. nodeInfos'[n] = nodeInfos[n]
      BY <1>5
    <3>2. \A name \in Entries(nodeInfos[n].ins) \cup Entries(nodeInfos[n].outs)
                        \cup Entries(nodeInfos[n].inouts) : <<n, name>> \in SlotsOf(n)
      BY DEF SlotsOf
    <3>3. QED
      BY <3>1, <3>2, <2>3, <1>1 DEF SlotsMatchNodes
  <2>5. ASSUME NEW access, NEW name \in Entries(NamesOf(params, access))
        PROVE  slotInfos'[<<id, name>>].access = access
    <3>1. PICK i \in DOMAIN params : params[i].access = access /\ params[i].name = name
      BY NamesOfFacts
    <3>2. <<id, name>> \in fresh /\ param[<<id, name>>] = params[i]
      BY <3>1, <1>4
    <3>3. QED
      BY <3>1, <3>2, <1>5
  <2>6. nodeInfos'[id] = info
    BY <1>5
  <2>7. ASSUME NEW n \in DOMAIN nodeInfos'
        PROVE  /\ \A name \in Entries(nodeInfos'[n].ins) : slotInfos'[<<n, name>>].access = "I"
               /\ \A name \in Entries(nodeInfos'[n].outs) : slotInfos'[<<n, name>>].access = "O"
               /\ \A name \in Entries(nodeInfos'[n].inouts) : slotInfos'[<<n, name>>].access = "M"
    <3>1. CASE n = id
      BY <3>1, <2>5, <2>6, <1>10
    <3>2. CASE n \in DOMAIN nodeInfos
      BY <3>2, <2>4
    <3>3. QED
      BY <3>1, <3>2, <1>5
  <2>8. QED
    BY <2>1, <2>2, <2>7 DEF SlotsMatchNodes
<1>17. SlotIndexSound'
  <2>1. ASSUME NEW s \in DOMAIN slotStates'
        PROVE  /\ \A e \in slotStates'[s].inEdges :
                    e \in DOMAIN edgeInfos' /\ TargetOf(edgeInfos'[e]) = s
               /\ \A e \in slotStates'[s].outEdges :
                    e \in DOMAIN edgeInfos' /\ SourceOf(edgeInfos'[e]) = s
               /\ \A d, e \in slotStates'[s].inEdges : d = e
    <3>1. CASE s \in fresh
      <4>1. slotStates'[s].inEdges = {} /\ slotStates'[s].outEdges = {}
        BY <3>1, <1>5 DEF NewSlotState
      <4>2. QED
        BY <4>1
    <3>2. CASE s \notin fresh
      <4>1. s \in DOMAIN slotStates /\ slotStates'[s] = slotStates[s]
        BY <3>2, <1>5
      <4>2. QED
        BY <4>1, <1>1, <1>5 DEF SlotIndexSound
    <3>3. QED
      BY <3>1, <3>2
  <2>2. QED
    BY <2>1 DEF SlotIndexSound, TargetOf, SourceOf
<1>18. IdsKept
  BY <1>5 DEF IdsKept
<1>19. DataKept
  BY <1>5, <1>9 DEF DataKept
<1>20. QED
  BY <1>13, <1>15, <1>16, <1>17, <1>18, <1>19 DEF GraphInv

\* A call that leaves the graph alone and may move the counters.
LEMMA SameGraphInv ==
  ASSUME GraphInv, UNCHANGED <<nodeVars, slotVars, edgeInfos, sorter>>,
         lastNodeId' \in NodeId \cup {0}, lastEdgeId' \in EdgeId \cup {0}, ok' \in BOOLEAN
  PROVE  GraphInv' /\ IdsKept /\ DataKept
<1>1. /\ nodeInfos' = nodeInfos /\ nodeStates' = nodeStates
      /\ slotInfos' = slotInfos /\ slotStates' = slotStates
      /\ edgeInfos' = edgeInfos /\ sorter' = sorter
  BY DEF nodeVars, slotVars
<1>2. TypeOK'
  BY <1>1 DEF GraphInv, TypeOK
<1>3. SlotsMatchNodes'
  BY <1>1 DEF GraphInv, SlotsMatchNodes, SlotsOf
<1>4. SlotIndexSound'
  BY <1>1 DEF GraphInv, SlotIndexSound, TargetOf, SourceOf
<1>5. SorterInv(sorter', NodeId)
  BY <1>1 DEF GraphInv
<1>6. QED
  BY <1>1, <1>2, <1>3, <1>4, <1>5 DEF GraphInv, IdsKept, DataKept

\* A call that fails before it has changed anything.
LEMMA FailInv ==
  ASSUME GraphInv, Fail
  PROVE  GraphInv' /\ IdsKept /\ DataKept
BY SameGraphInv DEF Fail, graphVars, ids, GraphInv, TypeOK

LEMMA AddNodeWithIdInv ==
  ASSUME GraphInv, NEW override \in NodeId \cup {NoOverride},
         NEW ntype \in {"FN", "IN", "OUT"},
         NEW uri \in DOMAIN Registry \cup ({"$IN", "$OUT"} \X Dtype),
         NEW params, GoodParams(params),
         AddNodeWithId(override, ntype, uri, params)
  PROVE  GraphInv' /\ IdsKept /\ DataKept
<1> DEFINE id == IF override = NoOverride THEN lastNodeId + 1 ELSE override
<1>1. id \in NodeId /\ lastNodeId' = IF override = NoOverride THEN id ELSE lastNodeId
  BY DEF AddNodeWithId
<1>2. lastNodeId' \in NodeId \cup {0}
  BY <1>1 DEF GraphInv, TypeOK
<1>3. CASE id \in DOMAIN nodeInfos
  <2>1. UNCHANGED <<nodeVars, slotVars, edgeInfos, lastEdgeId, sorter>> /\ ok' = FALSE
    BY <1>3 DEF AddNodeWithId
  <2>2. lastEdgeId' \in EdgeId \cup {0}
    BY <2>1 DEF GraphInv, TypeOK
  <2>3. QED
    BY <2>1, <2>2, <1>2, SameGraphInv
<1>4. CASE id \notin DOMAIN nodeInfos
  <2>1. InsertNode(id, ntype, uri, params)
    BY <1>4 DEF AddNodeWithId
  <2> HIDE DEF id
  <2>2. QED
    BY <2>1, <1>1, <1>2, <1>4, InsertNodeInv
<1>5. QED
  BY <1>3, <1>4

\* Adding nodes, whatever is asked for.
LEMMA AddsNodeInv ==
  ASSUME GraphInv, AddsNode
  PROVE  GraphInv' /\ IdsKept /\ DataKept
<1>1. ASSUME NEW override \in NodeId \cup {NoOverride}, NEW uri, AddFuncNode(uri, override)
      PROVE  GraphInv' /\ IdsKept /\ DataKept
  <2>1. CASE uri \notin DOMAIN Registry
    BY <1>1, <2>1, FailInv DEF AddFuncNode
  <2>2. CASE uri \in DOMAIN Registry
    <3>1. AddNodeWithId(override, "FN", uri, Registry[uri])
      BY <1>1, <2>2 DEF AddFuncNode
    <3>2. GoodParams(Registry[uri])
      BY <2>2, BuilderAssumption DEF GoodParams
    <3>3. QED
      BY <3>1, <3>2, <2>2, AddNodeWithIdInv
  <2>3. QED
    BY <2>1, <2>2
<1>2. ASSUME NEW override \in NodeId \cup {NoOverride}, NEW dtype \in Dtype,
             NEW isOutput \in BOOLEAN, AddIONode(dtype, isOutput, override)
      PROVE  GraphInv' /\ IdsKept /\ DataKept
  <2> DEFINE param == [name |-> IF isOutput THEN "$in" ELSE "$out",
                       dtype |-> dtype, access |-> IF isOutput THEN "I" ELSE "O"]
             ntype == IF isOutput THEN "OUT" ELSE "IN"
             uri == <<IF isOutput THEN "$OUT" ELSE "$IN", dtype>>
  <2>1. AddNodeWithId(override, ntype, uri, <<param>>)
    BY <1>2 DEF AddIONode
  <2>2. param \in FuncParam
    <3>1. dtype \in STRING /\ "$in" \in STRING /\ "$out" \in STRING
      BY BuilderAssumption
    <3>2. [name |-> "$in", dtype |-> dtype, access |-> "I"] \in FuncParam
      BY <3>1 DEF FuncParam, Access
    <3>3. [name |-> "$out", dtype |-> dtype, access |-> "O"] \in FuncParam
      BY <3>1 DEF FuncParam, Access
    <3>4. \/ param = [name |-> "$in", dtype |-> dtype, access |-> "I"]
          \/ param = [name |-> "$out", dtype |-> dtype, access |-> "O"]
      BY isOutput \/ ~ isOutput
    <3> HIDE DEF param
    <3>5. QED
      BY <3>2, <3>3, <3>4
  <2>3. ntype \in {"FN", "IN", "OUT"} /\ uri \in {"$IN", "$OUT"} \X Dtype
    OBVIOUS
  <2> HIDE DEF param, ntype, uri
  <2>4. GoodParams(<<param>>)
    BY <2>2 DEF GoodParams
  <2>5. QED
    BY <2>1, <2>3, <2>4, AddNodeWithIdInv
<1>3. QED
  BY <1>1, <1>2 DEF AddsNode

----------------------------------------------------------------------------
(***************************************************************************)
(* Adding edges: what every turn of the loop keeps                         *)
(***************************************************************************)

\* The state that the loop works on, compared with the one it started from.
BatchInv(b) ==
  /\ DOMAIN b = {"ok", "lastEdgeId", "edgeInfos", "slotStates", "sorter"}
  /\ b.ok \in BOOLEAN
  /\ \A e \in DOMAIN b.edgeInfos : b.edgeInfos[e] \in EdgeInfo
  /\ \A e \in DOMAIN edgeInfos : e \in DOMAIN b.edgeInfos /\ b.edgeInfos[e] = edgeInfos[e]
  /\ DOMAIN b.slotStates = DOMAIN slotStates
  /\ \A s \in DOMAIN slotStates :
       /\ b.slotStates[s] \in [inEdges : SUBSET DOMAIN b.edgeInfos,
                               outEdges : SUBSET DOMAIN b.edgeInfos, encodedData : Data]
       /\ b.slotStates[s].encodedData = slotStates[s].encodedData
  /\ IndexSound(b.slotStates, b.edgeInfos)
  /\ SorterInv(b.sorter, NodeId) /\ Nodes(sorter) \subseteq Nodes(b.sorter)

\* The loop starts from the state of the graph.
LEMMA BatchStarts == GraphInv => BatchInv(Batch)
<1> SUFFICES ASSUME GraphInv PROVE BatchInv(Batch)
  OBVIOUS
<1>1. /\ DOMAIN Batch = {"ok", "lastEdgeId", "edgeInfos", "slotStates", "sorter"}
      /\ Batch.ok \in BOOLEAN /\ Batch.edgeInfos = edgeInfos
      /\ Batch.slotStates = slotStates /\ Batch.sorter = sorter
  BY DEF Batch
<1>2. IndexSound(slotStates, edgeInfos)
  BY DEF GraphInv, SlotIndexSound, IndexSound
<1>3. ASSUME NEW s \in DOMAIN slotStates
      PROVE  slotStates[s] \in [inEdges : SUBSET DOMAIN edgeInfos,
                                outEdges : SUBSET DOMAIN edgeInfos, encodedData : Data]
  <2>1. slotStates[s] \in SlotState
    BY DEF GraphInv, TypeOK
  <2>2. slotStates[s].inEdges \subseteq DOMAIN edgeInfos /\ slotStates[s].outEdges \subseteq DOMAIN edgeInfos
    BY <1>2 DEF IndexSound
  <2>3. QED
    BY <2>1, <2>2 DEF SlotState
<1>4. \A e \in DOMAIN edgeInfos : edgeInfos[e] \in EdgeInfo
  BY DEF GraphInv, TypeOK
<1>5. SorterInv(sorter, NodeId)
  BY DEF GraphInv
<1>6. QED
  BY <1>1, <1>2, <1>3, <1>4, <1>5 DEF BatchInv

\* Recording a new edge at a target that has none.
LEMMA ConnectKeeps ==
  ASSUME GraphInv, NEW b, BatchInv(b), NEW entry \in Entry,
         b.slotStates[TargetOf(entry)].inEdges = {},
         NEW id, id \notin DOMAIN b.edgeInfos
  PROVE  BatchInv(Connect(b, id, entry))
<1> DEFINE src == SourceOf(entry)
           dst == TargetOf(entry)
           info == [node0 |-> entry.node0, slot0 |-> entry.slot0,
                    node1 |-> entry.node1, slot1 |-> entry.slot1]
           c == Connect(b, id, entry)
<1>1. /\ DOMAIN c = {"ok", "lastEdgeId", "edgeInfos", "slotStates", "sorter"}
      /\ c.ok \in BOOLEAN
      /\ c.edgeInfos = [e \in DOMAIN b.edgeInfos \cup {id} |->
                          IF e = id THEN info ELSE b.edgeInfos[e]]
      /\ c.slotStates = [s \in DOMAIN b.slotStates |->
                         [inEdges  |-> b.slotStates[s].inEdges \cup IF s = dst THEN {id} ELSE {},
                          outEdges |-> b.slotStates[s].outEdges \cup IF s = src THEN {id} ELSE {},
                          encodedData |-> b.slotStates[s].encodedData]]
      /\ c.sorter = AddEdge(b.sorter, entry.node0, entry.node1).sorter
  BY DEF Connect, Put
<1> HIDE DEF c
<1>2. /\ entry.node0 \in NodeId /\ entry.node1 \in NodeId
      /\ entry.slot0 \in STRING /\ entry.slot1 \in STRING
  BY DEF Entry
<1>3. info \in EdgeInfo /\ SourceOf(info) = src /\ TargetOf(info) = dst
  BY <1>2 DEF EdgeInfo, SourceOf, TargetOf
<1> HIDE DEF info, src, dst
<1>4. /\ \A e \in DOMAIN c.edgeInfos : c.edgeInfos[e] \in EdgeInfo
      /\ DOMAIN c.edgeInfos = DOMAIN b.edgeInfos \cup {id} /\ c.edgeInfos[id] = info
      /\ \A e \in DOMAIN b.edgeInfos : c.edgeInfos[e] = b.edgeInfos[e]
  BY <1>1, <1>3 DEF BatchInv
<1>5. ASSUME NEW s \in DOMAIN slotStates
      PROVE  /\ c.slotStates[s] \in [inEdges : SUBSET DOMAIN c.edgeInfos,
                                     outEdges : SUBSET DOMAIN c.edgeInfos, encodedData : Data]
             /\ c.slotStates[s].encodedData = slotStates[s].encodedData
             /\ c.slotStates[s].inEdges = b.slotStates[s].inEdges \cup IF s = dst THEN {id} ELSE {}
             /\ c.slotStates[s].outEdges = b.slotStates[s].outEdges \cup IF s = src THEN {id} ELSE {}
  <2> DEFINE x == b.slotStates[s]
             y == c.slotStates[s]
  <2>1. /\ s \in DOMAIN b.slotStates
        /\ x \in [inEdges : SUBSET DOMAIN b.edgeInfos,
                  outEdges : SUBSET DOMAIN b.edgeInfos, encodedData : Data]
        /\ x.encodedData = slotStates[s].encodedData
    BY DEF BatchInv
  <2>2. y = [inEdges  |-> x.inEdges \cup IF s = dst THEN {id} ELSE {},
             outEdges |-> x.outEdges \cup IF s = src THEN {id} ELSE {},
             encodedData |-> x.encodedData]
    BY <2>1, <1>1
  <2> HIDE DEF x, y
  <2>3. /\ x.inEdges \subseteq DOMAIN b.edgeInfos /\ x.outEdges \subseteq DOMAIN b.edgeInfos
        /\ x.encodedData \in Data
    BY <2>1
  <2>4. /\ y.encodedData = x.encodedData
        /\ y.inEdges = x.inEdges \cup IF s = dst THEN {id} ELSE {}
        /\ y.outEdges = x.outEdges \cup IF s = src THEN {id} ELSE {}
    BY <2>2
  <2>5. y \in [inEdges : SUBSET DOMAIN c.edgeInfos, outEdges : SUBSET DOMAIN c.edgeInfos,
               encodedData : Data]
    BY <2>2, <2>3, <1>4
  <2>6. QED
    BY <2>1, <2>4, <2>5 DEF x, y
<1>6. DOMAIN c.slotStates = DOMAIN slotStates
  BY <1>1 DEF BatchInv
<1>7. IndexSound(c.slotStates, c.edgeInfos)
  <2>1. ASSUME NEW s \in DOMAIN slotStates
        PROVE  /\ \A e \in c.slotStates[s].inEdges :
                    e \in DOMAIN c.edgeInfos /\ TargetOf(c.edgeInfos[e]) = s
               /\ \A e \in c.slotStates[s].outEdges :
                    e \in DOMAIN c.edgeInfos /\ SourceOf(c.edgeInfos[e]) = s
               /\ \A d, e \in c.slotStates[s].inEdges : d = e
    <3>1. /\ \A e \in b.slotStates[s].inEdges :
               e \in DOMAIN b.edgeInfos /\ TargetOf(b.edgeInfos[e]) = s
          /\ \A e \in b.slotStates[s].outEdges :
               e \in DOMAIN b.edgeInfos /\ SourceOf(b.edgeInfos[e]) = s
          /\ \A d, e \in b.slotStates[s].inEdges : d = e
          /\ s = dst => b.slotStates[s].inEdges = {}
      BY DEF BatchInv, IndexSound, dst
    <3>2. ASSUME NEW e \in c.slotStates[s].inEdges
          PROVE  e \in b.slotStates[s].inEdges \/ (e = id /\ s = dst)
      BY <1>5
    <3>3. ASSUME NEW e \in c.slotStates[s].outEdges
          PROVE  e \in b.slotStates[s].outEdges \/ (e = id /\ s = src)
      BY <1>5
    <3>4. QED
      BY <3>1, <3>2, <3>3, <1>3, <1>4
  <2>2. QED
    BY <2>1, <1>6 DEF IndexSound
<1>8. SorterInv(c.sorter, NodeId) /\ Nodes(b.sorter) \subseteq Nodes(c.sorter)
  <2> DEFINE u == entry.node0
             v == entry.node1
             q == AddEdge(b.sorter, u, v).sorter
  <2>1. SorterInv(b.sorter, NodeId) /\ u \in NodeId /\ v \in NodeId /\ c.sorter = q
    BY <1>1, <1>2 DEF BatchInv
  <2> HIDE DEF u, v
  <2>2. SorterInv(q, NodeId)
    BY <2>1, AddEdgeInv
  <2>3. Nodes(q) = Nodes(b.sorter) \cup {u, v}
    BY <2>1, AddEdgeNodes
  <2> HIDE DEF q
  <2>4. QED
    BY <2>1, <2>2, <2>3
<1>9. QED
  BY <1>1, <1>4, <1>5, <1>6, <1>7, <1>8 DEF BatchInv, c

\* What BatchInv speaks of is the same in both.
SameBatch(c, b) ==
  /\ DOMAIN c = DOMAIN b /\ c.ok \in BOOLEAN
  /\ c.edgeInfos = b.edgeInfos /\ c.slotStates = b.slotStates /\ c.sorter = b.sorter

\* The id of the edge that an entry asks for.
IdOf(b, entry) == IF entry.edgeId = NoOverride THEN b.lastEdgeId + 1 ELSE entry.edgeId

\* What a turn of the loop does: nothing, a failure, or a new edge.
LEMMA AddEntryCases ==
  ASSUME NEW b, BatchInv(b), NEW entry
  PROVE  \/ SameBatch(AddEntry(b, entry), b)
         \/ /\ EndsFound(entry) /\ b.slotStates[TargetOf(entry)].inEdges = {}
            /\ IdOf(b, entry) \notin DOMAIN b.edgeInfos
            /\ \E c : SameBatch(c, b) /\ AddEntry(b, entry) = Connect(c, IdOf(b, entry), entry)
<1> DEFINE id == IdOf(b, entry)
           last == IF entry.edgeId = NoOverride THEN id ELSE b.lastEdgeId
           counted == [b EXCEPT !.lastEdgeId = last]
<1>1. /\ DOMAIN b = {"ok", "lastEdgeId", "edgeInfos", "slotStates", "sorter"}
      /\ b.ok \in BOOLEAN
  BY DEF BatchInv
<1> HIDE DEF id
<1>2. SameBatch(b, b)
  BY <1>1 DEF SameBatch
<1>3. SameBatch(counted, b)
  BY <1>1 DEF SameBatch
<1>4. SameBatch([b EXCEPT !.ok = FALSE], b)
  BY <1>1 DEF SameBatch
<1> HIDE DEF counted
<1>5. SameBatch([counted EXCEPT !.ok = FALSE], b)
  BY <1>1, <1>3 DEF SameBatch
<1>6. AddEntry(b, entry) =
        IF ~ b.ok THEN b
        ELSE IF ~ EndsFound(entry) THEN [b EXCEPT !.ok = FALSE]
        ELSE IF b.slotStates[TargetOf(entry)].inEdges # {} THEN b
        ELSE IF id \in DOMAIN b.edgeInfos THEN [counted EXCEPT !.ok = FALSE]
        ELSE Connect(counted, id, entry)
  BY DEF AddEntry, counted, id, IdOf
<1>7. QED
  BY <1>1, <1>2, <1>3, <1>4, <1>5, <1>6 DEF id

\* Every turn keeps BatchInv.
LEMMA AddEntryKeeps ==
  ASSUME GraphInv, NEW b, BatchInv(b), NEW entry \in Entry
  PROVE  BatchInv(AddEntry(b, entry))
<1>1. ASSUME NEW c, SameBatch(c, b) PROVE BatchInv(c)
  BY <1>1 DEF BatchInv, SameBatch
<1>2. ASSUME b.slotStates[TargetOf(entry)].inEdges = {}, IdOf(b, entry) \notin DOMAIN b.edgeInfos,
             NEW c, SameBatch(c, b)
      PROVE  BatchInv(Connect(c, IdOf(b, entry), entry))
  <2>1. c.slotStates = b.slotStates /\ c.edgeInfos = b.edgeInfos /\ BatchInv(c)
    BY <1>1, <1>2 DEF SameBatch
  <2>2. QED
    BY <2>1, <1>2, ConnectKeeps
<1>3. QED
  BY <1>1, <1>2, AddEntryCases

\* The function that AfterEntry defines by recursion exists: its values are
\* those the loop computes one after the other.
LEMMA AfterEntryUnfolds ==
  ASSUME NEW entries, Len(entries) \in Nat
  PROVE  AfterEntry(entries) =
           [i \in 0 .. Len(entries) |->
              IF i = 0 THEN Batch ELSE AddEntry(AfterEntry(entries)[i - 1], entries[i])]
<1> DEFINE n == Len(entries)
           Runs(g, k) == g = [i \in 0 .. k |-> IF i = 0 THEN Batch
                                               ELSE AddEntry(g[i - 1], entries[i])]
           T == {k \in 0 .. n : \E g : Runs(g, k)}
<1>1. 0 \in T
  <2>1. Runs([i \in 0 .. 0 |-> Batch], 0)
    OBVIOUS
  <2>2. 0 \in 0 .. n
    OBVIOUS
  <2> HIDE DEF Runs
  <2>3. QED
    BY <2>1, <2>2
<1>2. ASSUME NEW k \in 0 .. n - 1, k \in T PROVE k + 1 \in T
  <2>1. PICK g : Runs(g, k)
    BY <1>2
  <2> DEFINE h == [i \in 0 .. k + 1 |-> IF i <= k THEN g[i] ELSE AddEntry(g[k], entries[k + 1])]
  <2>2. g[0] = Batch /\ \A i \in 1 .. k : g[i] = AddEntry(g[i - 1], entries[i])
    BY <2>1
  <2>3. ASSUME NEW i \in 0 .. k + 1
        PROVE  h[i] = IF i = 0 THEN Batch ELSE AddEntry(h[i - 1], entries[i])
    <3>1. CASE i = 0
      BY <3>1, <2>2
    <3>2. CASE i \in 1 .. k
      <4>1. h[i] = g[i] /\ h[i - 1] = g[i - 1]
        BY <3>2
      <4>2. QED
        BY <4>1, <3>2, <2>2
    <3>3. CASE i = k + 1
      <4>1. h[i] = AddEntry(g[k], entries[k + 1]) /\ h[k] = g[k] /\ i - 1 = k /\ i # 0
        BY <3>3
      <4> HIDE DEF h
      <4>2. QED
        BY <4>1, <3>3
    <3>4. QED
      BY <3>1, <3>2, <3>3
  <2>4. Runs(h, k + 1)
    BY <2>3
  <2>5. k + 1 \in 0 .. n
    OBVIOUS
  <2> HIDE DEF h, Runs
  <2>6. QED
    BY <2>4, <2>5
<1>3. n \in T
  <2> HIDE DEF T
  <2>1. 0 .. n \subseteq T
    BY <1>1, <1>2, BoundedInduction
  <2>2. QED
    BY <2>1
<1>4. \E g : Runs(g, n)
  BY <1>3
<1>5. AfterEntry(entries) = CHOOSE g : Runs(g, n)
  BY DEF AfterEntry
<1> HIDE DEF n
<1>6. QED
  BY <1>4, <1>5 DEF n

\* The whole loop keeps BatchInv.
LEMMA LoopKeeps ==
  ASSUME GraphInv, NEW entries \in Seq(Entry)
  PROVE  BatchInv(AfterEntry(entries)[Len(entries)])
<1> DEFINE n == Len(entries)
           after == AfterEntry(entries)
           T == {k \in 0 .. n : BatchInv(after[k])}
<1>1. n \in Nat /\ \A i \in 1 .. n : entries[i] \in Entry
  OBVIOUS
<1>2. after = [i \in 0 .. n |-> IF i = 0 THEN Batch ELSE AddEntry(after[i - 1], entries[i])]
  BY <1>1, AfterEntryUnfolds
<1> HIDE DEF n, after
<1>3. after[0] = Batch /\ \A i \in 1 .. n : after[i] = AddEntry(after[i - 1], entries[i])
  BY <1>1, <1>2
<1>4. 0 \in T
  BY <1>1, <1>3, BatchStarts
<1>5. ASSUME NEW k \in 0 .. n - 1, k \in T PROVE k + 1 \in T
  <2>1. k + 1 \in 1 .. n /\ (k + 1) - 1 = k
    BY <1>1
  <2>2. after[k + 1] = AddEntry(after[k], entries[k + 1])
    BY <2>1, <1>3
  <2>3. BatchInv(after[k + 1])
    BY <2>1, <2>2, <1>1, <1>5, AddEntryKeeps
  <2>4. QED
    BY <2>1, <2>3, <1>1
<1>6. 0 .. n \subseteq T
  <2> HIDE DEF T
  <2>1. QED
    BY <1>1, <1>4, <1>5, BoundedInduction
<1>7. n \in T
  BY <1>1, <1>6
<1>8. QED
  BY <1>7 DEF n, after

LEMMA AddEdgesInv ==
  ASSUME GraphInv, NEW entries \in Batches, AddEdges(entries)
  PROVE  GraphInv' /\ IdsKept /\ DataKept
<1> DEFINE r == AfterEntry(entries)[Len(entries)]
<1>1. entries \in Seq(Entry)
  BY BuilderAssumption
<1>2. BatchInv(r)
  BY <1>1, LoopKeeps
<1>3. /\ edgeInfos' = r.edgeInfos /\ slotStates' = r.slotStates /\ sorter' = r.sorter
      /\ ok' = r.ok
      /\ DOMAIN r.edgeInfos \subseteq EdgeId /\ lastEdgeId' \in EdgeId \cup {0}
      /\ nodeInfos' = nodeInfos /\ nodeStates' = nodeStates /\ slotInfos' = slotInfos
      /\ lastNodeId' = lastNodeId
  BY DEF AddEdges, nodeVars
<1> HIDE DEF r
<1>4. ASSUME NEW s \in DOMAIN slotStates
      PROVE  slotStates'[s] \in SlotState
  <2>1. slotStates'[s] \in [inEdges : SUBSET DOMAIN r.edgeInfos,
                            outEdges : SUBSET DOMAIN r.edgeInfos, encodedData : Data]
    BY <1>2, <1>3 DEF BatchInv
  <2>2. QED
    BY <2>1, <1>3 DEF SlotState
<1>5. /\ DOMAIN slotStates' = DOMAIN slotStates
      /\ \A e \in DOMAIN edgeInfos' : edgeInfos'[e] \in EdgeInfo
      /\ SorterInv(sorter', NodeId) /\ Nodes(sorter) \subseteq Nodes(sorter')
      /\ ok' \in BOOLEAN
  BY <1>2, <1>3 DEF BatchInv
<1>6. TypeOK'
  <2>1. IsSorter(sorter', NodeId) /\ DOMAIN nodeInfos' \subseteq Nodes(sorter')
    BY <1>3, <1>5 DEF GraphInv, TypeOK, SorterInv
  <2>2. QED
    BY <2>1, <1>3, <1>4, <1>5 DEF GraphInv, TypeOK
<1>7. SlotsMatchNodes'
  BY <1>3, <1>5 DEF GraphInv, SlotsMatchNodes, SlotsOf
<1>8. SlotIndexSound'
  BY <1>2, <1>3 DEF BatchInv, IndexSound, SlotIndexSound, TargetOf, SourceOf
<1>9. IdsKept
  BY <1>2, <1>3 DEF BatchInv, IdsKept
<1>10. DataKept
  BY <1>2, <1>3 DEF BatchInv, DataKept
<1>11. QED
  BY <1>5, <1>6, <1>7, <1>8, <1>9, <1>10 DEF GraphInv

----------------------------------------------------------------------------
(***************************************************************************)
(* Deleting                                                                *)
(***************************************************************************)

\* Erasing any set of pairs leaves a sorter.
LEMMA CutPairsInv ==
  ASSUME SorterInv(sorter, NodeId), NEW pairs
  PROVE  /\ SorterInv(CutPairs(pairs), NodeId)
         /\ Nodes(CutPairs(pairs)) = Nodes(sorter)
         /\ \A m, n \in Nodes(sorter) :
               n \in CutPairs(pairs).outAdj[m]
                 <=> (n \in sorter.outAdj[m] /\ <<m, n>> \notin pairs)
         /\ CutPairs(pairs).pos = sorter.pos
<1> DEFINE t == CutPairs(pairs)
<1>1. /\ t = [sortOrder |-> t.sortOrder, hasDirtyBit |-> t.hasDirtyBit,
              pos |-> t.pos, inAdj |-> t.inAdj, outAdj |-> t.outAdj]
      /\ t.sortOrder = sorter.sortOrder /\ t.hasDirtyBit = sorter.hasDirtyBit /\ t.pos = sorter.pos
      /\ t.inAdj = [n \in Nodes(sorter) |-> {m \in sorter.inAdj[n] : <<m, n>> \notin pairs}]
      /\ t.outAdj = [n \in Nodes(sorter) |-> {m \in sorter.outAdj[n] : <<n, m>> \notin pairs}]
  BY DEF CutPairs
<1>2. /\ sorter.sortOrder \in Seq(NodeId) /\ Nodes(sorter) \subseteq NodeId
      /\ sorter.hasDirtyBit \in BOOLEAN
      /\ sorter.pos \in [Nodes(sorter) -> Nat]
      /\ sorter.inAdj \in [Nodes(sorter) -> SUBSET Nodes(sorter)]
      /\ sorter.outAdj \in [Nodes(sorter) -> SUBSET Nodes(sorter)]
  BY DEF SorterInv, IsSorter
<1> HIDE DEF t
<1>3. Nodes(t) = Nodes(sorter)
  BY <1>1 DEF Nodes
<1>4. \A m, n \in Nodes(sorter) :
        /\ n \in t.outAdj[m] <=> (n \in sorter.outAdj[m] /\ <<m, n>> \notin pairs)
        /\ m \in t.inAdj[n] <=> (m \in sorter.inAdj[n] /\ <<m, n>> \notin pairs)
  BY <1>1
<1>5. IsSorter(t, NodeId)
  BY <1>1, <1>2, <1>3 DEF SorterInv, IsSorter
<1>6. PosInverts(t)
  BY <1>1, <1>3 DEF SorterInv, PosInverts
<1>7. Symmetric(t)
  BY <1>3, <1>4 DEF SorterInv, Symmetric
<1>8. Topological(t)
  BY <1>1, <1>2, <1>3 DEF SorterInv, Topological
<1>9. QED
  BY <1>1, <1>3, <1>4, <1>5, <1>6, <1>7, <1>8 DEF SorterInv, t

\* The function that AfterRemoval defines by recursion exists.
LEMMA AfterRemovalUnfolds ==
  ASSUME NEW pairs, NEW nodeIds, Len(nodeIds) \in Nat
  PROVE  AfterRemoval(pairs, nodeIds) =
           [i \in 0 .. Len(nodeIds) |->
              IF i = 0 THEN CutPairs(pairs)
              ELSE RemoveNode(AfterRemoval(pairs, nodeIds)[i - 1], nodeIds[i])]
<1> DEFINE n == Len(nodeIds)
           Runs(g, k) == g = [i \in 0 .. k |-> IF i = 0 THEN CutPairs(pairs)
                                               ELSE RemoveNode(g[i - 1], nodeIds[i])]
           T == {k \in 0 .. n : \E g : Runs(g, k)}
<1>1. 0 \in T
  <2>1. Runs([i \in 0 .. 0 |-> CutPairs(pairs)], 0)
    OBVIOUS
  <2>2. 0 \in 0 .. n
    OBVIOUS
  <2> HIDE DEF Runs
  <2>3. QED
    BY <2>1, <2>2
<1>2. ASSUME NEW k \in 0 .. n - 1, k \in T PROVE k + 1 \in T
  <2>1. PICK g : Runs(g, k)
    BY <1>2
  <2> DEFINE h == [i \in 0 .. k + 1 |-> IF i <= k THEN g[i] ELSE RemoveNode(g[k], nodeIds[k + 1])]
  <2>2. g[0] = CutPairs(pairs) /\ \A i \in 1 .. k : g[i] = RemoveNode(g[i - 1], nodeIds[i])
    BY <2>1
  <2>3. ASSUME NEW i \in 0 .. k + 1
        PROVE  h[i] = IF i = 0 THEN CutPairs(pairs) ELSE RemoveNode(h[i - 1], nodeIds[i])
    <3>1. CASE i = 0
      BY <3>1, <2>2
    <3>2. CASE i \in 1 .. k
      <4>1. h[i] = g[i] /\ h[i - 1] = g[i - 1]
        BY <3>2
      <4>2. QED
        BY <4>1, <3>2, <2>2
    <3>3. CASE i = k + 1
      <4>1. h[i] = RemoveNode(g[k], nodeIds[k + 1]) /\ h[k] = g[k] /\ i - 1 = k /\ i # 0
        BY <3>3
      <4> HIDE DEF h
      <4>2. QED
        BY <4>1, <3>3
    <3>4. QED
      BY <3>1, <3>2, <3>3
  <2>4. Runs(h, k + 1)
    BY <2>3
  <2>5. k + 1 \in 0 .. n
    OBVIOUS
  <2> HIDE DEF h, Runs
  <2>6. QED
    BY <2>4, <2>5
<1>3. n \in T
  <2> HIDE DEF T
  <2>1. 0 .. n \subseteq T
    BY <1>1, <1>2, BoundedInduction
  <2>2. QED
    BY <2>1
<1>4. \E g : Runs(g, n)
  BY <1>3
<1>5. AfterRemoval(pairs, nodeIds) = CHOOSE g : Runs(g, n)
  BY DEF AfterRemoval
<1> HIDE DEF n
<1>6. QED
  BY <1>4, <1>5 DEF n

\* What is left in the sorter: the other nodes, and their edges without the
\* pairs.
LEMMA UnsortInv ==
  ASSUME SorterInv(sorter, NodeId), NEW pairs, NEW nodeIds, Len(nodeIds) \in Nat,
         DOMAIN nodeIds = 1 .. Len(nodeIds)
  PROVE  /\ SorterInv(Unsort(pairs, nodeIds), NodeId)
         /\ Nodes(Unsort(pairs, nodeIds)) = Nodes(sorter) \ Entries(nodeIds)
         /\ \A x, y \in Nodes(sorter) \ Entries(nodeIds) :
               y \in Unsort(pairs, nodeIds).outAdj[x]
                 <=> (y \in sorter.outAdj[x] /\ <<x, y>> \notin pairs)
         /\ \A x, y \in Nodes(sorter) \ Entries(nodeIds) :
               Unsort(pairs, nodeIds).pos[x] < Unsort(pairs, nodeIds).pos[y]
                 <=> sorter.pos[x] < sorter.pos[y]
<1> DEFINE n == Len(nodeIds)
           after == AfterRemoval(pairs, nodeIds)
           gone(k) == {nodeIds[j] : j \in 1 .. k}
           Left(q, N) == /\ SorterInv(q, NodeId)
                         /\ Nodes(q) = N
                         /\ \A x, y \in N :
                              y \in q.outAdj[x] <=> (y \in sorter.outAdj[x] /\ <<x, y>> \notin pairs)
                         /\ \A x, y \in N : q.pos[x] < q.pos[y] <=> sorter.pos[x] < sorter.pos[y]
           T == {k \in 0 .. n : Left(after[k], Nodes(sorter) \ gone(k))}
<1>1. after = [i \in 0 .. n |-> IF i = 0 THEN CutPairs(pairs) ELSE RemoveNode(after[i - 1], nodeIds[i])]
  BY AfterRemovalUnfolds
<1> HIDE DEF after
<1>2. after[0] = CutPairs(pairs) /\ \A i \in 1 .. n : after[i] = RemoveNode(after[i - 1], nodeIds[i])
  BY <1>1
<1>3. 0 \in T
  <2>1. gone(0) = {} /\ Nodes(sorter) \ {} = Nodes(sorter)
    OBVIOUS
  <2>2. Left(CutPairs(pairs), Nodes(sorter))
    BY CutPairsInv
  <2> HIDE DEF Left, gone
  <2>3. QED
    BY <2>1, <2>2, <1>2
<1>4. ASSUME NEW k \in 0 .. n - 1, k \in T PROVE k + 1 \in T
  <2> DEFINE u == nodeIds[k + 1]
             q == after[k]
             N == Nodes(sorter) \ gone(k)
  <2>1. k + 1 \in 1 .. n /\ (k + 1) - 1 = k /\ k + 1 \in 0 .. n
    OBVIOUS
  <2>2. after[k + 1] = RemoveNode(q, u)
    BY <2>1, <1>2
  <2>3. gone(k + 1) = gone(k) \cup {u}
    <3>1. 1 .. k + 1 = (1 .. k) \cup {k + 1}
      OBVIOUS
    <3>2. QED
      BY <3>1
  <2>4. Nodes(sorter) \ gone(k + 1) = N \ {u}
    BY <2>3
  <2>5. Left(q, N)
    BY <1>4
  <2> HIDE DEF u, q, N, gone
  <2>6. Left(RemoveNode(q, u), N \ {u})
    <3>1. /\ SorterInv(RemoveNode(q, u), NodeId)
          /\ Nodes(RemoveNode(q, u)) = N \ {u}
          /\ \A x, y \in N \ {u} : y \in RemoveNode(q, u).outAdj[x] <=> y \in q.outAdj[x]
          /\ \A x, y \in N \ {u} : RemoveNode(q, u).pos[x] < RemoveNode(q, u).pos[y]
                                     <=> q.pos[x] < q.pos[y]
      BY <2>5, RemoveNodeInv
    <3>2. QED
      BY <3>1, <2>5
  <2> HIDE DEF Left
  <2>7. QED
    BY <2>1, <2>2, <2>4, <2>6
<1>5. n \in T
  <2> HIDE DEF T
  <2>1. 0 .. n \subseteq T
    BY <1>3, <1>4, BoundedInduction
  <2>2. QED
    BY <2>1
<1>6. gone(n) = Entries(nodeIds)
  BY DEF Entries
<1>7. Left(after[n], Nodes(sorter) \ Entries(nodeIds))
  <2> HIDE DEF Left, gone
  <2>1. QED
    BY <1>5, <1>6
<1>8. Unsort(pairs, nodeIds) = after[n]
  BY DEF Unsort, after
<1>9. QED
  BY <1>7, <1>8

\* SortedSeq lists a set of nodes.
LEMMA SortedNodes ==
  ASSUME NEW nodes \in SUBSET NodeId
  PROVE  /\ Len(SortedSeq(nodes)) \in Nat
         /\ DOMAIN SortedSeq(nodes) = 1 .. Len(SortedSeq(nodes))
         /\ Entries(SortedSeq(nodes)) = nodes
<1>1. nodes \in SUBSET Nat /\ IsFiniteSet(NodeId)
  BY FS_Interval, BuilderAssumption DEF NodeId
<1>2. IsFiniteSet(nodes)
  BY <1>1, FS_Subset
<1> DEFINE sq == SortedSeq(nodes)
           c == Cardinality(nodes)
<1>3. /\ c \in Nat /\ sq \in [1 .. c -> nodes]
      /\ \A x \in nodes : \E k \in 1 .. c : sq[k] = x
  BY <1>1, <1>2, SortedSeqSorts
<1> HIDE DEF sq, c
<1>4. Len(sq) = c /\ DOMAIN sq = 1 .. c
  BY <1>3
<1>5. Entries(sq) = nodes
  BY <1>3, <1>4 DEF Entries
<1>6. QED
  BY <1>3, <1>4, <1>5 DEF sq

LEMMA DeleteElementsInv ==
  ASSUME GraphInv, NEW nodes \in SUBSET NodeId, NEW edges \in SUBSET EdgeId,
         DeleteElements(SortedSeq(nodes), edges)
  PROVE  GraphInv' /\ IdsKept /\ DataKept
<1> DEFINE deleted == edges \cap DOMAIN edgeInfos
           slots == {s \in DOMAIN slotInfos : s[1] \in nodes}
           pairs == {<<edgeInfos[e].node0, edgeInfos[e].node1>> : e \in deleted}
           cut == {p \in pairs : p[2] \notin GetDownstreamNodeIds(p[1])'}
<1>1. TypeOK /\ SlotsMatchNodes /\ SlotIndexSound /\ SorterInv(sorter, NodeId)
  BY DEF GraphInv
<1>2. /\ Len(SortedSeq(nodes)) \in Nat
      /\ DOMAIN SortedSeq(nodes) = 1 .. Len(SortedSeq(nodes))
      /\ Entries(SortedSeq(nodes)) = nodes
  BY SortedNodes
<1>3. /\ nodeInfos' = [n \in DOMAIN nodeInfos \ nodes |-> nodeInfos[n]]
      /\ nodeStates' = [n \in DOMAIN nodeStates \ nodes |-> nodeStates[n]]
      /\ slotInfos' = [s \in DOMAIN slotInfos \ slots |-> slotInfos[s]]
      /\ edgeInfos' = [e \in DOMAIN edgeInfos \ deleted |-> edgeInfos[e]]
      /\ slotStates' = [s \in DOMAIN slotStates \ slots |->
           [slotStates[s] EXCEPT
              !.inEdges  = @ \ {e \in deleted : TargetOf(edgeInfos[e]) = s},
              !.outEdges = @ \ {e \in deleted : SourceOf(edgeInfos[e]) = s}]]
      /\ sorter' = Unsort(cut, SortedSeq(nodes))
      /\ ok' = TRUE /\ lastNodeId' = lastNodeId /\ lastEdgeId' = lastEdgeId
  BY <1>2 DEF DeleteElements, Erase, ids
<1> HIDE DEF cut
<1>4. SorterInv(sorter', NodeId) /\ Nodes(sorter') = Nodes(sorter) \ nodes
  <2>1. SorterInv(Unsort(cut, SortedSeq(nodes)), NodeId)
    BY <1>1, <1>2, UnsortInv
  <2>2. Nodes(Unsort(cut, SortedSeq(nodes))) = Nodes(sorter) \ Entries(SortedSeq(nodes))
    BY <1>1, <1>2, UnsortInv
  <2>3. QED
    BY <2>1, <2>2, <1>2, <1>3
<1>5. ASSUME NEW s \in DOMAIN slotStates'
      PROVE  /\ s \in DOMAIN slotStates /\ s \notin slots
             /\ slotStates'[s] \in SlotState
             /\ slotStates'[s].encodedData = slotStates[s].encodedData
             /\ \A e \in slotStates'[s].inEdges :
                  e \in slotStates[s].inEdges /\ ~ (e \in deleted /\ TargetOf(edgeInfos[e]) = s)
             /\ \A e \in slotStates'[s].outEdges :
                  e \in slotStates[s].outEdges /\ ~ (e \in deleted /\ SourceOf(edgeInfos[e]) = s)
  <2> DEFINE ins == {e \in deleted : TargetOf(edgeInfos[e]) = s}
             outs == {e \in deleted : SourceOf(edgeInfos[e]) = s}
             x == slotStates[s]
  <2>1. s \in DOMAIN slotStates /\ s \notin slots
    BY <1>3
  <2>2. slotStates'[s] = [x EXCEPT !.inEdges = @ \ ins, !.outEdges = @ \ outs]
    BY <2>1, <1>3
  <2>3. x \in SlotState
    BY <2>1, <1>1 DEF TypeOK
  <2> HIDE DEF ins, outs, x
  <2>4. /\ x.inEdges \in SUBSET EdgeId /\ x.outEdges \in SUBSET EdgeId /\ x.encodedData \in Data
        /\ slotStates'[s] = [inEdges |-> x.inEdges \ ins, outEdges |-> x.outEdges \ outs,
                             encodedData |-> x.encodedData]
    BY <2>2, <2>3 DEF SlotState
  <2>5. slotStates'[s] \in SlotState
    BY <2>4 DEF SlotState
  <2>6. /\ slotStates'[s].inEdges = x.inEdges \ ins /\ slotStates'[s].outEdges = x.outEdges \ outs
        /\ slotStates'[s].encodedData = x.encodedData
    BY <2>4
  <2>7. QED
    BY <2>1, <2>5, <2>6 DEF ins, outs, x
<1>6. TypeOK'
  <2>1. /\ DOMAIN nodeInfos' \subseteq NodeId
        /\ \A n \in DOMAIN nodeInfos' : nodeInfos'[n] \in NodeInfo
        /\ nodeStates' \in [DOMAIN nodeInfos' -> Data]
    BY <1>1, <1>3 DEF TypeOK
  <2>2. DOMAIN slotInfos' \subseteq Slot /\ \A s \in DOMAIN slotInfos' : slotInfos'[s] \in SlotInfo
    BY <1>1, <1>3 DEF TypeOK
  <2>3. DOMAIN slotStates' \subseteq Slot /\ \A s \in DOMAIN slotStates' : slotStates'[s] \in SlotState
    BY <1>1, <1>5 DEF TypeOK
  <2>4. DOMAIN edgeInfos' \subseteq EdgeId /\ \A e \in DOMAIN edgeInfos' : edgeInfos'[e] \in EdgeInfo
    BY <1>1, <1>3 DEF TypeOK
  <2>5. IsSorter(sorter', NodeId) /\ DOMAIN nodeInfos' \subseteq Nodes(sorter')
    BY <1>1, <1>3, <1>4 DEF TypeOK, SorterInv
  <2>6. QED
    BY <2>1, <2>2, <2>3, <2>4, <2>5, <1>1, <1>3 DEF TypeOK
<1>7. SlotsMatchNodes'
  <2>1. \A n \in DOMAIN nodeInfos' :
          n \in DOMAIN nodeInfos /\ n \notin nodes /\ nodeInfos'[n] = nodeInfos[n]
          /\ SlotsOf(n)' = SlotsOf(n)
    BY <1>3 DEF SlotsOf
  <2>2. ASSUME NEW n \in DOMAIN nodeInfos, NEW s \in SlotsOf(n)
        PROVE  s \in DOMAIN slotStates /\ s \in DOMAIN slotInfos /\ s[1] = n
    BY <1>1 DEF SlotsMatchNodes, SlotsOf
  <2>3. DOMAIN slotStates' = DOMAIN slotStates \ slots
    BY <1>3
  <2>4. ASSUME NEW s PROVE s \in DOMAIN slotStates' <=> \E n \in DOMAIN nodeInfos' : s \in SlotsOf(n)'
    <3>1. s \in DOMAIN slotStates <=> \E n \in DOMAIN nodeInfos : s \in SlotsOf(n)
      BY <1>1 DEF SlotsMatchNodes
    <3>2. DOMAIN nodeInfos' = DOMAIN nodeInfos \ nodes
      BY <1>3
    <3>3. QED
      BY <3>1, <3>2, <2>1, <2>2, <2>3
  <2>5. DOMAIN slotStates' = UNION {SlotsOf(n)' : n \in DOMAIN nodeInfos'}
    BY <2>4
  <2>6. DOMAIN slotStates' \subseteq DOMAIN slotInfos'
    BY <2>3, <1>1, <1>3 DEF SlotsMatchNodes
  <2>7. ASSUME NEW n \in DOMAIN nodeInfos', NEW name,
               name \in Entries(nodeInfos[n].ins) \cup Entries(nodeInfos[n].outs)
                          \cup Entries(nodeInfos[n].inouts)
        PROVE  slotInfos'[<<n, name>>] = slotInfos[<<n, name>>]
    <3>1. <<n, name>> \in SlotsOf(n) /\ n \in DOMAIN nodeInfos /\ n \notin nodes
      BY <2>1, <2>7 DEF SlotsOf
    <3>2. <<n, name>> \in DOMAIN slotInfos \ slots
      BY <3>1, <2>2
    <3>3. QED
      BY <3>2, <1>3
  <2>8. ASSUME NEW n \in DOMAIN nodeInfos'
        PROVE  /\ \A name \in Entries(nodeInfos'[n].ins) : slotInfos'[<<n, name>>].access = "I"
               /\ \A name \in Entries(nodeInfos'[n].outs) : slotInfos'[<<n, name>>].access = "O"
               /\ \A name \in Entries(nodeInfos'[n].inouts) : slotInfos'[<<n, name>>].access = "M"
    BY <2>1, <2>7, <1>1 DEF SlotsMatchNodes
  <2>9. QED
    BY <2>5, <2>6, <2>8 DEF SlotsMatchNodes
<1>8. SlotIndexSound'
  <2>1. \A e \in DOMAIN edgeInfos : e \notin deleted => e \in DOMAIN edgeInfos' /\ edgeInfos'[e] = edgeInfos[e]
    BY <1>3
  <2>2. ASSUME NEW s \in DOMAIN slotStates'
        PROVE  /\ \A e \in slotStates'[s].inEdges :
                    e \in DOMAIN edgeInfos' /\ TargetOf(edgeInfos'[e]) = s
               /\ \A e \in slotStates'[s].outEdges :
                    e \in DOMAIN edgeInfos' /\ SourceOf(edgeInfos'[e]) = s
               /\ \A d, e \in slotStates'[s].inEdges : d = e
    <3>1. /\ \A e \in slotStates[s].inEdges : e \in DOMAIN edgeInfos /\ TargetOf(edgeInfos[e]) = s
          /\ \A e \in slotStates[s].outEdges : e \in DOMAIN edgeInfos /\ SourceOf(edgeInfos[e]) = s
          /\ \A d, e \in slotStates[s].inEdges : d = e
      BY <1>1, <1>5 DEF SlotIndexSound
    <3> HIDE DEF deleted
    <3>2. QED
      BY <3>1, <2>1, <1>5
  <2>3. QED
    BY <2>2 DEF SlotIndexSound, TargetOf, SourceOf
<1>9. IdsKept
  BY <1>3 DEF IdsKept
<1>10. DataKept
  BY <1>5 DEF DataKept
<1>11. QED
  BY <1>4, <1>6, <1>7, <1>8, <1>9, <1>10 DEF GraphInv

LEMMA ClearGraphInv ==
  ASSUME GraphInv, ClearGraph
  PROVE  GraphInv' /\ IdsKept /\ DataKept
<1>1. /\ DOMAIN edgeInfos' = {} /\ DOMAIN nodeInfos' = {} /\ DOMAIN slotStates' = {}
      /\ nodeStates' \in [{} -> Data]
      /\ slotInfos' = slotInfos /\ sorter' = sorter /\ ok' = TRUE
      /\ lastNodeId' = lastNodeId /\ lastEdgeId' = lastEdgeId
  BY DEF ClearGraph, EmptyMap, ids
<1>2. TypeOK'
  BY <1>1 DEF GraphInv, TypeOK
<1>3. SlotsMatchNodes'
  BY <1>1 DEF SlotsMatchNodes
<1>4. SlotIndexSound'
  BY <1>1 DEF SlotIndexSound
<1>5. SorterInv(sorter', NodeId)
  BY <1>1 DEF GraphInv
<1>6. QED
  BY <1>1, <1>2, <1>3, <1>4, <1>5 DEF GraphInv, IdsKept, DataKept

----------------------------------------------------------------------------
(***************************************************************************)
(* Data                                                                    *)
(***************************************************************************)

\* A call that only gives slots other data.
LEMMA SlotDataInv ==
  ASSUME GraphInv, UNCHANGED <<nodeInfos, slotInfos, edgeInfos, ids, sorter>>,
         nodeStates' \in [DOMAIN nodeInfos -> Data], ok' \in BOOLEAN,
         DOMAIN slotStates' = DOMAIN slotStates,
         \A s \in DOMAIN slotStates :
            \E d \in Data : slotStates'[s] = [slotStates[s] EXCEPT !.encodedData = d]
  PROVE  GraphInv' /\ IdsKept /\ DataKept
<1>1. TypeOK /\ SlotsMatchNodes /\ SlotIndexSound /\ SorterInv(sorter, NodeId)
  BY DEF GraphInv
<1>2. /\ nodeInfos' = nodeInfos /\ slotInfos' = slotInfos /\ edgeInfos' = edgeInfos
      /\ sorter' = sorter /\ lastNodeId' = lastNodeId /\ lastEdgeId' = lastEdgeId
  BY DEF ids
<1>3. ASSUME NEW s \in DOMAIN slotStates
      PROVE  /\ slotStates'[s] \in SlotState
             /\ slotStates'[s].inEdges = slotStates[s].inEdges
             /\ slotStates'[s].outEdges = slotStates[s].outEdges
  <2>1. PICK d \in Data : slotStates'[s] = [slotStates[s] EXCEPT !.encodedData = d]
    OBVIOUS
  <2>2. slotStates[s] \in SlotState
    BY <1>1 DEF TypeOK
  <2>3. QED
    BY <2>1, <2>2 DEF SlotState
<1>4. TypeOK'
  BY <1>1, <1>2, <1>3 DEF TypeOK
<1>5. SlotsMatchNodes'
  BY <1>1, <1>2 DEF SlotsMatchNodes, SlotsOf
<1>6. SlotIndexSound'
  BY <1>1, <1>2, <1>3 DEF SlotIndexSound, TargetOf, SourceOf
<1>7. QED
  BY <1>1, <1>2, <1>4, <1>5, <1>6 DEF GraphInv, IdsKept, DataKept

\* The loop over the inputs; the last write to a slot counts.
LEMMA WriteInputsInv ==
  ASSUME GraphInv, NEW k \in 1 .. 2, NEW inputs \in [1 .. k -> NodeId \X Data],
         WriteInputs(inputs)
  PROVE  GraphInv' /\ IdsKept /\ DataKept
<1> DEFINE done == {i \in DOMAIN inputs : \A j \in 1 .. i : TakesInput(inputs[j][1])}
           Is(s, i) == IoSlot(inputs[i][1]) = s
           last(s) == CHOOSE i \in done : Is(s, i) /\ \A j \in done : Is(s, j) => j <= i
<1>1. /\ slotStates' = [s \in DOMAIN slotStates |->
           IF \E i \in done : Is(s, i)
           THEN [slotStates[s] EXCEPT !.encodedData = inputs[last(s)][2]]
           ELSE slotStates[s]]
      /\ ok' = (done = DOMAIN inputs)
      /\ UNCHANGED <<nodeVars, slotInfos, edgeInfos, ids, sorter>>
  BY DEF WriteInputs
<1>2. done \subseteq 1 .. k
  OBVIOUS
<1> HIDE DEF done, Is
<1>3. ASSUME NEW s, NEW i \in done, Is(s, i)
      PROVE  \E m \in done : Is(s, m) /\ \A j \in done : Is(s, j) => j <= m
  <2>1. done \subseteq {1, 2}
    BY <1>2
  <2>2. CASE 2 \in done /\ Is(s, 2)
    BY <2>1, <2>2
  <2>3. CASE ~ (2 \in done /\ Is(s, 2))
    BY <2>1, <2>3, <1>3
  <2>4. QED
    BY <2>2, <2>3
<1>4. ASSUME NEW s, NEW i \in done, Is(s, i) PROVE inputs[last(s)][2] \in Data
  <2>1. last(s) \in done
    BY <1>3, <1>4
  <2> HIDE DEF last
  <2>2. inputs[last(s)] \in NodeId \X Data
    BY <2>1, <1>2
  <2>3. QED
    BY <2>2
<1> HIDE DEF last
<1>5. ASSUME NEW s \in DOMAIN slotStates
      PROVE  \E d \in Data : slotStates'[s] = [slotStates[s] EXCEPT !.encodedData = d]
  <2>1. CASE \E i \in done : Is(s, i)
    BY <2>1, <1>1, <1>4
  <2>2. CASE ~ \E i \in done : Is(s, i)
    <3>1. slotStates'[s] = slotStates[s] /\ slotStates[s] \in SlotState
      BY <2>2, <1>1 DEF GraphInv, TypeOK
    <3>2. slotStates[s].encodedData \in Data
          /\ slotStates[s] = [slotStates[s] EXCEPT !.encodedData = slotStates[s].encodedData]
      BY <3>1 DEF SlotState
    <3>3. QED
      BY <3>1, <3>2
  <2>3. QED
    BY <2>1, <2>2
<1>6. UNCHANGED <<nodeInfos, slotInfos, edgeInfos, ids, sorter>> /\ nodeStates' = nodeStates
  BY <1>1 DEF nodeVars
<1>7. DOMAIN slotStates' = DOMAIN slotStates /\ ok' \in BOOLEAN
  BY <1>1
<1>8. nodeStates \in [DOMAIN nodeInfos -> Data]
  BY DEF GraphInv, TypeOK
<1>9. QED
  BY <1>5, <1>6, <1>7, <1>8, SlotDataInv

LEMMA SetsDataInv ==
  ASSUME GraphInv, SetsData
  PROVE  GraphInv' /\ IdsKept /\ DataKept
<1>1. ASSUME NEW n \in NodeId, NEW data \in Data, SetNodeEncodedData(n, data)
      PROVE  GraphInv' /\ IdsKept /\ DataKept
  <2>1. CASE n \notin DOMAIN nodeStates
    BY <1>1, <2>1, FailInv DEF SetNodeEncodedData
  <2>2. CASE n \in DOMAIN nodeStates
    <3>1. /\ nodeStates' = [nodeStates EXCEPT ![n] = data] /\ ok' = TRUE
          /\ UNCHANGED <<nodeInfos, slotVars, edgeInfos, ids, sorter>>
      BY <1>1, <2>2 DEF SetNodeEncodedData
    <3>2. nodeStates' \in [DOMAIN nodeInfos -> Data]
      BY <3>1 DEF GraphInv, TypeOK
    <3>3. slotStates' = slotStates /\ slotInfos' = slotInfos
      BY <3>1 DEF slotVars
    <3>4. \A s \in DOMAIN slotStates :
            \E d \in Data : slotStates'[s] = [slotStates[s] EXCEPT !.encodedData = d]
      <4>1. TAKE s \in DOMAIN slotStates
      <4>2. slotStates[s] \in SlotState
        BY DEF GraphInv, TypeOK
      <4>3. slotStates[s].encodedData \in Data
            /\ slotStates[s] = [slotStates[s] EXCEPT !.encodedData = slotStates[s].encodedData]
        BY <4>2 DEF SlotState
      <4>4. QED
        BY <4>3, <3>3
    <3>5. QED
      BY <3>1, <3>2, <3>3, <3>4, SlotDataInv
  <2>3. QED
    BY <2>1, <2>2
<1>2. ASSUME NEW slot \in DOMAIN slotInfos, NEW data \in Data, SetSlotEncodedData(slot, data)
      PROVE  GraphInv' /\ IdsKept /\ DataKept
  <2>1. CASE slot \notin DOMAIN slotStates
    BY <1>2, <2>1, FailInv DEF SetSlotEncodedData
  <2>2. CASE slot \in DOMAIN slotStates
    <3>1. /\ slotStates' = [slotStates EXCEPT ![slot].encodedData = data] /\ ok' = TRUE
          /\ UNCHANGED <<nodeVars, slotInfos, edgeInfos, ids, sorter>>
      BY <1>2, <2>2 DEF SetSlotEncodedData
    <3>2. nodeStates' = nodeStates /\ nodeInfos' = nodeInfos
          /\ nodeStates \in [DOMAIN nodeInfos -> Data]
      BY <3>1 DEF nodeVars, GraphInv, TypeOK
    <3>3. \A s \in DOMAIN slotStates :
            \E d \in Data : slotStates'[s] = [slotStates[s] EXCEPT !.encodedData = d]
      <4>1. TAKE s \in DOMAIN slotStates
      <4>2. slotStates[s] \in SlotState
        BY DEF GraphInv, TypeOK
      <4>3. slotStates[s].encodedData \in Data
            /\ slotStates[s] = [slotStates[s] EXCEPT !.encodedData = slotStates[s].encodedData]
        BY <4>2 DEF SlotState
      <4>4. slotStates'[s] = IF s = slot THEN [slotStates[s] EXCEPT !.encodedData = data]
                                         ELSE slotStates[s]
        BY <3>1
      <4>5. QED
        BY <4>3, <4>4
    <3>4. DOMAIN slotStates' = DOMAIN slotStates
      BY <3>1
    <3>5. QED
      BY <3>1, <3>2, <3>3, <3>4, SlotDataInv
  <2>3. QED
    BY <2>1, <2>2
<1>3. ASSUME NEW k \in 1 .. 2, NEW inputs \in [1 .. k -> NodeId \X Payload], SetGraphInputs(inputs)
      PROVE  GraphInv' /\ IdsKept /\ DataKept
  <2>1. inputs \in [1 .. k -> NodeId \X Data]
    BY DEF Data
  <2>2. QED
    BY <2>1, <1>3, WriteInputsInv DEF SetGraphInputs
<1>4. ASSUME NEW k \in 1 .. 2, NEW nodeIds \in [1 .. k -> NodeId], ClearGraphInputs(nodeIds)
      PROVE  GraphInv' /\ IdsKept /\ DataKept
  <2> DEFINE inputs == [i \in DOMAIN nodeIds |-> <<nodeIds[i], NoData>>]
  <2>1. inputs \in [1 .. k -> NodeId \X Data]
    BY DEF Data
  <2>2. WriteInputs(inputs)
    BY <1>4 DEF ClearGraphInputs
  <2> HIDE DEF inputs
  <2>3. QED
    BY <2>1, <2>2, WriteInputsInv
<1>5. QED
  BY <1>1, <1>2, <1>3, <1>4 DEF SetsData

LEMMA SetsMetaInv ==
  ASSUME GraphInv, SetsMeta
  PROVE  GraphInv' /\ IdsKept /\ DataKept
BY SameGraphInv DEF SetsMeta, SetGraphMeta

----------------------------------------------------------------------------
(***************************************************************************)
(* The theorems about GraphBuilder                                         *)
(***************************************************************************)

\* An empty graph and a new sorter.
LEMMA InitInv == Init => GraphInv
<1> SUFFICES ASSUME Init PROVE GraphInv
  OBVIOUS
<1>1. /\ DOMAIN nodeInfos = {} /\ nodeStates \in [{} -> Data]
      /\ DOMAIN slotInfos = {} /\ DOMAIN slotStates = {} /\ DOMAIN edgeInfos = {}
      /\ lastNodeId = 0 /\ lastEdgeId = 0 /\ ok = TRUE /\ sorter = EmptySorter
  BY DEF Init, EmptyMap
<1>2. SorterInv(EmptySorter, NodeId)
  BY EmptySorterInv
<1>3. TypeOK
  BY <1>1, <1>2 DEF TypeOK, SorterInv
<1>4. QED
  BY <1>1, <1>2, <1>3 DEF GraphInv, SlotsMatchNodes, SlotIndexSound

\* Every call preserves the invariant, keeps the meaning of ids and the data.
LEMMA NextInv == GraphInv /\ [Next]_vars => GraphInv' /\ [IdsKept]_vars /\ [DataKept]_vars
<1> SUFFICES ASSUME GraphInv, [Next]_vars
             PROVE  GraphInv' /\ [IdsKept]_vars /\ [DataKept]_vars
  OBVIOUS
<1>1. CASE AddsNode
  BY <1>1, AddsNodeInv
<1>2. ASSUME NEW entries \in Batches, AddEdges(entries)
      PROVE  GraphInv' /\ IdsKept /\ DataKept
  BY <1>2, AddEdgesInv
<1>3. ASSUME NEW nodes \in SUBSET NodeId, NEW edges \in SUBSET EdgeId,
             DeleteElements(SortedSeq(nodes), edges)
      PROVE  GraphInv' /\ IdsKept /\ DataKept
  BY <1>3, DeleteElementsInv
<1>4. CASE ClearGraph
  BY <1>4, ClearGraphInv
<1>5. CASE SetsData
  BY <1>5, SetsDataInv
<1>6. CASE SetsMeta
  BY <1>6, SetsMetaInv
<1>7. CASE UNCHANGED vars
  <2>1. /\ UNCHANGED <<nodeVars, slotVars, edgeInfos, sorter>> /\ ok' = ok
        /\ lastNodeId' = lastNodeId /\ lastEdgeId' = lastEdgeId
    BY <1>7 DEF vars, graphVars, ids
  <2>2. GraphInv'
    BY <2>1, SameGraphInv DEF GraphInv, TypeOK
  <2>3. QED
    BY <2>2, <1>7
<1>8. QED
  BY <1>1, <1>2, <1>3, <1>4, <1>5, <1>6, <1>7 DEF Next

\* The inductive invariant of GraphBuilder.
THEOREM GraphInvariant == Spec => []GraphInv
<1>1. GraphInv /\ [Next]_vars => GraphInv'
  BY NextInv
<1>2. QED
  BY InitInv, <1>1, PTL DEF Spec

\* The maps of the graph state have their types and the domains they share.
THEOREM GraphTypeCorrect == Spec => []TypeOK
<1>1. GraphInv => TypeOK
  BY DEF GraphInv
<1>2. QED
  BY <1>1, GraphInvariant, PTL

\* Exactly the slots of present nodes have a state, with the access listed.
THEOREM SlotsMatchNodesAlways == Spec => []SlotsMatchNodes
<1>1. GraphInv => SlotsMatchNodes
  BY DEF GraphInv
<1>2. QED
  BY <1>1, GraphInvariant, PTL

\* A slot never lists an edge that is gone or ends elsewhere.
THEOREM SlotIndexSoundAlways == Spec => []SlotIndexSound
<1>1. GraphInv => SlotIndexSound
  BY DEF GraphInv
<1>2. QED
  BY <1>1, GraphInvariant, PTL

\* An id in use never changes its meaning.
THEOREM IdsKeepTheirMeaningAlways == Spec => IdsKeepTheirMeaning
<1>1. GraphInv /\ [Next]_vars => [IdsKept]_vars
  BY NextInv
<1>2. QED
  BY <1>1, GraphInvariant, PTL DEF Spec, IdsKeepTheirMeaning

\* Editing the graph never loses data that the client entered.
THEOREM EditsKeepDataAlways == Spec => EditsKeepData
<1>1. GraphInv /\ [Next]_vars => [DataKept]_vars
  BY NextInv
<1>2. QED
  BY <1>1, GraphInvariant, PTL DEF Spec, EditsKeepData

----------------------------------------------------------------------------
(***************************************************************************)
(* What ValidateEdge foretells                                             *)
(***************************************************************************)

\* The slots of an edge between slots that have a state are found.
LEMMA SlotsAreFound ==
  ASSUME GraphInv, NEW src \in DOMAIN slotStates, NEW dst \in DOMAIN slotStates, NEW entry,
         entry.node0 = src[1], entry.slot0 = src[2], entry.node1 = dst[1], entry.slot1 = dst[2]
  PROVE  SourceOf(entry) = src /\ TargetOf(entry) = dst /\ EndsFound(entry)
<1>1. \A s \in DOMAIN slotStates : s = <<s[1], s[2]>> /\ s[1] \in DOMAIN nodeInfos
  <2> SUFFICES ASSUME NEW s \in DOMAIN slotStates
               PROVE  s = <<s[1], s[2]>> /\ s[1] \in DOMAIN nodeInfos
    OBVIOUS
  <2>1. s \in NodeId \X STRING
    BY DEF GraphInv, TypeOK, Slot
  <2>2. PICK n \in DOMAIN nodeInfos : s \in SlotsOf(n)
    BY DEF GraphInv, SlotsMatchNodes
  <2>3. s[1] = n
    BY <2>2 DEF SlotsOf
  <2>4. QED
    BY <2>1, <2>3
<1>2. SourceOf(entry) = src /\ TargetOf(entry) = dst
  BY <1>1 DEF SourceOf, TargetOf
<1>3. DOMAIN slotStates \subseteq DOMAIN slotInfos /\ DOMAIN nodeStates = DOMAIN nodeInfos
  BY DEF GraphInv, SlotsMatchNodes, TypeOK
<1>4. QED
  BY <1>1, <1>2, <1>3 DEF EndsFound

\* What the turn of the loop does with an edge whose slots are found.
LEMMA FoundEntry ==
  ASSUME GraphInv, NEW entry, entry.edgeId = NoOverride, EndsFound(entry)
  PROVE  LET after == AddEntry(Batch, entry)
             dst == TargetOf(entry)
         IN  /\ slotStates[dst].inEdges # {} => after = Batch
             /\ (slotStates[dst].inEdges = {} /\ lastEdgeId + 1 \notin DOMAIN edgeInfos) =>
                   /\ after.ok
                   /\ lastEdgeId + 1 \in DOMAIN after.edgeInfos
                   /\ after.slotStates[dst].inEdges = {lastEdgeId + 1}
<1> DEFINE id == lastEdgeId + 1
           dst == TargetOf(entry)
           counted == [Batch EXCEPT !.lastEdgeId = id]
<1>1. /\ Batch.ok = TRUE /\ Batch.slotStates = slotStates
      /\ Batch.edgeInfos = edgeInfos /\ Batch.lastEdgeId = lastEdgeId
  BY DEF Batch
<1>2. /\ counted.slotStates = slotStates /\ counted.edgeInfos = edgeInfos
  BY DEF Batch
<1>3. dst \in DOMAIN slotStates
  BY DEF EndsFound
<1> HIDE DEF counted, dst
<1>4. AddEntry(Batch, entry) =
        IF slotStates[dst].inEdges # {} THEN Batch
        ELSE IF id \in DOMAIN edgeInfos THEN [counted EXCEPT !.ok = FALSE]
        ELSE Connect(counted, id, entry)
  BY <1>1 DEF AddEntry, counted, dst
<1>5. ASSUME slotStates[dst].inEdges = {}, id \notin DOMAIN edgeInfos
      PROVE  LET after == Connect(counted, id, entry)
             IN  /\ after.ok
                 /\ id \in DOMAIN after.edgeInfos
                 /\ after.slotStates[dst].inEdges = {id}
  BY <1>2, <1>3, <1>5 DEF Connect, Put, dst
<1>6. QED
  BY <1>4, <1>5 DEF dst

\* The answer of ValidateEdge is borne out by the next call of AddEdges.
LEMMA ForetellsInv == GraphInv => ValidateForetells
<1> SUFFICES ASSUME GraphInv, NEW src \in DOMAIN slotStates, NEW dst \in DOMAIN slotStates
             PROVE  LET answer == ValidateEdge(src, dst)
                        entry == [node0 |-> src[1], slot0 |-> src[2],
                                  node1 |-> dst[1], slot1 |-> dst[2], edgeId |-> NoOverride]
                        after == AddEntry(Batch, entry)
                    IN  /\ answer # "error"
                        /\ answer = "ERR_EDGE" => after = Batch
                        /\ (answer \in {"VALID", "WARN_DATA"} /\ lastEdgeId + 1 \notin DOMAIN edgeInfos) =>
                              /\ after.ok
                              /\ lastEdgeId + 1 \in DOMAIN after.edgeInfos
                              /\ after.slotStates[dst].inEdges = {lastEdgeId + 1}
  BY DEF ValidateForetells
<1> DEFINE answer == ValidateEdge(src, dst)
           entry == [node0 |-> src[1], slot0 |-> src[2],
                     node1 |-> dst[1], slot1 |-> dst[2], edgeId |-> NoOverride]
<1>1. {src, dst} \subseteq DOMAIN slotInfos
  BY DEF GraphInv, SlotsMatchNodes
<1>2. /\ answer # "error"
      /\ answer = "ERR_EDGE" => slotStates[dst].inEdges # {}
      /\ answer \in {"VALID", "WARN_DATA"} => slotStates[dst].inEdges = {}
  BY <1>1 DEF ValidateEdge
<1>3. /\ entry.node0 = src[1] /\ entry.slot0 = src[2] /\ entry.node1 = dst[1]
      /\ entry.slot1 = dst[2] /\ entry.edgeId = NoOverride
  OBVIOUS
<1> HIDE DEF answer, entry
<1>4. SourceOf(entry) = src /\ TargetOf(entry) = dst /\ EndsFound(entry)
  BY <1>3, SlotsAreFound
<1>5. /\ slotStates[dst].inEdges # {} => AddEntry(Batch, entry) = Batch
      /\ (slotStates[dst].inEdges = {} /\ lastEdgeId + 1 \notin DOMAIN edgeInfos) =>
            /\ AddEntry(Batch, entry).ok
            /\ lastEdgeId + 1 \in DOMAIN AddEntry(Batch, entry).edgeInfos
            /\ AddEntry(Batch, entry).slotStates[dst].inEdges = {lastEdgeId + 1}
  BY <1>3, <1>4, FoundEntry
<1>6. QED
  BY <1>2, <1>5 DEF answer, entry

\* ValidateEdge never misleads: after VALID or WARN_DATA the edge is added,
\* after ERR_EDGE nothing happens.
THEOREM ValidateForetellsAlways == Spec => []ValidateForetells
<1>1. QED
  BY ForetellsInv, GraphInvariant, PTL

----------------------------------------------------------------------------
(***************************************************************************)
(* What a careful client gets, for every registry and all bounds: the      *)
(* edges, the slots and the sorter agree, sortOrder is an order of the     *)
(* edges, and the graph state implements Wiring.  EdgesAreMirrored is not  *)
(* inductive: GetDownstreamNodeIds finds a parallel edge only if it leaves *)
(* a slot that is listed as an output or as mutable.                       *)
(***************************************************************************)

\* Edges leave slots that give a value.
SourcesGive ==
  \A e \in DOMAIN edgeInfos : slotInfos[SourceOf(edgeInfos[e])].access \in {"O", "M"}

CarefulInv ==
  /\ GraphInv
  /\ EdgesAreMirrored
  /\ SourcesGive

\* A call that does not change the edges and leaves the slots in their place.
LEMMA EdgesUntouched ==
  ASSUME CarefulInv, edgeInfos' = edgeInfos,
         \A s \in DOMAIN slotStates :
           /\ s \in DOMAIN slotStates'
           /\ slotStates'[s].inEdges = slotStates[s].inEdges
           /\ slotStates'[s].outEdges = slotStates[s].outEdges
           /\ slotInfos'[s].access = slotInfos[s].access,
         Nodes(sorter') = DOMAIN nodeInfos', EdgesOf(sorter') = EdgesOf(sorter)
  PROVE  EdgesAreMirrored' /\ SourcesGive'
<1>1. EdgesHaveEnds /\ EdgesOf(sorter) = Pairs /\ SourcesGive
  BY DEF CarefulInv, EdgesAreMirrored
<1>2. EdgesHaveEnds'
  BY <1>1 DEF EdgesHaveEnds, SourceOf, TargetOf
<1>3. Pairs' = Pairs
  BY DEF Pairs
<1>4. SourcesGive'
  BY <1>1 DEF SourcesGive, EdgesHaveEnds, SourceOf
<1>5. QED
  BY <1>1, <1>2, <1>3, <1>4 DEF EdgesAreMirrored

----------------------------------------------------------------------------
(***************************************************************************)
(* Adding nodes                                                            *)
(***************************************************************************)

\* An id that is free has no slots, so its new slots meet no edge.
LEMMA InsertNodeMirrors ==
  ASSUME CarefulInv, NEW id \in NodeId, id \notin DOMAIN nodeInfos,
         NEW ntype, NEW uri, NEW params, InsertNode(id, ntype, uri, params)
  PROVE  EdgesAreMirrored' /\ SourcesGive'
<1> DEFINE fresh == {<<id, params[i].name>> : i \in DOMAIN params}
           param == [s \in fresh |-> CHOOSE p \in Entries(params) : p.name = s[2]]
<1>1. /\ slotStates' = [s \in DOMAIN slotStates \cup fresh |->
                          IF s \in fresh THEN NewSlotState ELSE slotStates[s]]
      /\ slotInfos' = [s \in DOMAIN slotInfos \cup fresh |->
                          IF s \in fresh
                          THEN [dtype |-> param[s].dtype, access |-> param[s].access]
                          ELSE slotInfos[s]]
      /\ DOMAIN nodeInfos' = DOMAIN nodeInfos \cup {id}
      /\ sorter' = AddNode(sorter, id)
      /\ edgeInfos' = edgeInfos
  BY DEF InsertNode, Put
<1> HIDE DEF param
<1>2. \A s \in fresh : s[1] = id
  OBVIOUS
<1>3. ASSUME NEW s \in DOMAIN slotStates PROVE s \notin fresh /\ s \in DOMAIN slotInfos
  <2>1. PICK n \in DOMAIN nodeInfos : s \in SlotsOf(n)
    BY DEF CarefulInv, GraphInv, SlotsMatchNodes
  <2>2. s[1] = n
    BY <2>1 DEF SlotsOf
  <2>3. s \in DOMAIN slotInfos
    BY DEF CarefulInv, GraphInv, SlotsMatchNodes
  <2>4. QED
    BY <2>1, <2>2, <2>3, <1>2
<1> HIDE DEF fresh
<1>4. \A s \in DOMAIN slotStates :
        s \in DOMAIN slotStates' /\ slotStates'[s] = slotStates[s] /\ slotInfos'[s] = slotInfos[s]
  BY <1>1, <1>3
<1>5. SorterInv(sorter, NodeId) /\ Nodes(sorter) = DOMAIN nodeInfos
  BY DEF CarefulInv, GraphInv, EdgesAreMirrored
<1>6. Nodes(sorter') = DOMAIN nodeInfos' /\ EdgesOf(sorter') = EdgesOf(sorter)
  BY <1>1, <1>5, AddNodeEdges
<1>7. QED
  BY <1>1, <1>4, <1>6, EdgesUntouched

\* Leaving the graph alone keeps what is said of it.
LEMMA SameGraphMirrors ==
  ASSUME CarefulInv, UNCHANGED <<nodeVars, slotVars, edgeInfos, sorter>>
  PROVE  EdgesAreMirrored' /\ SourcesGive'
<1>1. /\ nodeInfos' = nodeInfos /\ slotInfos' = slotInfos /\ slotStates' = slotStates
      /\ edgeInfos' = edgeInfos /\ sorter' = sorter
  BY DEF nodeVars, slotVars
<1>2. Nodes(sorter') = DOMAIN nodeInfos'
  BY <1>1 DEF CarefulInv, EdgesAreMirrored
<1>3. QED
  BY <1>1, <1>2, EdgesUntouched

\* Adding a node either fails or inserts one under an id that was free.
LEMMA AddsNodeCases ==
  ASSUME AddsNode
  PROVE  \/ UNCHANGED <<nodeVars, slotVars, edgeInfos, sorter>>
         \/ \E id \in NodeId \ DOMAIN nodeInfos : \E ntype, uri, params :
               InsertNode(id, ntype, uri, params)
<1> DEFINE Inserts == \E id \in NodeId \ DOMAIN nodeInfos : \E ntype, uri, params :
                        InsertNode(id, ntype, uri, params)
           Same == UNCHANGED <<nodeVars, slotVars, edgeInfos, sorter>>
<1>1. ASSUME NEW override, NEW ntype, NEW uri, NEW params,
             AddNodeWithId(override, ntype, uri, params)
      PROVE  Same \/ Inserts
  <2> DEFINE id == IF override = NoOverride THEN lastNodeId + 1 ELSE override
  <2>1. id \in NodeId
    BY <1>1 DEF AddNodeWithId
  <2>2. \/ UNCHANGED <<nodeVars, slotVars, edgeInfos, lastEdgeId, sorter>>
        \/ id \notin DOMAIN nodeInfos /\ InsertNode(id, ntype, uri, params)
    BY <1>1 DEF AddNodeWithId
  <2> HIDE DEF id
  <2>3. QED
    BY <2>1, <2>2
<1> HIDE DEF Inserts, Same
<1>2. ASSUME NEW override, NEW uri, AddFuncNode(uri, override) PROVE Same \/ Inserts
  <2>1. Fail \/ AddNodeWithId(override, "FN", uri, Registry[uri])
    BY <1>2 DEF AddFuncNode
  <2>2. Fail => Same
    BY DEF Fail, graphVars, Same
  <2>3. QED
    BY <2>1, <2>2, <1>1
<1>3. ASSUME NEW override, NEW dtype, NEW isOutput, AddIONode(dtype, isOutput, override)
      PROVE  Same \/ Inserts
  BY <1>1, <1>3 DEF AddIONode
<1>4. QED
  BY <1>2, <1>3 DEF AddsNode, Same, Inserts

LEMMA AddsNodeMirrors ==
  ASSUME CarefulInv, AddsNode
  PROVE  EdgesAreMirrored' /\ SourcesGive'
BY AddsNodeCases, SameGraphMirrors, InsertNodeMirrors
----------------------------------------------------------------------------
(***************************************************************************)
(* Adding edges: what every turn of the loop keeps                         *)
(***************************************************************************)

PairsOf(infos) == {<<infos[e].node0, infos[e].node1>> : e \in DOMAIN infos}

\* CarefulInv for the state that the loop works on; P are the pairs that the
\* edges of the graph and those of the whole batch join.
CarefulBatch(b, P) ==
  /\ BatchInv(b)
  /\ \A e \in DOMAIN b.edgeInfos :
       LET src == SourceOf(b.edgeInfos[e])
           dst == TargetOf(b.edgeInfos[e])
       IN  /\ {src, dst} \subseteq DOMAIN slotStates
           /\ e \in b.slotStates[src].outEdges
           /\ e \in b.slotStates[dst].inEdges
           /\ slotInfos[src].access \in {"O", "M"}
  /\ Nodes(b.sorter) = DOMAIN nodeInfos
  /\ EdgesOf(b.sorter) = PairsOf(b.edgeInfos)
  /\ PairsOf(b.edgeInfos) \subseteq P

\* The loop starts from the state of the graph.
LEMMA CarefulBatchStarts ==
  ASSUME CarefulInv, NEW P, Pairs \subseteq P
  PROVE  CarefulBatch(Batch, P)
<1>1. /\ Batch.edgeInfos = edgeInfos /\ Batch.slotStates = slotStates /\ Batch.sorter = sorter
      /\ BatchInv(Batch)
  BY BatchStarts DEF Batch, CarefulInv
<1>2. EdgesHaveEnds /\ Nodes(sorter) = DOMAIN nodeInfos /\ EdgesOf(sorter) = Pairs /\ SourcesGive
  BY DEF CarefulInv, EdgesAreMirrored
<1>3. PairsOf(edgeInfos) = Pairs
  BY DEF PairsOf, Pairs
<1> HIDE DEF Batch
<1>4. QED
  BY <1>1, <1>2, <1>3 DEF CarefulBatch, EdgesHaveEnds, SourcesGive

\* An edge that closes no cycle is recorded in all three places.
LEMMA ConnectMirrors ==
  ASSUME CarefulInv, NEW P \in SUBSET (NodeId \X NodeId), Acyclic(P),
         NEW b, CarefulBatch(b, P), NEW entry \in Entry, EndsFound(entry),
         <<entry.node0, entry.node1>> \in P,
         slotInfos[SourceOf(entry)].access \in {"O", "M"},
         b.slotStates[TargetOf(entry)].inEdges = {},
         NEW id, id \notin DOMAIN b.edgeInfos
  PROVE  CarefulBatch(Connect(b, id, entry), P)
<1> DEFINE src == SourceOf(entry)
           dst == TargetOf(entry)
           u == entry.node0
           v == entry.node1
           info == [node0 |-> entry.node0, slot0 |-> entry.slot0,
                    node1 |-> entry.node1, slot1 |-> entry.slot1]
           c == Connect(b, id, entry)
<1>1. /\ c.edgeInfos = [e \in DOMAIN b.edgeInfos \cup {id} |->
                          IF e = id THEN info ELSE b.edgeInfos[e]]
      /\ c.slotStates = [s \in DOMAIN b.slotStates |->
                         [inEdges  |-> b.slotStates[s].inEdges \cup IF s = dst THEN {id} ELSE {},
                          outEdges |-> b.slotStates[s].outEdges \cup IF s = src THEN {id} ELSE {},
                          encodedData |-> b.slotStates[s].encodedData]]
      /\ c.sorter = AddEdge(b.sorter, u, v).sorter
  BY DEF Connect, Put
<1>2. BatchInv(c)
  BY ConnectKeeps DEF CarefulBatch, CarefulInv
<1> HIDE DEF c
<1>3. /\ SourceOf(info) = src /\ TargetOf(info) = dst /\ info.node0 = u /\ info.node1 = v
      /\ u \in NodeId /\ v \in NodeId /\ u \in DOMAIN nodeInfos /\ v \in DOMAIN nodeInfos
      /\ {src, dst} \subseteq DOMAIN slotStates
  BY DEF SourceOf, TargetOf, EndsFound, Entry
<1>4. slotInfos[src].access \in {"O", "M"} /\ DOMAIN b.slotStates = DOMAIN slotStates
  BY DEF CarefulBatch, BatchInv
<1> HIDE DEF info, src, dst
<1>5. ASSUME NEW e \in DOMAIN c.edgeInfos
      PROVE  LET s == SourceOf(c.edgeInfos[e])
                 t == TargetOf(c.edgeInfos[e])
             IN  /\ {s, t} \subseteq DOMAIN slotStates
                 /\ e \in c.slotStates[s].outEdges
                 /\ e \in c.slotStates[t].inEdges
                 /\ slotInfos[s].access \in {"O", "M"}
  <2>1. CASE e = id
    BY <2>1, <1>1, <1>3, <1>4
  <2>2. CASE e # id
    <3>1. e \in DOMAIN b.edgeInfos /\ c.edgeInfos[e] = b.edgeInfos[e]
      BY <2>2, <1>1
    <3>2. LET s == SourceOf(b.edgeInfos[e])
              t == TargetOf(b.edgeInfos[e])
          IN  /\ {s, t} \subseteq DOMAIN slotStates
              /\ e \in b.slotStates[s].outEdges
              /\ e \in b.slotStates[t].inEdges
              /\ slotInfos[s].access \in {"O", "M"}
      BY <3>1 DEF CarefulBatch
    <3>3. QED
      BY <3>1, <3>2, <1>1, <1>4, SMTT(30)
  <2>3. QED
    BY <2>1, <2>2
<1>6. PairsOf(c.edgeInfos) = PairsOf(b.edgeInfos) \cup {<<u, v>>}
  BY <1>1, <1>3 DEF PairsOf
<1>7. /\ Nodes(c.sorter) = DOMAIN nodeInfos
      /\ EdgesOf(c.sorter) = PairsOf(b.edgeInfos) \cup {<<u, v>>}
  <2>1. /\ SorterInv(b.sorter, NodeId) /\ EdgesOf(b.sorter) \subseteq P
        /\ Nodes(b.sorter) = DOMAIN nodeInfos
        /\ EdgesOf(b.sorter) = PairsOf(b.edgeInfos)
    BY DEF CarefulBatch, BatchInv
  <2>2. u \notin Closure(v, Successors(P, NodeId))
    <3>1. <<u, v>>[1] = u /\ <<u, v>>[2] = v
      OBVIOUS
    <3>2. QED
      BY <3>1 DEF Acyclic, Successors
  <2> HIDE DEF u, v
  <2>3. /\ Nodes(AddEdge(b.sorter, u, v).sorter) = Nodes(b.sorter) \cup {u, v}
        /\ EdgesOf(AddEdge(b.sorter, u, v).sorter) = EdgesOf(b.sorter) \cup {<<u, v>>}
    BY <2>1, <2>2, <1>3, AcyclicEdgeIsAccepted
  <2>4. Nodes(b.sorter) \cup {u, v} = DOMAIN nodeInfos
    BY <2>1, <1>3
  <2>5. QED
    BY <2>1, <2>3, <2>4, <1>1
<1>8. PairsOf(c.edgeInfos) \subseteq P
  BY <1>6 DEF CarefulBatch
<1>9. QED
  BY <1>2, <1>5, <1>6, <1>7, <1>8 DEF CarefulBatch, c

\* Every turn of the loop.
LEMMA AddEntryMirrors ==
  ASSUME CarefulInv, NEW P \in SUBSET (NodeId \X NodeId), Acyclic(P),
         NEW b, CarefulBatch(b, P), NEW entry \in Entry, <<entry.node0, entry.node1>> \in P,
         SourceOf(entry) \in DOMAIN slotInfos => slotInfos[SourceOf(entry)].access \in {"O", "M"}
  PROVE  CarefulBatch(AddEntry(b, entry), P)
<1>1. BatchInv(b)
  BY DEF CarefulBatch
<1>2. ASSUME NEW c, SameBatch(c, b) PROVE CarefulBatch(c, P)
  <2>1. BatchInv(c)
    BY <1>1, <1>2 DEF BatchInv, SameBatch
  <2>2. QED
    BY <2>1, <1>2 DEF CarefulBatch, SameBatch
<1>3. ASSUME EndsFound(entry), b.slotStates[TargetOf(entry)].inEdges = {},
             IdOf(b, entry) \notin DOMAIN b.edgeInfos, NEW c, SameBatch(c, b)
      PROVE  CarefulBatch(Connect(c, IdOf(b, entry), entry), P)
  <2>1. c.slotStates = b.slotStates /\ c.edgeInfos = b.edgeInfos /\ CarefulBatch(c, P)
    BY <1>2, <1>3 DEF SameBatch
  <2>2. slotInfos[SourceOf(entry)].access \in {"O", "M"}
    BY <1>3 DEF EndsFound
  <2>3. QED
    BY <2>1, <2>2, <1>3, ConnectMirrors
<1>4. QED
  BY <1>1, <1>2, <1>3, AddEntryCases

\* The whole loop.
LEMMA LoopMirrors ==
  ASSUME CarefulInv, NEW entries \in Seq(Entry), WellFormed(entries)
  PROVE  LET P == Pairs \cup {<<entries[i].node0, entries[i].node1>> : i \in DOMAIN entries}
         IN  CarefulBatch(AfterEntry(entries)[Len(entries)], P)
<1> DEFINE P == Pairs \cup {<<entries[i].node0, entries[i].node1>> : i \in DOMAIN entries}
           n == Len(entries)
           after == AfterEntry(entries)
           T == {k \in 0 .. n : CarefulBatch(after[k], P)}
<1>1. n \in Nat /\ DOMAIN entries = 1 .. n /\ \A i \in 1 .. n : entries[i] \in Entry
  OBVIOUS
<1>2. after = [i \in 0 .. n |-> IF i = 0 THEN Batch ELSE AddEntry(after[i - 1], entries[i])]
  BY <1>1, AfterEntryUnfolds
<1>3. /\ P \in SUBSET (NodeId \X NodeId) /\ Acyclic(P)
      /\ \A i \in 1 .. n : <<entries[i].node0, entries[i].node1>> \in P
      /\ Pairs \subseteq P
  <2>1. \A e \in DOMAIN edgeInfos : edgeInfos[e].node0 \in NodeId /\ edgeInfos[e].node1 \in NodeId
    BY DEF CarefulInv, GraphInv, TypeOK, EdgeInfo
  <2>2. \A i \in 1 .. n : entries[i].node0 \in NodeId /\ entries[i].node1 \in NodeId
    BY <1>1 DEF Entry
  <2>3. P \in SUBSET (NodeId \X NodeId)
    BY <2>1, <2>2, <1>1 DEF Pairs
  <2>4. Acyclic(P)
    BY DEF WellFormed
  <2>5. QED
    BY <2>3, <2>4, <1>1
<1> HIDE DEF n, after, P
<1>4. \A i \in 1 .. n : SourceOf(entries[i]) \in DOMAIN slotInfos =>
                          slotInfos[SourceOf(entries[i])].access \in {"O", "M"}
  BY <1>1 DEF WellFormed
<1>5. after[0] = Batch /\ \A i \in 1 .. n : after[i] = AddEntry(after[i - 1], entries[i])
  BY <1>1, <1>2
<1>6. 0 \in T
  BY <1>1, <1>3, <1>5, CarefulBatchStarts
<1>7. ASSUME NEW k \in 0 .. n - 1, k \in T PROVE k + 1 \in T
  <2>1. k + 1 \in 1 .. n /\ (k + 1) - 1 = k
    BY <1>1
  <2>2. after[k + 1] = AddEntry(after[k], entries[k + 1])
    BY <2>1, <1>5
  <2>3. CarefulBatch(after[k + 1], P)
    <3> DEFINE b == after[k]
               entry == entries[k + 1]
    <3>1. CarefulBatch(b, P)
      BY <1>7
    <3>2. /\ entry \in Entry /\ <<entry.node0, entry.node1>> \in P
          /\ SourceOf(entry) \in DOMAIN slotInfos => slotInfos[SourceOf(entry)].access \in {"O", "M"}
      BY <2>1, <1>1, <1>3, <1>4
    <3> HIDE DEF b, entry
    <3>3. CarefulBatch(AddEntry(b, entry), P)
      BY <3>1, <3>2, <1>3, AddEntryMirrors
    <3>4. QED
      BY <3>3, <2>2 DEF b, entry
  <2>4. QED
    BY <2>1, <2>3, <1>1
<1>8. 0 .. n \subseteq T
  <2> HIDE DEF T
  <2>1. QED
    BY <1>1, <1>6, <1>7, BoundedInduction
<1>9. n \in T
  BY <1>1, <1>8
<1>10. QED
  BY <1>9 DEF n, after, P

LEMMA AddEdgesMirrors ==
  ASSUME CarefulInv, NEW entries \in Batches, WellFormed(entries), AddEdges(entries)
  PROVE  EdgesAreMirrored' /\ SourcesGive'
<1> DEFINE P == Pairs \cup {<<entries[i].node0, entries[i].node1>> : i \in DOMAIN entries}
           r == AfterEntry(entries)[Len(entries)]
<1>1. entries \in Seq(Entry)
  BY BuilderAssumption
<1>2. CarefulBatch(r, P)
  BY <1>1, LoopMirrors
<1>3. /\ edgeInfos' = r.edgeInfos /\ slotStates' = r.slotStates /\ sorter' = r.sorter
      /\ nodeInfos' = nodeInfos /\ slotInfos' = slotInfos
  BY DEF AddEdges, nodeVars
<1> HIDE DEF r, P
<1>4. DOMAIN slotStates' = DOMAIN slotStates
  BY <1>2, <1>3 DEF CarefulBatch, BatchInv
<1>5. EdgesHaveEnds'
  BY <1>2, <1>3, <1>4 DEF CarefulBatch, EdgesHaveEnds, SourceOf, TargetOf
<1>6. SourcesGive'
  BY <1>2, <1>3 DEF CarefulBatch, SourcesGive, SourceOf
<1>7. Nodes(sorter') = DOMAIN nodeInfos'
  BY <1>2, <1>3 DEF CarefulBatch
<1>8. EdgesOf(sorter') = Pairs'
  BY <1>2, <1>3 DEF CarefulBatch, PairsOf, Pairs
<1>9. QED
  BY <1>5, <1>6, <1>7, <1>8 DEF EdgesAreMirrored
----------------------------------------------------------------------------
(***************************************************************************)
(* Deleting                                                                *)
(***************************************************************************)

\* GetDownstreamNodeIds finds the nodes that an edge leads to, and no others.
LEMMA DownstreamIsExact ==
  (GraphInv /\ EdgesHaveEnds /\ SourcesGive) =>
    \A n, m : m \in GetDownstreamNodeIds(n) <=> <<n, m>> \in Pairs
<1> SUFFICES ASSUME GraphInv, EdgesHaveEnds, SourcesGive, NEW n, NEW m
             PROVE  m \in GetDownstreamNodeIds(n) <=> <<n, m>> \in Pairs
  OBVIOUS
<1> DEFINE slots == {<<n, name>> : name \in Entries(nodeInfos[n].outs)
                                          \cup Entries(nodeInfos[n].inouts)}
           out == UNION {slotStates[s].outEdges : s \in slots \cap DOMAIN slotStates}
<1>1. SlotsMatchNodes /\ SlotIndexSound /\ TypeOK
  BY DEF GraphInv
<1>2. GetDownstreamNodeIds(n) =
        IF n \notin DOMAIN nodeInfos THEN {}
        ELSE {edgeInfos[e].node1 : e \in out \cap DOMAIN edgeInfos}
  BY DEF GetDownstreamNodeIds
<1>3. ASSUME m \in GetDownstreamNodeIds(n) PROVE <<n, m>> \in Pairs
  <2>1. PICK e \in out \cap DOMAIN edgeInfos : m = edgeInfos[e].node1
    BY <1>2, <1>3
  <2>2. PICK s \in slots \cap DOMAIN slotStates : e \in slotStates[s].outEdges
    BY <2>1
  <2>3. SourceOf(edgeInfos[e]) = s /\ s[1] = n
    BY <2>2, <1>1 DEF SlotIndexSound
  <2>4. edgeInfos[e].node0 = n
    BY <2>3 DEF SourceOf
  <2>5. QED
    BY <2>1, <2>4 DEF Pairs
<1>4. ASSUME <<n, m>> \in Pairs PROVE m \in GetDownstreamNodeIds(n)
  <2>1. PICK e \in DOMAIN edgeInfos : edgeInfos[e].node0 = n /\ edgeInfos[e].node1 = m
    BY <1>4 DEF Pairs
  <2> DEFINE src == SourceOf(edgeInfos[e])
  <2>2. src \in DOMAIN slotStates /\ e \in slotStates[src].outEdges
        /\ slotInfos[src].access \in {"O", "M"}
    BY <2>1 DEF EdgesHaveEnds, SourcesGive
  <2>3. PICK k \in DOMAIN nodeInfos : src \in SlotsOf(k)
    BY <2>2, <1>1 DEF SlotsMatchNodes
  <2>4. src[1] = n
    BY <2>1 DEF SourceOf
  <2>5. PICK name : /\ src = <<k, name>>
                    /\ \/ name \in Entries(nodeInfos[k].ins)
                       \/ name \in Entries(nodeInfos[k].outs) \cup Entries(nodeInfos[k].inouts)
    BY <2>3 DEF SlotsOf
  <2>6. k = n
    BY <2>4, <2>5
  <2>7. name \notin Entries(nodeInfos[k].ins)
    BY <2>2, <2>3, <2>5, <1>1 DEF SlotsMatchNodes
  <2>8. src \in slots
    BY <2>5, <2>6, <2>7
  <2>9. e \in out
    BY <2>2, <2>8
  <2>10. QED
    BY <2>1, <2>3, <2>6, <2>9, <1>2
<1>5. QED
  BY <1>3, <1>4

\* The same of the state after a step.
LEMMA DownstreamIsExactAfter ==
  (GraphInv' /\ EdgesHaveEnds' /\ SourcesGive') =>
    (\A n, m : m \in GetDownstreamNodeIds(n) <=> <<n, m>> \in Pairs)'
BY DownstreamIsExact, PTL

\* A pair of nodes is forgotten with its last edge and not before.
LEMMA DeleteElementsMirrors ==
  ASSUME CarefulInv, NEW nodes \in SUBSET NodeId, NEW edges \in SUBSET EdgeId,
         EdgesAt(nodes) \subseteq edges, DeleteElements(SortedSeq(nodes), edges)
  PROVE  EdgesAreMirrored' /\ SourcesGive'
<1> DEFINE deleted == edges \cap DOMAIN edgeInfos
           slots == {s \in DOMAIN slotInfos : s[1] \in nodes}
           pairs == {<<edgeInfos[e].node0, edgeInfos[e].node1>> : e \in deleted}
           cut == {p \in pairs : p[2] \notin GetDownstreamNodeIds(p[1])'}
<1>1. /\ GraphInv /\ EdgesHaveEnds /\ SourcesGive
      /\ Nodes(sorter) = DOMAIN nodeInfos /\ EdgesOf(sorter) = Pairs
      /\ SorterInv(sorter, NodeId) /\ DOMAIN slotStates \subseteq DOMAIN slotInfos
  BY DEF CarefulInv, EdgesAreMirrored, GraphInv, SlotsMatchNodes
<1>2. /\ Len(SortedSeq(nodes)) \in Nat
      /\ DOMAIN SortedSeq(nodes) = 1 .. Len(SortedSeq(nodes))
      /\ Entries(SortedSeq(nodes)) = nodes
  BY SortedNodes
<1>3. /\ nodeInfos' = [n \in DOMAIN nodeInfos \ nodes |-> nodeInfos[n]]
      /\ slotInfos' = [s \in DOMAIN slotInfos \ slots |-> slotInfos[s]]
      /\ edgeInfos' = [e \in DOMAIN edgeInfos \ deleted |-> edgeInfos[e]]
      /\ slotStates' = [s \in DOMAIN slotStates \ slots |->
           [slotStates[s] EXCEPT
              !.inEdges  = @ \ {e \in deleted : TargetOf(edgeInfos[e]) = s},
              !.outEdges = @ \ {e \in deleted : SourceOf(edgeInfos[e]) = s}]]
      /\ sorter' = Unsort(cut, SortedSeq(nodes))
  BY <1>2 DEF DeleteElements, Erase
<1>4. GraphInv'
  BY <1>1, DeleteElementsInv
<1>5. ASSUME NEW e \in DOMAIN edgeInfos'
      PROVE  /\ e \in DOMAIN edgeInfos /\ e \notin deleted /\ edgeInfos'[e] = edgeInfos[e]
             /\ edgeInfos[e].node0 \notin nodes /\ edgeInfos[e].node1 \notin nodes
  BY <1>3 DEF EdgesAt
<1> HIDE DEF cut, deleted
<1>6. ASSUME NEW s \in DOMAIN slotStates, s[1] \notin nodes
      PROVE  /\ s \in DOMAIN slotStates'
             /\ slotInfos'[s] = slotInfos[s]
             /\ \A e : e \notin deleted =>
                  /\ e \in slotStates[s].inEdges => e \in slotStates'[s].inEdges
                  /\ e \in slotStates[s].outEdges => e \in slotStates'[s].outEdges
  <2> DEFINE ins == {e \in deleted : TargetOf(edgeInfos[e]) = s}
             outs == {e \in deleted : SourceOf(edgeInfos[e]) = s}
             x == slotStates[s]
  <2>1. s \in DOMAIN slotInfos /\ s \notin slots
    BY <1>1, <1>6
  <2>2. s \in DOMAIN slotStates' /\ slotInfos'[s] = slotInfos[s]
    BY <1>3, <2>1
  <2>3. slotStates'[s] = [x EXCEPT !.inEdges = @ \ ins, !.outEdges = @ \ outs]
    BY <1>3, <2>1
  <2>4. x \in SlotState
    BY <1>1 DEF GraphInv, TypeOK
  <2> HIDE DEF ins, outs, x
  <2>5. slotStates'[s].inEdges = x.inEdges \ ins /\ slotStates'[s].outEdges = x.outEdges \ outs
    BY <2>3, <2>4 DEF SlotState
  <2>6. QED
    BY <2>2, <2>5 DEF x, ins, outs
<1>7. EdgesHaveEnds' /\ SourcesGive'
  <2>1. ASSUME NEW e \in DOMAIN edgeInfos'
        PROVE  LET src == SourceOf(edgeInfos'[e])
                   dst == TargetOf(edgeInfos'[e])
               IN  /\ {src, dst} \subseteq DOMAIN slotStates'
                   /\ e \in slotStates'[src].outEdges
                   /\ e \in slotStates'[dst].inEdges
                   /\ slotInfos'[src].access \in {"O", "M"}
    <3> DEFINE src == SourceOf(edgeInfos[e])
               dst == TargetOf(edgeInfos[e])
    <3>1. /\ src \in DOMAIN slotStates /\ dst \in DOMAIN slotStates
          /\ e \in slotStates[src].outEdges /\ e \in slotStates[dst].inEdges
          /\ slotInfos[src].access \in {"O", "M"}
      BY <1>1, <1>5 DEF EdgesHaveEnds, SourcesGive
    <3>2. src[1] \notin nodes /\ dst[1] \notin nodes
      BY <1>5 DEF SourceOf, TargetOf
    <3> HIDE DEF src, dst
    <3>3. /\ src \in DOMAIN slotStates' /\ dst \in DOMAIN slotStates'
          /\ e \in slotStates'[src].outEdges /\ e \in slotStates'[dst].inEdges
          /\ slotInfos'[src] = slotInfos[src]
      BY <1>5, <1>6, <3>1, <3>2
    <3>4. QED
      BY <1>5, <3>1, <3>3 DEF src, dst
  <2>2. QED
    BY <2>1 DEF EdgesHaveEnds, SourcesGive, SourceOf, TargetOf
<1>8. \A n, m : m \in GetDownstreamNodeIds(n)' <=> <<n, m>> \in Pairs'
  BY <1>4, <1>7, DownstreamIsExactAfter
<1>9. Nodes(sorter') = DOMAIN nodeInfos'
  <2>1. Nodes(Unsort(cut, SortedSeq(nodes))) = Nodes(sorter) \ Entries(SortedSeq(nodes))
    BY <1>1, <1>2, UnsortInv
  <2>2. QED
    BY <2>1, <1>1, <1>2, <1>3
<1>10. SorterInv(sorter', NodeId)
  BY <1>4 DEF GraphInv
<1>11. ASSUME NEW x \in DOMAIN nodeInfos', NEW y \in DOMAIN nodeInfos'
       PROVE  <<x, y>> \in EdgesOf(sorter') <=> <<x, y>> \in Pairs /\ <<x, y>> \notin cut
  <2>1. x \in Nodes(sorter) \ Entries(SortedSeq(nodes)) /\ y \in Nodes(sorter) \ Entries(SortedSeq(nodes))
    BY <1>1, <1>2, <1>3
  <2>2. y \in sorter'.outAdj[x] <=> (y \in sorter.outAdj[x] /\ <<x, y>> \notin cut)
    BY <2>1, <1>1, <1>2, <1>3, UnsortInv
  <2>3. <<x, y>> \in EdgesOf(sorter') <=> y \in sorter'.outAdj[x]
    BY <1>9, <1>10, EdgesOfSorter
  <2>4. <<x, y>> \in EdgesOf(sorter) <=> y \in sorter.outAdj[x]
    BY <1>1, <2>1, EdgesOfSorter
  <2>5. QED
    BY <2>2, <2>3, <2>4, <1>1
<1>12. ASSUME NEW x, NEW y, <<x, y>> \in Pairs'
       PROVE  <<x, y>> \in EdgesOf(sorter')
  <2>1. PICK e \in DOMAIN edgeInfos' : <<edgeInfos'[e].node0, edgeInfos'[e].node1>> = <<x, y>>
    BY <1>12 DEF Pairs
  <2>2. e \in DOMAIN edgeInfos /\ edgeInfos[e].node0 = x /\ edgeInfos[e].node1 = y
        /\ x \notin nodes /\ y \notin nodes
    BY <2>1, <1>5
  <2>3. <<x, y>> \in Pairs
    BY <2>2 DEF Pairs
  <2>4. x \in Nodes(sorter) /\ y \in Nodes(sorter)
    BY <2>3, <1>1 DEF EdgesOf
  <2>5. <<x, y>> \notin cut
    BY <1>8, <1>12 DEF cut
  <2>6. x \in DOMAIN nodeInfos' /\ y \in DOMAIN nodeInfos'
    BY <2>2, <2>4, <1>1, <1>3
  <2>7. QED
    BY <2>3, <2>5, <2>6, <1>11
<1>13. ASSUME NEW x, NEW y, <<x, y>> \in EdgesOf(sorter')
       PROVE  <<x, y>> \in Pairs'
  <2>1. x \in DOMAIN nodeInfos' /\ y \in DOMAIN nodeInfos'
    BY <1>9, <1>13 DEF EdgesOf
  <2>2. <<x, y>> \in Pairs /\ <<x, y>> \notin cut
    BY <2>1, <1>11, <1>13
  <2>3. PICK e \in DOMAIN edgeInfos : <<edgeInfos[e].node0, edgeInfos[e].node1>> = <<x, y>>
    BY <2>2 DEF Pairs
  <2>4. CASE e \in deleted
    <3>1. <<x, y>> \in pairs
      BY <2>3, <2>4
    <3>2. <<x, y>>[1] = x /\ <<x, y>>[2] = y
      OBVIOUS
    <3> HIDE DEF pairs
    <3>3. y \in GetDownstreamNodeIds(x)'
      BY <2>2, <3>1, <3>2 DEF cut
    <3>4. QED
      BY <3>3, <1>8
  <2>5. CASE e \notin deleted
    <3>1. e \in DOMAIN edgeInfos' /\ edgeInfos'[e] = edgeInfos[e]
      BY <1>3, <2>5
    <3>2. QED
      BY <3>1, <2>3 DEF Pairs
  <2>6. QED
    BY <2>4, <2>5
<1>14. EdgesOf(sorter') = Pairs'
  <2>1. /\ \A p \in EdgesOf(sorter') : p = <<p[1], p[2]>>
        /\ \A p \in Pairs' : p = <<p[1], p[2]>>
    BY DEF EdgesOf, Pairs
  <2>2. QED
    BY <2>1, <1>12, <1>13
<1>15. QED
  BY <1>7, <1>9, <1>14 DEF EdgesAreMirrored

----------------------------------------------------------------------------
(***************************************************************************)
(* Encoded data and meta data                                              *)
(***************************************************************************)

\* Setting data leaves the edges of every slot alone.
LEMMA SetsDataMirrors ==
  ASSUME CarefulInv, SetsData
  PROVE  EdgesAreMirrored' /\ SourcesGive'
<1>1. /\ edgeInfos' = edgeInfos /\ slotInfos' = slotInfos /\ sorter' = sorter
      /\ nodeInfos' = nodeInfos
  BY DEF SetsData, SetNodeEncodedData, SetSlotEncodedData, SetGraphInputs, ClearGraphInputs,
         WriteInputs, Fail, graphVars, nodeVars, slotVars
<1>2. \A s \in DOMAIN slotStates : slotStates[s] \in SlotState
  BY DEF CarefulInv, GraphInv, TypeOK
<1>3. ASSUME NEW s \in DOMAIN slotStates
      PROVE  /\ s \in DOMAIN slotStates'
             /\ slotStates'[s].inEdges = slotStates[s].inEdges
             /\ slotStates'[s].outEdges = slotStates[s].outEdges
  <2> DEFINE Written == /\ s \in DOMAIN slotStates'
                        /\ \/ slotStates'[s] = slotStates[s]
                           \/ \E data : slotStates'[s] = [slotStates[s] EXCEPT !.encodedData = data]
  <2>1. ASSUME slotStates' = slotStates PROVE Written
    BY <2>1
  <2>2. ASSUME NEW inputs, WriteInputs(inputs) PROVE Written
    BY <2>2 DEF WriteInputs
  <2>3. ASSUME NEW slot, NEW data, SetSlotEncodedData(slot, data) PROVE Written
    BY <2>1, <2>3 DEF SetSlotEncodedData, Fail, graphVars, slotVars
  <2>4. ASSUME NEW n, NEW data, SetNodeEncodedData(n, data) PROVE Written
    BY <2>1, <2>4 DEF SetNodeEncodedData, Fail, graphVars, slotVars
  <2> HIDE DEF Written
  <2>5. Written
    BY <2>2, <2>3, <2>4 DEF SetsData, SetGraphInputs, ClearGraphInputs
  <2>6. QED
    BY <2>5, <1>2 DEF SlotState, Written
<1>4. Nodes(sorter') = DOMAIN nodeInfos'
  BY <1>1 DEF CarefulInv, EdgesAreMirrored
<1>5. QED
  BY <1>1, <1>3, <1>4, EdgesUntouched

----------------------------------------------------------------------------
(***************************************************************************)
(* The theorems about a careful client                                     *)
(***************************************************************************)

\* Every call of a careful client preserves the invariant.
LEMMA CarefulNextInv == CarefulInv /\ [CarefulNext]_vars => CarefulInv'
<1> SUFFICES ASSUME CarefulInv, [CarefulNext]_vars PROVE CarefulInv'
  OBVIOUS
<1>1. GraphInv
  BY DEF CarefulInv
<1>2. [Next]_vars
  BY DEF CarefulNext, Next
<1>3. GraphInv'
  BY <1>1, <1>2, NextInv
<1>4. CASE AddsNode
  BY <1>3, <1>4, AddsNodeMirrors DEF CarefulInv
<1>5. ASSUME NEW entries \in Batches, WellFormed(entries), AddEdges(entries)
      PROVE  CarefulInv'
  BY <1>3, <1>5, AddEdgesMirrors DEF CarefulInv
<1>6. ASSUME NEW nodes \in SUBSET NodeId, NEW edges \in SUBSET EdgeId,
             EdgesAt(nodes) \subseteq edges, DeleteElements(SortedSeq(nodes), edges)
      PROVE  CarefulInv'
  BY <1>3, <1>6, DeleteElementsMirrors DEF CarefulInv
<1>7. CASE SetsData
  BY <1>3, <1>7, SetsDataMirrors DEF CarefulInv
<1>8. CASE SetsMeta
  BY <1>3, <1>8, SameGraphMirrors DEF CarefulInv, SetsMeta, SetGraphMeta
<1>9. CASE UNCHANGED vars
  BY <1>3, <1>9, SameGraphMirrors DEF CarefulInv, vars, graphVars
<1>10. QED
  BY <1>4, <1>5, <1>6, <1>7, <1>8, <1>9 DEF CarefulNext

LEMMA CarefulInitInv == Init => CarefulInv
<1> SUFFICES ASSUME Init PROVE CarefulInv
  OBVIOUS
<1>1. DOMAIN edgeInfos = {} /\ DOMAIN nodeInfos = {} /\ sorter = EmptySorter
  BY DEF Init, EmptyMap
<1>2. SorterInv(sorter, NodeId) /\ Nodes(sorter) = {}
  BY <1>1, EmptySorterInv
<1>3. EdgesOf(sorter) = {} /\ Pairs = {}
  BY <1>1, <1>2 DEF EdgesOf, Pairs
<1>4. EdgesAreMirrored /\ SourcesGive
  BY <1>1, <1>2, <1>3 DEF EdgesAreMirrored, EdgesHaveEnds, SourcesGive
<1>5. QED
  BY <1>4, InitInv DEF CarefulInv

\* The inductive invariant of a careful client.
THEOREM CarefulInvariant == CarefulSpec => []CarefulInv
BY CarefulInitInv, CarefulNextInv, PTL DEF CarefulSpec

\* The edges are kept three times, and the three agree after every call.
THEOREM EdgesAreMirroredAlways == CarefulSpec => []EdgesAreMirrored
<1>1. CarefulInv => EdgesAreMirrored
  BY DEF CarefulInv
<1>2. QED
  BY <1>1, CarefulInvariant, PTL

\* If the edges of the graph have an order at all, sortOrder is one: with a
\* careful client the sorter never misses a dependency.
THEOREM OrderRespectsEdgesAlways == CarefulSpec => []OrderRespectsEdges
<1>1. CarefulInv => OrderRespectsEdges
  <2> SUFFICES ASSUME CarefulInv, NEW e \in Pairs PROVE sorter.pos[e[1]] < sorter.pos[e[2]]
    BY DEF OrderRespectsEdges
  <2>1. e \in EdgesOf(sorter)
    BY DEF CarefulInv, EdgesAreMirrored
  <2>2. e[1] \in Nodes(sorter) /\ e[2] \in sorter.outAdj[e[1]]
    BY <2>1 DEF EdgesOf
  <2>3. QED
    BY <2>2 DEF CarefulInv, GraphInv, SorterInv, Topological
<1>2. QED
  BY <1>1, CarefulInvariant, PTL
----------------------------------------------------------------------------
(***************************************************************************)
(* The graph state of a careful client implements Wiring                   *)
(***************************************************************************)

\* A target has one edge, so it has one wire: to the source of that edge.
WiresAreEdges ==
  /\ DOMAIN Wires = {TargetOf(edgeInfos[e]) : e \in DOMAIN edgeInfos}
  /\ \A e \in DOMAIN edgeInfos : Wires[TargetOf(edgeInfos[e])] = SourceOf(edgeInfos[e])
  /\ \A t \in DOMAIN Wires : <<Wires[t][1], t[1]>> \in Pairs
  /\ \A t \in DOMAIN Wires : t[1] \in DOMAIN nodeInfos /\ Wires[t][1] \in DOMAIN nodeInfos

LEMMA WiresFacts == CarefulInv => WiresAreEdges
<1> SUFFICES ASSUME CarefulInv PROVE WiresAreEdges
  OBVIOUS
<1>1. EdgesHaveEnds /\ SlotIndexSound /\ EdgesOf(sorter) = Pairs /\ Nodes(sorter) = DOMAIN nodeInfos
  BY DEF CarefulInv, EdgesAreMirrored, GraphInv
<1> DEFINE targets == {TargetOf(edgeInfos[e]) : e \in DOMAIN edgeInfos}
           edgeOf(t) == CHOOSE e \in DOMAIN edgeInfos : TargetOf(edgeInfos[e]) = t
<1>2. DOMAIN Wires = targets /\ \A t \in targets : Wires[t] = SourceOf(edgeInfos[edgeOf(t)])
  BY DEF Wires
<1>3. ASSUME NEW e \in DOMAIN edgeInfos PROVE edgeOf(TargetOf(edgeInfos[e])) = e
  <2> DEFINE t == TargetOf(edgeInfos[e])
  <2>1. t \in DOMAIN slotStates
    BY <1>1 DEF EdgesHaveEnds
  <2>2. \A d \in DOMAIN edgeInfos : TargetOf(edgeInfos[d]) = t => d \in slotStates[t].inEdges
    BY <1>1 DEF EdgesHaveEnds
  <2>3. \A d \in DOMAIN edgeInfos : TargetOf(edgeInfos[d]) = t => d = e
    BY <2>1, <2>2, <1>1 DEF SlotIndexSound
  <2>4. QED
    BY <2>3
<1> HIDE DEF edgeOf
<1>4. \A e \in DOMAIN edgeInfos : Wires[TargetOf(edgeInfos[e])] = SourceOf(edgeInfos[e])
  BY <1>2, <1>3
<1> HIDE DEF Wires
<1>5. ASSUME NEW t \in DOMAIN Wires
      PROVE  /\ <<Wires[t][1], t[1]>> \in Pairs
             /\ t[1] \in DOMAIN nodeInfos /\ Wires[t][1] \in DOMAIN nodeInfos
  <2>1. PICK e \in DOMAIN edgeInfos : t = TargetOf(edgeInfos[e])
    BY <1>2
  <2>2. Wires[t][1] = edgeInfos[e].node0 /\ t[1] = edgeInfos[e].node1
    BY <2>1, <1>4 DEF SourceOf, TargetOf
  <2>3. <<Wires[t][1], t[1]>> \in Pairs
    BY <2>2 DEF Pairs
  <2>4. <<Wires[t][1], t[1]>> \in Nodes(sorter) \X Nodes(sorter)
    BY <2>3, <1>1 DEF EdgesOf
  <2>5. QED
    BY <2>3, <2>4, <1>1
<1>6. QED
  BY <1>2, <1>4, <1>5 DEF WiresAreEdges

\* sortOrder is an order for the wires.
LEMMA SortOrderOrdersWires == CarefulInv => W!IsOrder(sorter.sortOrder, DOMAIN nodeInfos, Wires)
<1> SUFFICES ASSUME CarefulInv PROVE W!IsOrder(sorter.sortOrder, DOMAIN nodeInfos, Wires)
  OBVIOUS
<1>1. EdgesOf(sorter) = Pairs /\ Nodes(sorter) = DOMAIN nodeInfos /\ SorterInv(sorter, NodeId)
  BY DEF CarefulInv, EdgesAreMirrored, GraphInv
<1>2. IsLinearExtension(sorter.sortOrder, DOMAIN nodeInfos, Pairs)
  <2>1. IsLinearExtension(sorter.sortOrder, Nodes(sorter), EdgesOf(sorter))
    BY <1>1, SortOrderIsExtension
  <2>2. QED
    BY <2>1, <1>1
<1> DEFINE joined == {<<Wires[t][1], t[1]>> : t \in DOMAIN Wires}
<1>3. joined \subseteq Pairs
  BY WiresFacts DEF WiresAreEdges
<1>4. W!Cardinality(DOMAIN nodeInfos) = Cardinality(DOMAIN nodeInfos)
  BY DEF W!Cardinality, Cardinality
<1> HIDE DEF joined
<1>5. W!IsLinearExtension(sorter.sortOrder, DOMAIN nodeInfos, joined)
  BY <1>2, <1>3, <1>4 DEF IsLinearExtension, W!IsLinearExtension
<1>6. QED
  BY <1>5 DEF W!IsOrder, joined

\* The same of the state after a step.
LEMMA WiresFactsAfter == CarefulInv' => WiresAreEdges'
BY WiresFacts, PTL

LEMMA SortOrderOrdersWiresAfter ==
  CarefulInv' => W!IsOrder(sorter.sortOrder, DOMAIN nodeInfos, Wires)'
BY SortOrderOrdersWires, PTL

\* A new node comes last in the order.
LEMMA InsertIsAddNode ==
  ASSUME CarefulInv, NEW id \in NodeId, id \notin DOMAIN nodeInfos,
         NEW ntype, NEW uri, NEW params, InsertNode(id, ntype, uri, params)
  PROVE  W!AddNode
<1>1. /\ DOMAIN nodeInfos' = DOMAIN nodeInfos \cup {id}
      /\ sorter' = AddNode(sorter, id) /\ edgeInfos' = edgeInfos
  BY DEF InsertNode, Put
<1>2. sorter'.sortOrder = Append(sorter.sortOrder, id)
  BY <1>1 DEF AddNode, CarefulInv, EdgesAreMirrored
<1>3. Wires' = Wires
  BY <1>1 DEF Wires
<1>4. id \in DOMAIN nodeInfos' \ DOMAIN nodeInfos
  BY <1>1
<1>5. QED
  BY <1>1, <1>2, <1>3, <1>4 DEF W!AddNode

\* New edges are new wires, to targets that had none.
LEMMA AddEdgesIsConnect ==
  ASSUME CarefulInv, CarefulInv', NEW entries \in Batches, AddEdges(entries)
  PROVE  W!Connect
<1>1. BatchInv(AfterEntry(entries)[Len(entries)])
  BY LoopKeeps, BuilderAssumption DEF CarefulInv
<1>2. /\ nodeInfos' = nodeInfos
      /\ \A e \in DOMAIN edgeInfos : e \in DOMAIN edgeInfos' /\ edgeInfos'[e] = edgeInfos[e]
  BY <1>1 DEF AddEdges, BatchInv, nodeVars
<1>3. WiresAreEdges /\ WiresAreEdges'
  BY WiresFacts, WiresFactsAfter
<1>4. ASSUME NEW t \in DOMAIN Wires PROVE t \in DOMAIN Wires' /\ Wires'[t] = Wires[t]
  <2>1. PICK e \in DOMAIN edgeInfos : t = TargetOf(edgeInfos[e])
    BY <1>3 DEF WiresAreEdges
  <2>2. t = TargetOf(edgeInfos'[e]) /\ SourceOf(edgeInfos'[e]) = SourceOf(edgeInfos[e])
    BY <2>1, <1>2 DEF TargetOf, SourceOf
  <2>3. t \in DOMAIN Wires' /\ Wires'[t] = SourceOf(edgeInfos'[e])
    BY <1>2, <1>3, <2>2 DEF WiresAreEdges, TargetOf, SourceOf
  <2>4. Wires[t] = SourceOf(edgeInfos[e])
    BY <1>3, <2>1 DEF WiresAreEdges
  <2>5. QED
    BY <2>2, <2>3, <2>4
<1>5. \A t \in DOMAIN Wires' : {t[1], Wires'[t][1]} \subseteq DOMAIN nodeInfos
  BY <1>2, <1>3 DEF WiresAreEdges
<1>6. Wires = [t \in DOMAIN Wires |-> Wires'[t]]
  <2>1. Wires = [t \in DOMAIN Wires |-> Wires[t]]
    BY DEF Wires
  <2> HIDE DEF Wires
  <2>2. QED
    BY <2>1, <1>4
<1>7. W!IsOrder(sorter'.sortOrder, DOMAIN nodeInfos, Wires')
  BY <1>2, SortOrderOrdersWiresAfter DEF W!IsOrder, W!IsLinearExtension
<1>8. QED
  BY <1>2, <1>4, <1>5, <1>6, <1>7 DEF W!Connect

\* Deleting takes wires and nodes away and leaves the rest in its order.
LEMMA DeleteElementsIsRemove ==
  ASSUME CarefulInv, CarefulInv', NEW nodes \in SUBSET NodeId, NEW edges \in SUBSET EdgeId,
         DeleteElements(SortedSeq(nodes), edges)
  PROVE  W!Remove
<1>1. /\ Len(SortedSeq(nodes)) \in Nat
      /\ DOMAIN SortedSeq(nodes) = 1 .. Len(SortedSeq(nodes))
      /\ Entries(SortedSeq(nodes)) = nodes
  BY SortedNodes
<1>2. PICK cut : sorter' = Unsort(cut, SortedSeq(nodes))
  BY DEF DeleteElements
<1>3. /\ DOMAIN nodeInfos' \subseteq DOMAIN nodeInfos
      /\ \A e \in DOMAIN edgeInfos' : e \in DOMAIN edgeInfos /\ edgeInfos'[e] = edgeInfos[e]
  BY DEF DeleteElements, Erase
<1>4. WiresAreEdges /\ WiresAreEdges'
  BY WiresFacts, WiresFactsAfter
<1>5. ASSUME NEW t \in DOMAIN Wires' PROVE t \in DOMAIN Wires /\ Wires'[t] = Wires[t]
  <2>1. PICK e \in DOMAIN edgeInfos' : t = TargetOf(edgeInfos'[e])
    BY <1>4 DEF WiresAreEdges, TargetOf
  <2>2. t = TargetOf(edgeInfos[e]) /\ SourceOf(edgeInfos'[e]) = SourceOf(edgeInfos[e])
    BY <2>1, <1>3 DEF TargetOf, SourceOf
  <2>3. t \in DOMAIN Wires /\ Wires[t] = SourceOf(edgeInfos[e])
    BY <1>3, <1>4, <2>2 DEF WiresAreEdges
  <2>4. Wires'[t] = SourceOf(edgeInfos'[e])
    BY <1>4, <2>1 DEF WiresAreEdges, TargetOf, SourceOf
  <2>5. QED
    BY <2>2, <2>3, <2>4
<1>6. \A t \in DOMAIN Wires' : {t[1], Wires[t][1]} \subseteq DOMAIN nodeInfos'
  BY <1>4, <1>5 DEF WiresAreEdges
<1>7. Wires' = [t \in DOMAIN Wires' |-> Wires[t]]
  <2>1. Wires' = [t \in DOMAIN Wires' |-> Wires'[t]]
    BY DEF Wires
  <2> HIDE DEF Wires
  <2>2. QED
    BY <2>1, <1>5
<1>8. W!IsOrder(sorter'.sortOrder, DOMAIN nodeInfos', Wires')
  BY SortOrderOrdersWiresAfter DEF W!IsOrder, W!IsLinearExtension
<1>9. W!KeepsOrder(sorter.sortOrder, sorter'.sortOrder)
  <2> DEFINE sq == SortedSeq(nodes)
             q == Unsort(cut, sq)
  <2>1. SorterInv(sorter, NodeId) /\ SorterInv(q, NodeId)
    BY <1>2 DEF CarefulInv, GraphInv
  <2>2. Nodes(q) = Nodes(sorter) \ Entries(sq)
    BY <2>1, <1>1, UnsortInv
  <2>3. \A x, y \in Nodes(sorter) \ Entries(sq) : q.pos[x] < q.pos[y] <=> sorter.pos[x] < sorter.pos[y]
    BY <2>1, <1>1, UnsortInv
  <2> HIDE DEF q, sq
  <2>4. KeepsOrder(sorter.sortOrder, q.sortOrder)
    BY <2>1, <2>2, <2>3, SamePositionsKeepOrder
  <2>5. QED
    BY <2>4, <1>2 DEF KeepsOrder, W!KeepsOrder, q, sq
<1>10. QED
  BY <1>3, <1>5, <1>6, <1>7, <1>8, <1>9 DEF W!Remove

\* Each call is a step of Wiring or changes nothing that Wiring speaks of.
LEMMA CarefulStepIsWiring ==
  CarefulInv /\ CarefulInv' /\ [CarefulNext]_vars => [W!Next]_(W!vars)
<1> SUFFICES ASSUME CarefulInv, CarefulInv', [CarefulNext]_vars PROVE [W!Next]_(W!vars)
  OBVIOUS
<1>1. ASSUME nodeInfos' = nodeInfos, edgeInfos' = edgeInfos, sorter' = sorter
      PROVE  UNCHANGED W!vars
  <2>1. Wires' = Wires
    BY <1>1 DEF Wires
  <2>2. QED
    BY <2>1, <1>1 DEF W!vars
<1>2. CASE AddsNode
  <2>1. CASE UNCHANGED <<nodeVars, slotVars, edgeInfos, sorter>>
    BY <2>1, <1>1 DEF nodeVars
  <2>2. ASSUME NEW id \in NodeId \ DOMAIN nodeInfos, NEW ntype, NEW uri, NEW params,
               InsertNode(id, ntype, uri, params)
        PROVE  W!Next
    BY <2>2, InsertIsAddNode DEF W!Next
  <2>3. QED
    BY <1>2, <2>1, <2>2, AddsNodeCases
<1>3. ASSUME NEW entries \in Batches, AddEdges(entries) PROVE W!Next
  BY <1>3, AddEdgesIsConnect DEF W!Next
<1>4. ASSUME NEW nodes \in SUBSET NodeId, NEW edges \in SUBSET EdgeId,
             DeleteElements(SortedSeq(nodes), edges)
      PROVE  W!Next
  BY <1>4, DeleteElementsIsRemove DEF W!Next
<1>5. CASE SetsData
  BY <1>1, <1>5 DEF SetsData, SetNodeEncodedData, SetSlotEncodedData, SetGraphInputs,
                    ClearGraphInputs, WriteInputs, Fail, graphVars, nodeVars, slotVars
<1>6. CASE SetsMeta
  BY <1>1, <1>6 DEF SetsMeta, SetGraphMeta, nodeVars
<1>7. CASE UNCHANGED vars
  BY <1>1, <1>7 DEF vars, graphVars, nodeVars
<1>8. QED
  BY <1>2, <1>3, <1>4, <1>5, <1>6, <1>7 DEF CarefulNext

\* With a careful client the graph state implements Wiring.
THEOREM ImplementsWiringAlways == CarefulSpec => ImplementsWiring
<1>1. Init => W!Init
  <2> SUFFICES ASSUME Init PROVE W!Init
    OBVIOUS
  <2>1. nodeInfos = EmptyMap /\ edgeInfos = EmptyMap /\ sorter.sortOrder = << >>
    BY DEF Init, EmptySorter
  <2>2. DOMAIN nodeInfos = {} /\ DOMAIN edgeInfos = {}
    BY <2>1 DEF EmptyMap
  <2>3. Wires = [s \in {} |-> {}]
    BY <2>2 DEF Wires
  <2>4. QED
    BY <2>1, <2>2, <2>3 DEF W!Init
<1>2. CarefulInv /\ CarefulInv' /\ [CarefulNext]_vars => [W!Next]_(W!vars)
  BY CarefulStepIsWiring
<1>3. QED
  BY <1>1, <1>2, CarefulInvariant, PTL DEF CarefulSpec, ImplementsWiring, W!Spec
----------------------------------------------------------------------------
(***************************************************************************)
(* What a build finds after the calls of a careful client: the graph is    *)
(* wired and ordered, which the theorems about the pipeline suppose.       *)
(***************************************************************************)
CONSTANT KnownDtype   \* the data types that PipelineBuilder knows

Pipeline == INSTANCE PipelineBuilder

\* What RebuildV2 is given.
Graph ==
  [nodeInfos |-> nodeInfos, slotInfos |-> slotInfos, slotStates |-> slotStates,
   edgeInfos |-> edgeInfos, sortOrder |-> sorter.sortOrder]

\* A graph input or output has one slot.
IoShape(node) ==
  /\ node.ntype = "IN" => node.ins = << >> /\ node.outs = <<"$out">> /\ node.inouts = << >>
  /\ node.ntype = "OUT" => node.ins = <<"$in">> /\ node.outs = << >> /\ node.inouts = << >>

IoShapes == \A n \in DOMAIN nodeInfos : IoShape(nodeInfos[n])

\* The names in one parameter, by access.
LEMMA OneName ==
  ASSUME NEW param \in FuncParam, NEW access
  PROVE  NamesOf(<<param>>, access) = IF param.access = access THEN <<param.name>> ELSE << >>
<1> DEFINE params == <<param>>
           I == {i \in DOMAIN params : params[i].access = access}
           chosen == SortedSeq(I)
<1>1. NamesOf(params, access) = [k \in DOMAIN chosen |-> params[chosen[k]].name]
  BY DEF NamesOf
<1>2. DOMAIN params = {1} /\ params[1] = param
  OBVIOUS
<1>3. CASE param.access = access
  <2>1. I = {1}
    BY <1>2, <1>3
  <2>2. I \in SUBSET Nat /\ IsFiniteSet(I) /\ Cardinality(I) = 1
    <3>1. IsFiniteSet({1}) /\ Cardinality({1}) = 1
      BY FS_Singleton
    <3> HIDE DEF I
    <3>2. QED
      BY <2>1, <3>1
  <2>3. chosen \in [1 .. 1 -> I]
    <3> HIDE DEF I
    <3>1. QED
      BY <2>2, SortedSeqSorts
  <2>4. DOMAIN chosen = {1} /\ chosen[1] = 1
    BY <2>1, <2>3
  <2> HIDE DEF chosen, params
  <2>5. NamesOf(params, access) = [k \in {1} |-> param.name]
    BY <1>1, <1>2, <2>4
  <2>6. [k \in {1} |-> param.name] = <<param.name>>
    OBVIOUS
  <2>7. QED
    BY <2>5, <2>6, <1>3 DEF params
<1>4. CASE param.access # access
  <2>1. I = {}
    BY <1>2, <1>4
  <2>2. I \in SUBSET Nat /\ IsFiniteSet(I) /\ Cardinality(I) = 0
    <3>1. IsFiniteSet({}) /\ Cardinality({}) = 0
      BY FS_EmptySet
    <3> HIDE DEF I
    <3>2. QED
      BY <2>1, <3>1
  <2>3. chosen \in [1 .. 0 -> I]
    <3> HIDE DEF I
    <3>1. QED
      BY <2>2, SortedSeqSorts
  <2>4. DOMAIN chosen = {}
    BY <2>3
  <2> HIDE DEF chosen, params
  <2>5. NamesOf(params, access) = << >>
    BY <1>1, <2>4
  <2>6. QED
    BY <2>5, <1>4 DEF params
<1>5. QED
  BY <1>3, <1>4

\* A call that adds a node adds one of the right shape.
LEMMA AddsNodeShapes ==
  ASSUME IoShapes, AddsNode
  PROVE  IoShapes'
<1> DEFINE Added(ntype, params) ==
             [ntype |-> ntype, ins |-> NamesOf(params, "I"), outs |-> NamesOf(params, "O"),
              inouts |-> NamesOf(params, "M")]
<1>1. ASSUME NEW override, NEW ntype, NEW uri, NEW params,
             IoShape(Added(ntype, params)), AddNodeWithId(override, ntype, uri, params)
      PROVE  IoShapes'
  <2>1. nodeInfos' = nodeInfos \/ \E id : InsertNode(id, ntype, uri, params)
    BY <1>1 DEF AddNodeWithId, nodeVars
  <2>2. ASSUME NEW id, InsertNode(id, ntype, uri, params), NEW n \in DOMAIN nodeInfos'
        PROVE  IoShape(nodeInfos'[n])
    <3>1. \/ n = id /\ nodeInfos'[n] =
                [ntype |-> ntype, uri |-> uri, ins |-> NamesOf(params, "I"),
                 outs |-> NamesOf(params, "O"), inouts |-> NamesOf(params, "M")]
          \/ n \in DOMAIN nodeInfos /\ nodeInfos'[n] = nodeInfos[n]
      BY <2>2 DEF InsertNode, Put
    <3>2. QED
      BY <3>1, <1>1 DEF IoShape, IoShapes
  <2>3. QED
    BY <2>1, <2>2 DEF IoShapes
<1>2. ASSUME NEW override, NEW uri, AddFuncNode(uri, override) PROVE IoShapes'
  <2>1. nodeInfos' = nodeInfos \/ AddNodeWithId(override, "FN", uri, Registry[uri])
    BY <1>2 DEF AddFuncNode, Fail, graphVars, nodeVars
  <2>2. IoShape(Added("FN", Registry[uri]))
    BY DEF IoShape
  <2> HIDE DEF Added
  <2>3. QED
    BY <2>1, <2>2, <1>1 DEF IoShapes
<1>3. ASSUME NEW override, NEW dtype \in Dtype, NEW isOutput \in BOOLEAN,
             AddIONode(dtype, isOutput, override)
      PROVE  IoShapes'
  <2> DEFINE param == [name |-> IF isOutput THEN "$in" ELSE "$out",
                       dtype |-> dtype, access |-> IF isOutput THEN "I" ELSE "O"]
             ntype == IF isOutput THEN "OUT" ELSE "IN"
             uri == <<IF isOutput THEN "$OUT" ELSE "$IN", dtype>>
  <2>1. AddNodeWithId(override, ntype, uri, <<param>>)
    BY <1>3 DEF AddIONode
  <2>2. param \in FuncParam
    BY BuilderAssumption DEF FuncParam, Access
  <2>3. \A access : NamesOf(<<param>>, access) =
                      IF param.access = access THEN <<param.name>> ELSE << >>
    <3> HIDE DEF param
    <3>1. QED
      BY <2>2, OneName
  <2>4. IoShape(Added(ntype, <<param>>))
    BY <2>3 DEF IoShape
  <2> HIDE DEF param, ntype, uri, Added
  <2>5. QED
    BY <2>1, <2>4, <1>1
<1>4. QED
  BY <1>2, <1>3 DEF AddsNode, IoShapes, Fail, graphVars, nodeVars, AddFuncNode

\* The other calls add no nodes and change none.
LEMMA ShapesKept ==
  ASSUME CarefulInv, IoShapes, [CarefulNext]_vars
  PROVE  IoShapes'
<1>1. [IdsKept]_vars
  BY NextInv DEF CarefulInv, CarefulNext, Next
<1> DEFINE Fewer == DOMAIN nodeInfos' \subseteq DOMAIN nodeInfos
<1>2. AddsNode \/ Fewer
  <2>1. ASSUME NEW entries, AddEdges(entries) PROVE Fewer
    BY <2>1 DEF AddEdges, nodeVars
  <2>2. ASSUME NEW nodeIds, NEW edges, DeleteElements(nodeIds, edges) PROVE Fewer
    <3>1. nodeInfos' = Erase(nodeInfos, Entries(nodeIds))
      BY <2>2, Zenon DEF DeleteElements
    <3>2. QED
      BY <3>1 DEF Erase
  <2>3. ASSUME SetsData PROVE Fewer
    BY <2>3 DEF SetsData, SetNodeEncodedData, SetSlotEncodedData, SetGraphInputs,
                ClearGraphInputs, WriteInputs, Fail, graphVars, nodeVars
  <2>4. ASSUME SetsMeta PROVE Fewer
    BY <2>4 DEF SetsMeta, SetGraphMeta, nodeVars
  <2>5. ASSUME UNCHANGED vars PROVE Fewer
    BY <2>5 DEF vars, graphVars, nodeVars
  <2> HIDE DEF Fewer
  <2>6. QED
    BY <2>1, <2>2, <2>3, <2>4, <2>5 DEF CarefulNext
<1>3. ASSUME DOMAIN nodeInfos' \subseteq DOMAIN nodeInfos PROVE IoShapes'
  BY <1>1, <1>3 DEF IdsKept, IoShapes, vars, graphVars, nodeVars
<1>4. QED
  BY <1>2, <1>3, AddsNodeShapes

LEMMA EntriesJoin ==
  ASSUME NEW S, NEW a \in Seq(S), NEW b \in Seq(S)
  PROVE  Entries(a \o b) = Entries(a) \cup Entries(b) /\ a \o b \in Seq(S)
<1>1. /\ Len(a) \in Nat /\ DOMAIN a = 1 .. Len(a) /\ Len(b) \in Nat /\ DOMAIN b = 1 .. Len(b)
      /\ DOMAIN (a \o b) = 1 .. Len(a) + Len(b)
      /\ \A i \in 1 .. Len(a) : (a \o b)[i] = a[i]
      /\ \A i \in 1 .. Len(b) : (a \o b)[Len(a) + i] = b[i]
      /\ a \o b \in Seq(S)
  OBVIOUS
<1> DEFINE c == a \o b
<1> HIDE DEF c
<1>2. /\ \A i \in 1 .. Len(a) : i \in 1 .. Len(a) + Len(b)
      /\ \A i \in 1 .. Len(b) : Len(a) + i \in 1 .. Len(a) + Len(b)
  BY <1>1
<1>3. \A i \in 1 .. Len(a) + Len(b) : i \in 1 .. Len(a) \/ \E k \in 1 .. Len(b) : i = Len(a) + k
  <2> SUFFICES ASSUME NEW i \in 1 .. Len(a) + Len(b), i \notin 1 .. Len(a)
               PROVE  \E k \in 1 .. Len(b) : i = Len(a) + k
    OBVIOUS
  <2>1. i - Len(a) \in 1 .. Len(b) /\ i = Len(a) + (i - Len(a))
    BY <1>1
  <2>2. QED
    BY <2>1
<1>4. (\A i \in 1 .. Len(a) : c[i] = a[i]) /\ \A i \in 1 .. Len(b) : c[Len(a) + i] = b[i]
  BY <1>1 DEF c
<1> DEFINE all == {c[i] : i \in 1 .. Len(a) + Len(b)}
           both == {a[i] : i \in 1 .. Len(a)} \cup {b[i] : i \in 1 .. Len(b)}
<1>6. all = both
  <2>1. ASSUME NEW i \in 1 .. Len(a) + Len(b) PROVE c[i] \in both
    <3>1. CASE i \in 1 .. Len(a)
      BY <3>1, <1>4
    <3>2. CASE \E k \in 1 .. Len(b) : i = Len(a) + k
      BY <3>2, <1>4
    <3>3. QED
      BY <3>1, <3>2, <1>3
  <2>2. both \subseteq all
    BY <1>2, <1>4
  <2>3. QED
    BY <2>1, <2>2
<1>5. QED
  BY <1>1, <1>6 DEF Entries, c

\* What the parts of the invariant say of the graph that a build reads.
LEMMA GraphIsWired ==
  ASSUME CarefulInv, IoShapes
  PROVE  Pipeline!IsGraphState(Graph) /\ Pipeline!IsWired(Graph) /\ Pipeline!Ordered(Graph)
<1> DEFINE order == sorter.sortOrder
<1>1. /\ Graph.nodeInfos = nodeInfos /\ Graph.slotInfos = slotInfos
      /\ Graph.slotStates = slotStates /\ Graph.edgeInfos = edgeInfos /\ Graph.sortOrder = order
  BY DEF Graph
<1>2. /\ TypeOK /\ SlotsMatchNodes /\ SlotIndexSound /\ EdgesHaveEnds
      /\ Nodes(sorter) = DOMAIN nodeInfos /\ EdgesOf(sorter) = Pairs /\ SorterInv(sorter, NodeId)
  BY DEF CarefulInv, GraphInv, EdgesAreMirrored
<1>3. NodeId \subseteq Nat /\ EdgeId \subseteq Nat /\ IsFiniteSet(EdgeId)
  BY BuilderAssumption, FS_Interval DEF NodeId, EdgeId
<1>4. /\ order \in Seq(NodeId)
      /\ \A i \in DOMAIN order : order[i] \in Nodes(sorter) /\ sorter.pos[order[i]] = i
      /\ \A n \in Nodes(sorter) : sorter.pos[n] \in DOMAIN order /\ order[sorter.pos[n]] = n
  BY <1>2 DEF SorterInv, PosInverts, IsSorter
<1>5. {order[i] : i \in DOMAIN order} = DOMAIN nodeInfos
  BY <1>2, <1>4, ZenonT(30)
<1>6. ASSUME NEW n \in DOMAIN nodeInfos
      PROVE  /\ nodeInfos[n].ntype \in {"FN", "IN", "OUT"}
             /\ nodeInfos[n].ins \in Seq(STRING) /\ nodeInfos[n].outs \in Seq(STRING)
             /\ nodeInfos[n].inouts \in Seq(STRING)
  BY <1>2, <1>6 DEF TypeOK, NodeInfo
<1>7. DOMAIN edgeInfos \subseteq Nat /\ IsFiniteSet(DOMAIN edgeInfos)
  <2>1. DOMAIN edgeInfos \subseteq EdgeId
    BY <1>2 DEF TypeOK
  <2>2. IsFiniteSet(DOMAIN edgeInfos)
    BY <2>1, <1>3, FS_Subset
  <2>3. QED
    BY <2>1, <2>2, <1>3
<1> HIDE DEF order
<1>8. Pipeline!IsGraphState(Graph)
  <2>1. order \in Seq(Nat)
    <3>1. /\ Len(order) \in Nat /\ DOMAIN order = 1 .. Len(order)
          /\ \A i \in 1 .. Len(order) : order[i] \in NodeId
      <4>1. order \in Seq(NodeId)
        BY <1>4
      <4>2. QED
        BY <4>1
    <3>2. order = [i \in 1 .. Len(order) |-> order[i]]
      BY <1>4
    <3>3. \A i \in 1 .. Len(order) : order[i] \in Nat
      BY <3>1, <1>3
    <3>4. QED
      BY <3>1, <3>2, <3>3
  <2>2. DOMAIN nodeInfos \subseteq Pipeline!Entries(order)
    BY <1>5 DEF Pipeline!Entries
  <2>3. \A n \in DOMAIN nodeInfos :
          /\ nodeInfos[n].ntype \in {"FN", "IN", "OUT"}
          /\ {nodeInfos[n].ins, nodeInfos[n].outs, nodeInfos[n].inouts} \subseteq Seq(STRING)
    BY <1>6
  <2>4. DOMAIN Graph.nodeInfos \subseteq Pipeline!Entries(Graph.sortOrder) /\ Graph.sortOrder \in Seq(Nat)
    BY <2>1, <2>2, <1>1
  <2>5. ASSUME NEW n \in DOMAIN Graph.nodeInfos
        PROVE  /\ Graph.nodeInfos[n].ntype \in {"FN", "IN", "OUT"}
               /\ {Graph.nodeInfos[n].ins, Graph.nodeInfos[n].outs, Graph.nodeInfos[n].inouts}
                    \subseteq Seq(STRING)
    BY <2>3, <1>1
  <2>6. DOMAIN Graph.edgeInfos \subseteq Nat /\ IsFiniteSet(DOMAIN Graph.edgeInfos)
    BY <1>1, <1>7
  <2>7. Pipeline!IsFiniteSet(DOMAIN Graph.edgeInfos)
    BY <2>6 DEF IsFiniteSet, Pipeline!IsFiniteSet
  <2>8. QED
    BY <2>4, <2>5, <2>6, <2>7, Zenon DEF Pipeline!IsGraphState
<1>9. ASSUME NEW n \in DOMAIN nodeInfos
      PROVE  Entries(Pipeline!SlotNames(Graph, n)) =
               Entries(nodeInfos[n].ins) \cup Entries(nodeInfos[n].outs) \cup Entries(nodeInfos[n].inouts)
  <2>1. Pipeline!SlotNames(Graph, n) = nodeInfos[n].ins \o nodeInfos[n].outs \o nodeInfos[n].inouts
    BY <1>1 DEF Pipeline!SlotNames
  <2> DEFINE a == nodeInfos[n].ins
             b == nodeInfos[n].outs
             c == nodeInfos[n].inouts
             ab == a \o b
  <2>2. a \in Seq(STRING) /\ b \in Seq(STRING) /\ c \in Seq(STRING)
    BY <1>6
  <2> HIDE DEF a, b, c
  <2>3. Entries(a \o b) = Entries(a) \cup Entries(b) /\ a \o b \in Seq(STRING)
    BY <2>2, EntriesJoin
  <2> HIDE DEF ab
  <2>4. ab \in Seq(STRING)
    BY <2>3 DEF ab
  <2>5. Entries(ab \o c) = Entries(ab) \cup Entries(c)
    BY <2>2, <2>4, EntriesJoin
  <2>6. QED
    BY <2>1, <2>3, <2>5 DEF a, b, c, ab
<1>10. Pipeline!IsWired(Graph)
  <2>1. \A i, j \in DOMAIN order : order[i] = order[j] => i = j
    BY <1>4
  <2>2. DOMAIN slotStates =
          UNION {{<<n, x>> : x \in Entries(Pipeline!SlotNames(Graph, n))} : n \in DOMAIN nodeInfos}
    <3>1. \A n \in DOMAIN nodeInfos :
            SlotsOf(n) = {<<n, x>> : x \in Entries(Pipeline!SlotNames(Graph, n))}
      BY <1>9 DEF SlotsOf
    <3>2. QED
      BY <3>1, <1>2 DEF SlotsMatchNodes
  <2>3. ASSUME NEW n \in DOMAIN nodeInfos
        PROVE  /\ Entries(nodeInfos[n].ins) \cap Entries(nodeInfos[n].outs) = {}
               /\ \A x \in Entries(Pipeline!SlotNames(Graph, n)) :
                    slotInfos[<<n, x>>].access = "O" <=> x \in Entries(nodeInfos[n].outs)
    <3>1. /\ \A name \in Entries(nodeInfos[n].ins) : slotInfos[<<n, name>>].access = "I"
          /\ \A name \in Entries(nodeInfos[n].outs) : slotInfos[<<n, name>>].access = "O"
          /\ \A name \in Entries(nodeInfos[n].inouts) : slotInfos[<<n, name>>].access = "M"
      BY <1>2 DEF SlotsMatchNodes
    <3>2. QED
      BY <3>1, <1>9
  <2>4. ASSUME NEW e \in DOMAIN edgeInfos
        PROVE  /\ {SourceOf(edgeInfos[e]), TargetOf(edgeInfos[e])} \subseteq DOMAIN slotStates
               /\ slotStates[TargetOf(edgeInfos[e])].inEdges = {e}
    <3>1. /\ {SourceOf(edgeInfos[e]), TargetOf(edgeInfos[e])} \subseteq DOMAIN slotStates
          /\ e \in slotStates[TargetOf(edgeInfos[e])].inEdges
      BY <1>2 DEF EdgesHaveEnds
    <3>2. \A d \in slotStates[TargetOf(edgeInfos[e])].inEdges : d = e
      BY <3>1, <1>2 DEF SlotIndexSound
    <3>3. QED
      BY <3>1, <3>2
  <2>5. \A n \in DOMAIN nodeInfos : IoShape(nodeInfos[n])
    BY DEF IoShapes
  <2>6. /\ \A e : Pipeline!From(edgeInfos[e]) = SourceOf(edgeInfos[e])
        /\ \A e : Pipeline!To(edgeInfos[e]) = TargetOf(edgeInfos[e])
        /\ \A q : Pipeline!Entries(q) = Entries(q)
    BY DEF Pipeline!From, Pipeline!To, SourceOf, TargetOf, Pipeline!Entries, Entries
  <2>7. QED
    BY <1>1, <2>1, <2>2, <2>3, <2>4, <2>5, <2>6 DEF Pipeline!IsWired, IoShape
<1>11. Pipeline!Ordered(Graph)
  <2>1. Pipeline!Entries(order) = DOMAIN nodeInfos
    BY <1>5 DEF Pipeline!Entries
  <2>2. ASSUME NEW i \in DOMAIN order, NEW j \in DOMAIN order,
               NEW e \in DOMAIN edgeInfos, edgeInfos[e].node0 = order[i], edgeInfos[e].node1 = order[j]
        PROVE  i < j
    <3>1. <<order[i], order[j]>> \in EdgesOf(sorter)
      BY <2>2, <1>2 DEF Pairs
    <3>2. order[i] \in Nodes(sorter) /\ order[j] \in sorter.outAdj[order[i]]
      BY <3>1 DEF EdgesOf
    <3>3. sorter.pos[order[i]] < sorter.pos[order[j]]
      BY <3>2, <1>2 DEF SorterInv, Topological
    <3>4. QED
      BY <3>3, <1>4
  <2>3. QED
    BY <1>1, <2>1, <2>2 DEF Pipeline!Ordered, Pipeline!Depends
<1>12. QED
  BY <1>8, <1>10, <1>11

\* Whatever a careful client does, the graph that a build reads is wired and
\* ordered as the theorems about the pipeline suppose: slots, nodes and edges
\* agree, a slot has one edge inwards, and sortOrder lists every node once,
\* behind all those it depends on.
THEOREM GraphIsWiredAlways ==
  CarefulSpec => [](Pipeline!IsGraphState(Graph) /\ Pipeline!IsWired(Graph) /\ Pipeline!Ordered(Graph))
<1>1. Init => CarefulInv /\ IoShapes
  BY CarefulInitInv DEF Init, EmptyMap, IoShapes
<1>2. (CarefulInv /\ IoShapes) /\ [CarefulNext]_vars => (CarefulInv /\ IoShapes)'
  BY CarefulNextInv, ShapesKept
<1>3. CarefulInv /\ IoShapes =>
        Pipeline!IsGraphState(Graph) /\ Pipeline!IsWired(Graph) /\ Pipeline!Ordered(Graph)
  BY GraphIsWired
<1>4. QED
  BY <1>1, <1>2, <1>3, PTL DEF CarefulSpec

----------------------------------------------------------------------------
(***************************************************************************)
(* A careful client that also heeds the answers it gets, as the editor of  *)
(* System: it gives no id that is in use and none above the counters,      *)
(* draws edges one at a time, from outputs to other slots of the same      *)
(* type, and enters no data for what a function computes.  No call of it   *)
(* is refused, and the graph has what the pipeline needs beyond wiring.    *)
(***************************************************************************)

\* No id, or one that was given once and is free now.
FreeIds(used, last) == {NoOverride} \cup ((1 .. last) \ used)

EditorCreates ==
  \E override \in FreeIds(DOMAIN nodeInfos, lastNodeId) :
    \/ \E uri \in DOMAIN Registry : AddFuncNode(uri, override)
    \/ \E dtype \in Dtype, isOutput \in BOOLEAN : AddIONode(dtype, isOutput, override)

EditorConnects ==
  \E src, dst \in DOMAIN slotInfos : \E edgeId \in FreeIds(DOMAIN edgeInfos, lastEdgeId) :
    LET entry == [node0 |-> src[1], slot0 |-> src[2], node1 |-> dst[1], slot1 |-> dst[2],
                  edgeId |-> edgeId]
    IN  /\ slotInfos[src].access = "O" /\ slotInfos[dst].access # "O"
        /\ ValidateEdge(src, dst) \in {"VALID", "WARN_DATA"}
        /\ WellFormed(<<entry>>) /\ <<entry>> \in Batches
        /\ AddEdges(<<entry>>)

EditorDeletes ==
  \E nodes \in SUBSET NodeId, edges \in SUBSET EdgeId :
    EdgesAt(nodes) \subseteq edges /\ DeleteElements(SortedSeq(nodes), edges)

EditorEntersData ==
  \E slot \in DOMAIN slotInfos, data \in Data :
    /\ nodeInfos[slot[1]].ntype = "FN" => slotInfos[slot].access # "O"
    /\ SetSlotEncodedData(slot, data)

EditorSetsMeta ==
  \E n \in NodeId \cup {0}, e \in EdgeId \cup {0} : nodeInfos = EmptyMap /\ SetGraphMeta(n, e)

EditorNext ==
  EditorCreates \/ EditorConnects \/ EditorDeletes \/ EditorEntersData \/ EditorSetsMeta

AreMaps ==
  /\ nodeInfos = [n \in DOMAIN nodeInfos |-> nodeInfos[n]]
  /\ slotInfos = [s \in DOMAIN slotInfos |-> slotInfos[s]]
  /\ slotStates = [s \in DOMAIN slotStates |-> slotStates[s]]
  /\ edgeInfos = [e \in DOMAIN edgeInfos |-> edgeInfos[e]]

\* No id was given that the counters have not reached.
IdsCounted ==
  DOMAIN nodeInfos \subseteq 1 .. lastNodeId /\ DOMAIN edgeInfos \subseteq 1 .. lastEdgeId

\* Edges join an output to another slot of its type.
EdgesFit ==
  \A e \in DOMAIN edgeInfos :
    LET src == SourceOf(edgeInfos[e])
        dst == TargetOf(edgeInfos[e])
    IN  /\ slotInfos[src].access = "O" /\ slotInfos[dst].access # "O"
        /\ slotInfos[src].dtype = slotInfos[dst].dtype

\* Functions are registered, and what they compute is not entered.
FunctionsFit ==
  \A n \in DOMAIN nodeInfos : nodeInfos[n].ntype = "FN" =>
    /\ nodeInfos[n].uri \in DOMAIN Registry
    /\ \A y \in Entries(nodeInfos[n].outs) : slotStates[<<n, y>>].encodedData = NoData

\* The types that a client may ask for and that functions have.
UsedTypes ==
  Dtype \cup UNION {{Registry[uri][i].dtype : i \in DOMAIN Registry[uri]} : uri \in DOMAIN Registry}

EditorInv ==
  /\ DOMAIN slotInfos = DOMAIN slotStates
  /\ AreMaps
  /\ IdsCounted
  /\ EdgesFit
  /\ FunctionsFit
  /\ \A s \in DOMAIN slotInfos : slotInfos[s].dtype \in UsedTypes

\* The slots of a node that joins are new, and hold no data.
LEMMA InsertedSlots ==
  ASSUME CarefulInv, EditorInv, NEW id, id \notin DOMAIN nodeInfos,
         NEW ntype, NEW uri, NEW params, GoodParams(params), InsertNode(id, ntype, uri, params)
  PROVE  /\ DOMAIN slotStates' = DOMAIN slotInfos' /\ DOMAIN slotStates \subseteq DOMAIN slotStates'
         /\ \A s \in DOMAIN slotStates : /\ slotStates'[s] = slotStates[s]
                                         /\ slotInfos'[s] = slotInfos[s]
         /\ \A s \in DOMAIN slotStates' \ DOMAIN slotStates :
              /\ slotStates'[s].encodedData = NoData
              /\ \E i \in DOMAIN params : slotInfos'[s].dtype = params[i].dtype
         /\ \A y : <<id, y>> \notin DOMAIN slotStates
<1> DEFINE fresh == {<<id, params[i].name>> : i \in DOMAIN params}
           param == [s \in fresh |-> CHOOSE p \in Entries(params) : p.name = s[2]]
<1>1. /\ slotStates' = [s \in DOMAIN slotStates \cup fresh |->
                          IF s \in fresh THEN NewSlotState ELSE slotStates[s]]
      /\ slotInfos' = [s \in DOMAIN slotInfos \cup fresh |->
                          IF s \in fresh
                          THEN [dtype |-> param[s].dtype, access |-> param[s].access]
                          ELSE slotInfos[s]]
  BY DEF InsertNode
<1>2. \A i \in DOMAIN params : <<id, params[i].name>>[2] = params[i].name
  OBVIOUS
<1>3. \A s \in fresh : s[1] = id /\ \E i \in DOMAIN params : param[s] = params[i]
  <2>1. \A i \in DOMAIN params : <<id, params[i].name>> \in fresh
                                  /\ param[<<id, params[i].name>>] = params[i]
    BY ParamOfSlot, <1>2
  <2>2. \A s \in fresh : \E i \in DOMAIN params : s = <<id, params[i].name>>
    OBVIOUS
  <2> HIDE DEF fresh, param
  <2> SUFFICES ASSUME NEW s \in fresh
               PROVE  s[1] = id /\ \E i \in DOMAIN params : param[s] = params[i]
    OBVIOUS
  <2>3. PICK i \in DOMAIN params : s = <<id, params[i].name>>
    BY <2>2
  <2>4. s[1] = id
    BY <2>3
  <2>5. param[s] = params[i]
    BY <2>1, <2>3
  <2>6. QED
    BY <2>4, <2>5
<1>4. SlotsMatchNodes /\ DOMAIN slotInfos = DOMAIN slotStates
  BY DEF CarefulInv, GraphInv, EditorInv
<1>5. \A s \in DOMAIN slotStates : s[1] \in DOMAIN nodeInfos
  <2> SUFFICES ASSUME NEW s \in DOMAIN slotStates PROVE s[1] \in DOMAIN nodeInfos
    OBVIOUS
  <2>1. PICK n \in DOMAIN nodeInfos : s \in SlotsOf(n)
    BY <1>4 DEF SlotsMatchNodes
  <2>2. QED
    BY <2>1 DEF SlotsOf
<1> HIDE DEF fresh, param
<1>6. \A y : <<id, y>> \notin DOMAIN slotStates
  <2> SUFFICES ASSUME NEW y, <<id, y>> \in DOMAIN slotStates PROVE FALSE
    OBVIOUS
  <2>1. <<id, y>>[1] = id
    OBVIOUS
  <2>2. QED
    BY <2>1, <1>5
<1>7. \A s \in DOMAIN slotStates : s \notin fresh
  BY <1>3, <1>5
<1>8. NewSlotState.encodedData = NoData
  BY DEF NewSlotState
<1>9. DOMAIN slotStates' = DOMAIN slotStates \cup fresh /\ DOMAIN slotInfos' = DOMAIN slotStates \cup fresh
  BY <1>1, <1>4
<1>10. ASSUME NEW s \in DOMAIN slotStates
       PROVE  slotStates'[s] = slotStates[s] /\ slotInfos'[s] = slotInfos[s]
  BY <1>1, <1>4, <1>7
<1>11. ASSUME NEW s \in fresh
       PROVE  /\ slotStates'[s].encodedData = NoData
              /\ \E i \in DOMAIN params : slotInfos'[s].dtype = params[i].dtype
  <2>1. slotStates'[s] = NewSlotState
    BY <1>1
  <2>2. slotInfos'[s].dtype = param[s].dtype
    BY <1>1
  <2>3. QED
    BY <2>1, <2>2, <1>3, <1>8
<1>12. QED
  BY <1>6, <1>9, <1>10, <1>11

LEMMA InsertNodeFits ==
  ASSUME CarefulInv, EditorInv, NEW id \in NodeId, id \notin DOMAIN nodeInfos,
         NEW ntype, NEW uri, NEW params, GoodParams(params), InsertNode(id, ntype, uri, params),
         lastNodeId' \in Nat, lastNodeId <= lastNodeId', id <= lastNodeId',
         ntype = "FN" => uri \in DOMAIN Registry,
         \A i \in DOMAIN params : params[i].dtype \in UsedTypes
  PROVE  EditorInv'
<1> DEFINE info == [ntype |-> ntype, uri |-> uri, ins |-> NamesOf(params, "I"),
                    outs |-> NamesOf(params, "O"), inouts |-> NamesOf(params, "M")]
<1>1. /\ nodeInfos' = [n \in DOMAIN nodeInfos \cup {id} |->
                          IF n = id THEN info ELSE nodeInfos[n]]
      /\ edgeInfos' = edgeInfos /\ lastEdgeId' = lastEdgeId
  BY DEF InsertNode, Put
<1>2. info.ntype = ntype /\ info.uri = uri /\ info.outs = NamesOf(params, "O")
  OBVIOUS
<1> HIDE DEF info
<1>3. /\ DOMAIN slotStates' = DOMAIN slotInfos' /\ DOMAIN slotStates \subseteq DOMAIN slotStates'
      /\ \A s \in DOMAIN slotStates : slotStates'[s] = slotStates[s] /\ slotInfos'[s] = slotInfos[s]
      /\ \A s \in DOMAIN slotStates' \ DOMAIN slotStates :
           /\ slotStates'[s].encodedData = NoData
           /\ \E i \in DOMAIN params : slotInfos'[s].dtype = params[i].dtype
      /\ \A y : <<id, y>> \notin DOMAIN slotStates
  BY InsertedSlots
<1>4. /\ TypeOK /\ SlotsMatchNodes /\ EdgesHaveEnds
      /\ DOMAIN slotInfos = DOMAIN slotStates /\ AreMaps /\ IdsCounted /\ EdgesFit /\ FunctionsFit
  BY DEF CarefulInv, GraphInv, EdgesAreMirrored, EditorInv
<1>5. AreMaps'
  <2>1. slotStates' = [s \in DOMAIN slotStates' |-> slotStates'[s]]
    BY DEF InsertNode
  <2>2. slotInfos' = [s \in DOMAIN slotInfos' |-> slotInfos'[s]]
    BY DEF InsertNode
  <2>3. nodeInfos' = [n \in DOMAIN nodeInfos' |-> nodeInfos'[n]]
    BY <1>1
  <2>4. QED
    BY <2>1, <2>2, <2>3, <1>1, <1>4 DEF AreMaps
<1>6. IdsCounted'
  <2>1. lastNodeId \in Nat /\ id \in Nat /\ 1 <= id
    BY <1>4, BuilderAssumption DEF TypeOK, NodeId
  <2>2. DOMAIN nodeInfos' = DOMAIN nodeInfos \cup {id}
    BY <1>1
  <2>3. ASSUME NEW n \in DOMAIN nodeInfos PROVE n \in 1 .. lastNodeId'
    <3>1. n \in 1 .. lastNodeId
      BY <1>4 DEF IdsCounted
    <3>2. QED
      BY <3>1, <2>1
  <2>4. id \in 1 .. lastNodeId'
    BY <2>1
  <2>5. QED
    BY <2>2, <2>3, <2>4, <1>1, <1>4 DEF IdsCounted
<1>7. EdgesFit'
  <2> SUFFICES ASSUME NEW e \in DOMAIN edgeInfos
               PROVE  LET src == SourceOf(edgeInfos[e])
                          dst == TargetOf(edgeInfos[e])
                      IN  /\ slotInfos'[src].access = "O" /\ slotInfos'[dst].access # "O"
                          /\ slotInfos'[src].dtype = slotInfos'[dst].dtype
    BY <1>1 DEF EdgesFit, SourceOf, TargetOf
  <2>1. {SourceOf(edgeInfos[e]), TargetOf(edgeInfos[e])} \subseteq DOMAIN slotStates
    BY <1>4 DEF EdgesHaveEnds
  <2>2. QED
    BY <2>1, <1>3, <1>4 DEF EdgesFit
<1>8. FunctionsFit'
  <2> SUFFICES ASSUME NEW n \in DOMAIN nodeInfos', nodeInfos'[n].ntype = "FN"
               PROVE  /\ nodeInfos'[n].uri \in DOMAIN Registry
                      /\ \A y \in Entries(nodeInfos'[n].outs) : slotStates'[<<n, y>>].encodedData = NoData
    BY DEF FunctionsFit
  <2>1. CASE n = id
    <3>1. nodeInfos'[n] = info
      BY <2>1, <1>1
    <3>2. ASSUME NEW y \in Entries(info.outs) PROVE slotStates'[<<n, y>>].encodedData = NoData
      <4>1. <<id, y>> \in DOMAIN slotStates'
        <5>1. PICK i \in DOMAIN params : params[i].name = y
          BY <1>2, NamesOfFacts
        <5>2. <<id, y>> \in {<<id, params[k].name>> : k \in DOMAIN params}
          BY <5>1
        <5>3. QED
          BY <5>2 DEF InsertNode
      <4>2. QED
        BY <4>1, <1>3, <2>1
    <3>3. QED
      BY <3>1, <3>2, <1>2
  <2>2. CASE n \in DOMAIN nodeInfos /\ n # id
    <3>1. nodeInfos'[n] = nodeInfos[n]
      BY <2>2, <1>1
    <3>2. ASSUME NEW y \in Entries(nodeInfos[n].outs) PROVE <<n, y>> \in DOMAIN slotStates
      <4>1. <<n, y>> \in SlotsOf(n)
        BY DEF SlotsOf
      <4>2. QED
        BY <4>1, <2>2, <1>4 DEF SlotsMatchNodes
    <3>3. QED
      BY <3>1, <3>2, <2>2, <1>3, <1>4 DEF FunctionsFit
  <2>3. QED
    BY <2>1, <2>2, <1>1
<1>9. ASSUME NEW s \in DOMAIN slotInfos' PROVE slotInfos'[s].dtype \in UsedTypes
  BY <1>3, <1>9 DEF EditorInv
<1>10. QED
  BY <1>3, <1>5, <1>6, <1>7, <1>8, <1>9 DEF EditorInv

\* The editor's ids are new and within the counters, so it is not refused.
LEMMA CreateNodeFits ==
  ASSUME CarefulInv, EditorInv, NEW override \in FreeIds(DOMAIN nodeInfos, lastNodeId),
         NEW ntype, NEW uri, NEW params, GoodParams(params),
         AddNodeWithId(override, ntype, uri, params),
         ntype = "FN" => uri \in DOMAIN Registry,
         \A i \in DOMAIN params : params[i].dtype \in UsedTypes
  PROVE  EditorInv' /\ ok'
<1> DEFINE id == IF override = NoOverride THEN lastNodeId + 1 ELSE override
<1>1. /\ id \in NodeId
      /\ lastNodeId' = IF override = NoOverride THEN id ELSE lastNodeId
      /\ id \in DOMAIN nodeInfos \/ InsertNode(id, ntype, uri, params)
  BY DEF AddNodeWithId
<1>2. lastNodeId \in Nat /\ DOMAIN nodeInfos \subseteq 1 .. lastNodeId
  BY BuilderAssumption DEF CarefulInv, GraphInv, TypeOK, EditorInv, IdsCounted, NodeId
<1>3. override = NoOverride \/ (override \in 1 .. lastNodeId /\ override \notin DOMAIN nodeInfos
                                  /\ override # NoOverride)
  BY <1>2 DEF FreeIds, NoOverride
<1>4. id \notin DOMAIN nodeInfos
  BY <1>2, <1>3
<1>5. lastNodeId' \in Nat /\ lastNodeId <= lastNodeId' /\ id <= lastNodeId'
  BY <1>1, <1>2, <1>3
<1> HIDE DEF id
<1>6. EditorInv'
  BY <1>1, <1>4, <1>5, InsertNodeFits
<1>7. QED
  BY <1>1, <1>4, <1>6 DEF InsertNode

LEMMA EditorCreatesFits ==
  ASSUME CarefulInv, EditorInv, EditorCreates
  PROVE  EditorInv' /\ ok'
<1> PICK override \in FreeIds(DOMAIN nodeInfos, lastNodeId) :
      \/ \E uri \in DOMAIN Registry : AddFuncNode(uri, override)
      \/ \E dtype \in Dtype, isOutput \in BOOLEAN : AddIONode(dtype, isOutput, override)
  BY DEF EditorCreates
<1>1. ASSUME NEW uri \in DOMAIN Registry, AddFuncNode(uri, override) PROVE EditorInv' /\ ok'
  <2>1. AddNodeWithId(override, "FN", uri, Registry[uri])
    BY <1>1 DEF AddFuncNode
  <2>2. GoodParams(Registry[uri])
    BY BuilderAssumption DEF GoodParams
  <2>3. \A i \in DOMAIN Registry[uri] : Registry[uri][i].dtype \in UsedTypes
    BY DEF UsedTypes
  <2>4. QED
    BY <2>1, <2>2, <2>3, CreateNodeFits
<1>2. ASSUME NEW dtype \in Dtype, NEW isOutput \in BOOLEAN, AddIONode(dtype, isOutput, override)
      PROVE  EditorInv' /\ ok'
  <2> DEFINE param == [name |-> IF isOutput THEN "$in" ELSE "$out",
                       dtype |-> dtype, access |-> IF isOutput THEN "I" ELSE "O"]
             ntype == IF isOutput THEN "OUT" ELSE "IN"
             uri == <<IF isOutput THEN "$OUT" ELSE "$IN", dtype>>
  <2>1. AddNodeWithId(override, ntype, uri, <<param>>)
    BY <1>2 DEF AddIONode
  <2>2. param \in FuncParam
    BY BuilderAssumption DEF FuncParam, Access
  <2>3. ntype # "FN" /\ param.dtype = dtype
    OBVIOUS
  <2> HIDE DEF param, ntype, uri
  <2>4. DOMAIN <<param>> = {1} /\ <<param>>[1] = param /\ <<param>> \in Seq(FuncParam)
    BY <2>2
  <2>5. GoodParams(<<param>>)
    BY <2>4 DEF GoodParams
  <2>6. \A i \in DOMAIN <<param>> : <<param>>[i].dtype \in UsedTypes
    BY <2>3, <2>4 DEF UsedTypes
  <2>7. QED
    BY <2>1, <2>3, <2>5, <2>6, CreateNodeFits
<1>3. QED
  BY <1>1, <1>2

\* The slots of the graph stand for its nodes.
LEMMA SlotsHaveNodes ==
  ASSUME SlotsMatchNodes, NEW s \in DOMAIN slotStates
  PROVE  s[1] \in DOMAIN nodeInfos /\ s \in SlotsOf(s[1])
<1>1. PICK n \in DOMAIN nodeInfos : s \in SlotsOf(n)
  BY DEF SlotsMatchNodes
<1>2. s[1] = n
  BY <1>1 DEF SlotsOf
<1>3. QED
  BY <1>1, <1>2

\* The edge it draws is added.
LEMMA EditorConnectsFits ==
  ASSUME CarefulInv, EditorInv, EditorConnects
  PROVE  EditorInv' /\ ok'
<1> PICK src \in DOMAIN slotInfos, dst \in DOMAIN slotInfos,
         edgeId \in FreeIds(DOMAIN edgeInfos, lastEdgeId) :
      LET entry == [node0 |-> src[1], slot0 |-> src[2], node1 |-> dst[1], slot1 |-> dst[2],
                    edgeId |-> edgeId]
      IN  /\ slotInfos[src].access = "O" /\ slotInfos[dst].access # "O"
          /\ ValidateEdge(src, dst) \in {"VALID", "WARN_DATA"}
          /\ AddEdges(<<entry>>)
  BY DEF EditorConnects
<1> DEFINE entry == [node0 |-> src[1], slot0 |-> src[2], node1 |-> dst[1], slot1 |-> dst[2],
                     edgeId |-> edgeId]
           id == IF edgeId = NoOverride THEN lastEdgeId + 1 ELSE edgeId
           counted == [Batch EXCEPT !.lastEdgeId = IF edgeId = NoOverride THEN id ELSE @]
           edge == [node0 |-> src[1], slot0 |-> src[2], node1 |-> dst[1], slot1 |-> dst[2]]
<1>1. /\ slotInfos[src].access = "O" /\ slotInfos[dst].access # "O"
      /\ ValidateEdge(src, dst) \in {"VALID", "WARN_DATA"}
      /\ AddEdges(<<entry>>)
  OBVIOUS
<1>2. /\ TypeOK /\ SlotsMatchNodes /\ SlotIndexSound /\ EdgesHaveEnds
      /\ DOMAIN slotInfos = DOMAIN slotStates /\ AreMaps /\ IdsCounted /\ EdgesFit /\ FunctionsFit
  BY DEF CarefulInv, GraphInv, EdgesAreMirrored, EditorInv
<1>3. src \in Slot /\ dst \in Slot
  BY <1>2 DEF TypeOK
<1>4. SourceOf(entry) = src /\ TargetOf(entry) = dst /\ SourceOf(edge) = src /\ TargetOf(edge) = dst
  BY <1>3 DEF SourceOf, TargetOf, Slot
<1>5. EndsFound(entry)
  <2>1. src[1] \in DOMAIN nodeInfos /\ dst[1] \in DOMAIN nodeInfos
    BY <1>2, SlotsHaveNodes
  <2>2. DOMAIN nodeStates = DOMAIN nodeInfos
    BY <1>2 DEF TypeOK
  <2>3. QED
    BY <2>1, <2>2, <1>2, <1>4 DEF EndsFound
<1>6. slotInfos[src].dtype = slotInfos[dst].dtype /\ slotStates[dst].inEdges = {}
  BY <1>1, <1>2 DEF ValidateEdge
<1>7. lastEdgeId \in Nat /\ DOMAIN edgeInfos \subseteq 1 .. lastEdgeId
  BY <1>2, BuilderAssumption DEF TypeOK, IdsCounted, EdgeId
<1>8. /\ id \notin DOMAIN edgeInfos /\ id \in Nat /\ 1 <= id
      /\ IF edgeId = NoOverride THEN id = lastEdgeId + 1 ELSE id <= lastEdgeId
  <2>1. edgeId = NoOverride \/ (edgeId \in 1 .. lastEdgeId /\ edgeId \notin DOMAIN edgeInfos
                                  /\ edgeId # NoOverride)
    BY <1>7 DEF FreeIds, NoOverride
  <2>2. QED
    BY <2>1, <1>7
<1>9. AfterEntry(<<entry>>)[Len(<<entry>>)] = AddEntry(Batch, entry)
  <2> DEFINE one == <<entry>>
  <2>1. Len(one) = 1 /\ one[1] = entry
    OBVIOUS
  <2> HIDE DEF one, entry
  <2>2. AfterEntry(one) = [i \in 0 .. 1 |-> IF i = 0 THEN Batch ELSE AddEntry(AfterEntry(one)[i - 1], one[i])]
    BY <2>1, AfterEntryUnfolds, SMTT(30)
  <2>3. 0 \in 0 .. 1 /\ 1 \in 0 .. 1 /\ 1 - 1 = 0
    OBVIOUS
  <2>4. AfterEntry(one)[0] = Batch
    BY <2>2, <2>3
  <2>5. AfterEntry(one)[1] = AddEntry(Batch, entry)
    BY <2>2, <2>3, <2>4, <2>1
  <2>6. QED
    BY <2>1, <2>5 DEF one
<1>10. /\ Batch.ok = TRUE /\ Batch.slotStates = slotStates /\ Batch.edgeInfos = edgeInfos
       /\ Batch.lastEdgeId = lastEdgeId /\ Batch.sorter = sorter
  BY DEF Batch
<1>11. AddEntry(Batch, entry) = Connect(counted, id, entry)
  <2>1. entry.edgeId = edgeId
    OBVIOUS
  <2>2. Batch.slotStates[TargetOf(entry)].inEdges = {}
    BY <1>4, <1>6, <1>10
  <2> HIDE DEF entry
  <2>3. QED
    BY <2>1, <2>2, <1>5, <1>8, <1>10 DEF AddEntry
<1>12. /\ counted.edgeInfos = edgeInfos /\ counted.slotStates = slotStates
       /\ counted.lastEdgeId = IF edgeId = NoOverride THEN id ELSE lastEdgeId
  BY <1>10 DEF Batch
<1> DEFINE c == Connect(counted, id, entry)
<1>13. /\ c.ok = TRUE /\ c.lastEdgeId = counted.lastEdgeId
       /\ c.edgeInfos = Put(counted.edgeInfos, id, edge)
       /\ c.slotStates = [s \in DOMAIN counted.slotStates |->
                         [inEdges  |-> counted.slotStates[s].inEdges \cup IF s = TargetOf(entry) THEN {id} ELSE {},
                          outEdges |-> counted.slotStates[s].outEdges \cup IF s = SourceOf(entry) THEN {id} ELSE {},
                          encodedData |-> counted.slotStates[s].encodedData]]
  <2> HIDE DEF counted, id
  <2>1. QED
    BY DEF Connect
<1>14. /\ ok' = c.ok /\ lastEdgeId' = c.lastEdgeId /\ edgeInfos' = c.edgeInfos
       /\ slotStates' = c.slotStates
       /\ nodeInfos' = nodeInfos /\ slotInfos' = slotInfos /\ lastNodeId' = lastNodeId
  <2> HIDE DEF c, entry, counted, id
  <2>1. AddEdges(<<entry>>)
    BY <1>1
  <2>2. QED
    BY <2>1, <1>9, <1>11 DEF AddEdges, nodeVars, c
<1> HIDE DEF c, counted, entry, id, edge
<1>15. /\ ok' = TRUE
       /\ lastEdgeId' = IF edgeId = NoOverride THEN id ELSE lastEdgeId
       /\ edgeInfos' = [k \in DOMAIN edgeInfos \cup {id} |-> IF k = id THEN edge ELSE edgeInfos[k]]
       /\ DOMAIN slotStates' = DOMAIN slotStates
       /\ slotStates' = [s \in DOMAIN slotStates' |-> slotStates'[s]]
       /\ \A s \in DOMAIN slotStates : slotStates'[s].encodedData = slotStates[s].encodedData
  BY <1>12, <1>13, <1>14 DEF Put
<1>16. AreMaps'
  <2>1. edgeInfos' = [e \in DOMAIN edgeInfos' |-> edgeInfos'[e]]
    BY <1>15
  <2>2. QED
    BY <2>1, <1>2, <1>14, <1>15 DEF AreMaps
<1>17. IdsCounted'
  <2>1. lastEdgeId' \in Nat /\ id \in 1 .. lastEdgeId' /\ lastEdgeId <= lastEdgeId'
    BY <1>7, <1>8, <1>15
  <2>2. DOMAIN edgeInfos' = DOMAIN edgeInfos \cup {id}
    BY <1>15
  <2>3. \A e \in DOMAIN edgeInfos : e \in 1 .. lastEdgeId'
    BY <2>1, <1>7
  <2>4. QED
    BY <2>1, <2>2, <2>3, <1>2, <1>14 DEF IdsCounted
<1>18. EdgesFit'
  <2> SUFFICES ASSUME NEW e \in DOMAIN edgeInfos'
               PROVE  LET s == SourceOf(edgeInfos'[e])
                          t == TargetOf(edgeInfos'[e])
                      IN  /\ slotInfos[s].access = "O" /\ slotInfos[t].access # "O"
                          /\ slotInfos[s].dtype = slotInfos[t].dtype
    BY <1>14 DEF EdgesFit, SourceOf, TargetOf
  <2>1. CASE e = id
    BY <2>1, <1>1, <1>4, <1>6, <1>15
  <2>2. CASE e \in DOMAIN edgeInfos /\ e # id
    <3>1. edgeInfos'[e] = edgeInfos[e]
      BY <2>2, <1>15
    <3>2. QED
      BY <3>1, <2>2, <1>2 DEF EdgesFit
  <2>3. QED
    BY <2>1, <2>2, <1>15
<1>19. FunctionsFit'
  <2>1. \A n \in DOMAIN nodeInfos : \A y \in Entries(nodeInfos[n].outs) : <<n, y>> \in DOMAIN slotStates
    BY <1>2 DEF SlotsMatchNodes, SlotsOf
  <2>2. QED
    BY <2>1, <1>2, <1>14, <1>15 DEF FunctionsFit
<1>20. QED
  BY <1>2, <1>14, <1>15, <1>16, <1>17, <1>18, <1>19 DEF EditorInv

LEMMA EditorDeletesFits ==
  ASSUME CarefulInv, EditorInv, EditorDeletes
  PROVE  EditorInv' /\ ok'
<1> PICK nodes \in SUBSET NodeId, edges \in SUBSET EdgeId :
      EdgesAt(nodes) \subseteq edges /\ DeleteElements(SortedSeq(nodes), edges)
  BY DEF EditorDeletes
<1> DEFINE deleted == edges \cap DOMAIN edgeInfos
           slots == {s \in DOMAIN slotInfos : s[1] \in nodes}
           kept(s) == [slotStates[s] EXCEPT
                         !.inEdges  = @ \ {e \in deleted : TargetOf(edgeInfos[e]) = s},
                         !.outEdges = @ \ {e \in deleted : SourceOf(edgeInfos[e]) = s}]
<1>1. Entries(SortedSeq(nodes)) = nodes
  BY SortedNodes
<1>2. /\ nodeInfos' = Erase(nodeInfos, nodes)
      /\ slotInfos' = Erase(slotInfos, slots)
      /\ edgeInfos' = Erase(edgeInfos, deleted)
      /\ slotStates' = [s \in DOMAIN slotStates \ slots |-> kept(s)]
      /\ ok' = TRUE
      /\ lastNodeId' = lastNodeId /\ lastEdgeId' = lastEdgeId
  <2> DEFINE sq == SortedSeq(nodes)
  <2>1. DeleteElements(sq, edges) /\ Entries(sq) = nodes
    BY <1>1
  <2> HIDE DEF sq
  <2>2. /\ nodeInfos' = Erase(nodeInfos, Entries(sq))
        /\ slotInfos' = Erase(slotInfos, {s \in DOMAIN slotInfos : s[1] \in Entries(sq)})
        /\ edgeInfos' = Erase(edgeInfos, deleted)
        /\ slotStates' = [s \in DOMAIN slotStates \ {x \in DOMAIN slotInfos : x[1] \in Entries(sq)}
                            |-> kept(s)]
        /\ ok' = TRUE
        /\ UNCHANGED ids
    BY <2>1, Zenon DEF DeleteElements
  <2>3. QED
    BY <2>1, <2>2 DEF ids
<1>3. /\ nodeInfos' = [n \in DOMAIN nodeInfos \ nodes |-> nodeInfos[n]]
      /\ slotInfos' = [s \in DOMAIN slotInfos \ slots |-> slotInfos[s]]
      /\ edgeInfos' = [e \in DOMAIN edgeInfos \ deleted |-> edgeInfos[e]]
  BY <1>2 DEF Erase
<1>4. /\ TypeOK /\ SlotsMatchNodes /\ EdgesHaveEnds
      /\ DOMAIN slotInfos = DOMAIN slotStates /\ AreMaps /\ IdsCounted /\ EdgesFit /\ FunctionsFit
  BY DEF CarefulInv, GraphInv, EdgesAreMirrored, EditorInv
<1>5. ASSUME NEW s \in DOMAIN slotStates
      PROVE  kept(s).encodedData = slotStates[s].encodedData
  BY <1>4 DEF TypeOK, SlotState
<1>6. \A s \in DOMAIN slotStates' : /\ s \in DOMAIN slotStates
                                    /\ slotStates'[s].encodedData = slotStates[s].encodedData
  <2> HIDE DEF kept
  <2>1. QED
    BY <1>2, <1>5
<1>7. /\ DOMAIN slotStates' = DOMAIN slotStates \ slots
      /\ slotStates' = [s \in DOMAIN slotStates' |-> slotStates'[s]]
  <2> HIDE DEF kept
  <2>1. QED
    BY <1>2
<1>8. \A s \in DOMAIN slotStates : s \in slots <=> s[1] \in nodes
  BY <1>4
<1> HIDE DEF slots, kept
<1>9. AreMaps'
  <2>1. nodeInfos' = [n \in DOMAIN nodeInfos' |-> nodeInfos'[n]]
    BY <1>3
  <2>2. slotInfos' = [n \in DOMAIN slotInfos' |-> slotInfos'[n]]
    BY <1>3
  <2>3. edgeInfos' = [n \in DOMAIN edgeInfos' |-> edgeInfos'[n]]
    BY <1>3
  <2>4. QED
    BY <2>1, <2>2, <2>3, <1>7 DEF AreMaps
<1>10. IdsCounted'
  BY <1>2, <1>3, <1>4 DEF IdsCounted
<1>11. EdgesFit'
  <2> SUFFICES ASSUME NEW e \in DOMAIN edgeInfos'
               PROVE  LET s == SourceOf(edgeInfos'[e])
                          t == TargetOf(edgeInfos'[e])
                      IN  /\ slotInfos'[s].access = "O" /\ slotInfos'[t].access # "O"
                          /\ slotInfos'[s].dtype = slotInfos'[t].dtype
    BY DEF EdgesFit, SourceOf, TargetOf
  <2>1. e \in DOMAIN edgeInfos /\ e \notin edges /\ edgeInfos'[e] = edgeInfos[e]
    BY <1>3
  <2>2. edgeInfos[e].node0 \notin nodes /\ edgeInfos[e].node1 \notin nodes
    BY <2>1 DEF EdgesAt
  <2>3. /\ SourceOf(edgeInfos[e])[1] = edgeInfos[e].node0 /\ TargetOf(edgeInfos[e])[1] = edgeInfos[e].node1
        /\ SourceOf(edgeInfos[e]) \in DOMAIN slotStates /\ TargetOf(edgeInfos[e]) \in DOMAIN slotStates
    BY <2>1, <1>4 DEF EdgesHaveEnds, SourceOf, TargetOf
  <2>4. SourceOf(edgeInfos[e]) \notin slots /\ TargetOf(edgeInfos[e]) \notin slots
    BY <2>2, <2>3, <1>8
  <2>5. /\ slotInfos'[SourceOf(edgeInfos[e])] = slotInfos[SourceOf(edgeInfos[e])]
        /\ slotInfos'[TargetOf(edgeInfos[e])] = slotInfos[TargetOf(edgeInfos[e])]
    BY <2>3, <2>4, <1>3, <1>4
  <2>6. QED
    BY <2>1, <2>5, <1>4 DEF EdgesFit
<1>12. FunctionsFit'
  <2> SUFFICES ASSUME NEW n \in DOMAIN nodeInfos', nodeInfos'[n].ntype = "FN"
               PROVE  /\ nodeInfos'[n].uri \in DOMAIN Registry
                      /\ \A y \in Entries(nodeInfos'[n].outs) : slotStates'[<<n, y>>].encodedData = NoData
    BY DEF FunctionsFit
  <2>1. n \in DOMAIN nodeInfos /\ n \notin nodes /\ nodeInfos'[n] = nodeInfos[n]
    BY <1>3
  <2>2. ASSUME NEW y \in Entries(nodeInfos[n].outs) PROVE <<n, y>> \in DOMAIN slotStates'
    <3>1. <<n, y>> \in SlotsOf(n)
      BY DEF SlotsOf
    <3>2. <<n, y>> \in DOMAIN slotStates
      BY <3>1, <2>1, <1>4 DEF SlotsMatchNodes
    <3>3. <<n, y>>[1] = n
      OBVIOUS
    <3>4. <<n, y>> \notin slots
      BY <3>2, <3>3, <2>1, <1>8
    <3>5. QED
      BY <3>2, <3>4, <1>7
  <2>3. QED
    BY <2>1, <2>2, <1>4, <1>6 DEF FunctionsFit
<1>13. DOMAIN slotInfos' = DOMAIN slotStates'
  BY <1>3, <1>4, <1>7
<1>14. \A s \in DOMAIN slotInfos' : s \in DOMAIN slotInfos /\ slotInfos'[s] = slotInfos[s]
  BY <1>3
<1>15. QED
  BY <1>2, <1>9, <1>10, <1>11, <1>12, <1>13, <1>14 DEF EditorInv

LEMMA EditorEntersDataFits ==
  ASSUME CarefulInv, EditorInv, EditorEntersData
  PROVE  EditorInv' /\ ok'
<1> PICK slot \in DOMAIN slotInfos, data \in Data :
      /\ nodeInfos[slot[1]].ntype = "FN" => slotInfos[slot].access # "O"
      /\ SetSlotEncodedData(slot, data)
  BY DEF EditorEntersData
<1>1. /\ TypeOK /\ SlotsMatchNodes
      /\ DOMAIN slotInfos = DOMAIN slotStates /\ AreMaps /\ IdsCounted /\ EdgesFit /\ FunctionsFit
  BY DEF CarefulInv, GraphInv, EditorInv
<1>2. /\ slotStates' = [slotStates EXCEPT ![slot].encodedData = data]
      /\ ok' = TRUE
      /\ nodeInfos' = nodeInfos /\ slotInfos' = slotInfos /\ edgeInfos' = edgeInfos
      /\ lastNodeId' = lastNodeId /\ lastEdgeId' = lastEdgeId
  BY <1>1 DEF SetSlotEncodedData, nodeVars, ids
<1>3. /\ DOMAIN slotStates' = DOMAIN slotStates
      /\ slotStates' = [s \in DOMAIN slotStates' |-> slotStates'[s]]
      /\ \A s \in DOMAIN slotStates : s # slot => slotStates'[s] = slotStates[s]
  BY <1>2
<1>4. AreMaps' /\ IdsCounted'
  BY <1>1, <1>2, <1>3 DEF AreMaps, IdsCounted
<1>5. EdgesFit'
  BY <1>1, <1>2 DEF EdgesFit, SourceOf, TargetOf
<1>6. FunctionsFit'
  <2> SUFFICES ASSUME NEW n \in DOMAIN nodeInfos, nodeInfos[n].ntype = "FN"
               PROVE  /\ nodeInfos[n].uri \in DOMAIN Registry
                      /\ \A y \in Entries(nodeInfos[n].outs) : slotStates'[<<n, y>>].encodedData = NoData
    BY <1>2 DEF FunctionsFit
  <2>1. ASSUME NEW y \in Entries(nodeInfos[n].outs)
        PROVE  <<n, y>> \in DOMAIN slotStates /\ <<n, y>> # slot
    <3>1. <<n, y>> \in SlotsOf(n)
      BY DEF SlotsOf
    <3>2. slotInfos[<<n, y>>].access = "O"
      BY <1>1 DEF SlotsMatchNodes
    <3>3. <<n, y>>[1] = n
      OBVIOUS
    <3>4. QED
      BY <3>1, <3>2, <3>3, <1>1 DEF SlotsMatchNodes
  <2>2. QED
    BY <2>1, <1>1, <1>3 DEF FunctionsFit
<1>7. QED
  BY <1>1, <1>2, <1>3, <1>4, <1>5, <1>6 DEF EditorInv

LEMMA EditorSetsMetaFits ==
  ASSUME CarefulInv, EditorInv, EditorSetsMeta
  PROVE  EditorInv' /\ ok'
<1>1. PICK n \in NodeId \cup {0}, e \in EdgeId \cup {0} : nodeInfos = EmptyMap /\ SetGraphMeta(n, e)
  BY DEF EditorSetsMeta
<1>2. /\ ok' = TRUE /\ nodeInfos' = nodeInfos /\ slotInfos' = slotInfos
      /\ slotStates' = slotStates /\ edgeInfos' = edgeInfos
  BY <1>1 DEF SetGraphMeta, nodeVars, slotVars
<1>3. DOMAIN nodeInfos = {}
  BY <1>1 DEF EmptyMap
<1>4. DOMAIN edgeInfos = {}
  <2>1. EdgesHaveEnds /\ SlotsMatchNodes
    BY DEF CarefulInv, GraphInv, EdgesAreMirrored
  <2>2. DOMAIN slotStates = {}
    BY <2>1, <1>3 DEF SlotsMatchNodes
  <2>3. QED
    BY <2>1, <2>2 DEF EdgesHaveEnds
<1>5. IdsCounted'
  BY <1>2, <1>3, <1>4 DEF IdsCounted
<1>6. AreMaps' /\ EdgesFit' /\ FunctionsFit'
  BY <1>2, <1>3, <1>4 DEF EditorInv, AreMaps, EdgesFit, FunctionsFit
<1>7. QED
  BY <1>2, <1>5, <1>6 DEF EditorInv

\* An editor is a careful client.
LEMMA EditorIsCareful ==
  ASSUME CarefulInv, EditorNext
  PROVE  CarefulNext
<1>1. ASSUME EditorCreates PROVE AddsNode
  <2>1. PICK override \in FreeIds(DOMAIN nodeInfos, lastNodeId) :
          \/ \E uri \in DOMAIN Registry : AddFuncNode(uri, override)
          \/ \E dtype \in Dtype, isOutput \in BOOLEAN : AddIONode(dtype, isOutput, override)
    BY <1>1 DEF EditorCreates
  <2>2. lastNodeId \in NodeId \cup {0}
    BY DEF CarefulInv, GraphInv, TypeOK
  <2>3. override \in NodeId \cup {NoOverride}
    BY <2>2, BuilderAssumption DEF FreeIds, NodeId
  <2>4. QED
    BY <2>1, <2>3 DEF AddsNode
<1>2. ASSUME EditorConnects PROVE \E entries \in Batches : WellFormed(entries) /\ AddEdges(entries)
  BY <1>2 DEF EditorConnects
<1>3. ASSUME EditorEntersData PROVE SetsData
  BY <1>3 DEF EditorEntersData, SetsData
<1>4. ASSUME EditorSetsMeta PROVE SetsMeta
  BY <1>4 DEF EditorSetsMeta, SetsMeta
<1>5. QED
  BY <1>1, <1>2, <1>3, <1>4 DEF EditorNext, EditorDeletes, CarefulNext

\* What holds of the graph between two calls of an editor.
EditingInv == CarefulInv /\ IoShapes /\ EditorInv

LEMMA EditorStep ==
  ASSUME EditingInv, EditorNext
  PROVE  EditingInv' /\ ok'
<1>1. CarefulInv /\ IoShapes /\ EditorInv
  BY DEF EditingInv
<1>2. CarefulNext
  BY <1>1, EditorIsCareful
<1>3. CarefulInv' /\ IoShapes'
  BY <1>1, <1>2, CarefulNextInv, ShapesKept
<1>4. EditorInv' /\ ok'
  BY <1>1, EditorCreatesFits, EditorConnectsFits, EditorDeletesFits, EditorEntersDataFits,
     EditorSetsMetaFits DEF EditorNext
<1>5. QED
  BY <1>3, <1>4 DEF EditingInv

LEMMA EditingStays ==
  ASSUME EditingInv, UNCHANGED vars
  PROVE  EditingInv'
<1>1. CarefulInv' /\ IoShapes'
  BY CarefulNextInv, ShapesKept DEF EditingInv
<1>2. EditorInv'
  BY DEF EditingInv, EditorInv, AreMaps, IdsCounted, EdgesFit, FunctionsFit,
         vars, graphVars, nodeVars, slotVars, ids
<1>3. QED
  BY <1>1, <1>2 DEF EditingInv

LEMMA EditingStarts == Init => EditingInv
<1>1. Init => CarefulInv /\ IoShapes
  BY CarefulInitInv DEF Init, EmptyMap, IoShapes
<1>2. Init => EditorInv
  BY DEF Init, EmptyMap, EditorInv, AreMaps, IdsCounted, EdgesFit, FunctionsFit
<1>3. QED
  BY <1>1, <1>2 DEF EditingInv

\* The nodes of one call of DeleteElements, where there is one or none.
LEMMA SortedNone == SortedSeq({}) = << >>
<1>1. IsFiniteSet({}) /\ Cardinality({}) = 0
  BY FS_EmptySet
<1>2. SortedSeq({}) \in [1 .. 0 -> {}]
  BY <1>1, SortedSeqSorts
<1>3. QED
  BY <1>2

LEMMA SortedSingle ==
  ASSUME NEW n \in Nat
  PROVE  SortedSeq({n}) = <<n>>
<1> DEFINE seq == SortedSeq({n})
<1>1. IsFiniteSet({n}) /\ Cardinality({n}) = 1
  BY FS_Singleton
<1>2. seq \in [1 .. 1 -> {n}]
  BY <1>1, SortedSeqSorts
<1> HIDE DEF seq
<1>3. DOMAIN seq = {1} /\ seq[1] = n /\ seq = [k \in 1 .. 1 |-> seq[k]]
  BY <1>2
<1>4. QED
  BY <1>3 DEF seq
=============================================================================
