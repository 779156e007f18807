-------------------------- MODULE PipelineBuilder --------------------------
(***************************************************************************)
(* PipelineBuilder::RebuildV2 (pipeline/PipelineBuilder.cpp): from a graph *)
(* state, the stage of each node and whether the build succeeds.  A graph  *)
(* is a record of the maps of GraphBuilder and of sortOrder.               *)
(*                                                                         *)
(* A stage is a sequence of executors, the node's own one last, and the    *)
(* attribute transfers made just before that one.  The attribute of a slot *)
(* entry is named <<node, executor, slot>>, where the code holds a pointer *)
(* to it.                                                                  *)
(***************************************************************************)
EXTENDS TopoSortOps

CONSTANTS
  KnownDtype,   \* the strings AttributeDataTypeFromStr knows
  NoData        \* the absence of encoded data

ASSUME NamesAssumption == {"$in", "$out"} \subseteq STRING /\ "unknown" \notin KnownDtype

\* A graph as GraphBuilder leaves it: every node has its place in sortOrder.
IsGraphState(g) ==
  /\ DOMAIN g.nodeInfos \subseteq Entries(g.sortOrder) /\ g.sortOrder \in Seq(Nat)
  /\ \A n \in DOMAIN g.nodeInfos :
       /\ g.nodeInfos[n].ntype \in {"FN", "IN", "OUT"}
       /\ {g.nodeInfos[n].ins, g.nodeInfos[n].outs, g.nodeInfos[n].inouts} \subseteq Seq(STRING)
  /\ DOMAIN g.edgeInfos \subseteq Nat /\ IsFiniteSet(DOMAIN g.edgeInfos)

From(edge) == <<edge.node0, edge.slot0>>
To(edge) == <<edge.node1, edge.slot1>>

SlotNames(g, n) == g.nodeInfos[n].ins \o g.nodeInfos[n].outs \o g.nodeInfos[n].inouts

IsFunction(g, n) == g.nodeInfos[n].ntype = "FN"

\* LookupIoSlot: the one slot of a graph input or output.
IoNames(g, n) ==
  IF g.nodeInfos[n].ntype = "IN" THEN g.nodeInfos[n].outs ELSE g.nodeInfos[n].ins

Depends(g, m, n) == \E e \in DOMAIN g.edgeInfos : g.edgeInfos[e].node0 = m /\ g.edgeInfos[e].node1 = n

\* sortOrder is what GraphBuilder promises for a graph without cycles.
Ordered(g) ==
  /\ Entries(g.sortOrder) = DOMAIN g.nodeInfos
  /\ \A i, j \in DOMAIN g.sortOrder : Depends(g, g.sortOrder[i], g.sortOrder[j]) => i < j

\* Slots, nodes and edges agree, as GraphBuilder keeps them for a client that
\* leaves no edge behind.
IsWired(g) ==
  /\ \A i, j \in DOMAIN g.sortOrder : g.sortOrder[i] = g.sortOrder[j] => i = j
  /\ DOMAIN g.slotStates =
       UNION {{<<n, x>> : x \in Entries(SlotNames(g, n))} : n \in DOMAIN g.nodeInfos}
  /\ \A n \in DOMAIN g.nodeInfos :
       LET node == g.nodeInfos[n]
       IN  /\ Entries(node.ins) \cap Entries(node.outs) = {}
           /\ \A x \in Entries(SlotNames(g, n)) :
                g.slotInfos[<<n, x>>].access = "O" <=> x \in Entries(node.outs)
           /\ node.ntype = "IN" => node.ins = << >> /\ node.outs = <<"$out">> /\ node.inouts = << >>
           /\ node.ntype = "OUT" => node.ins = <<"$in">> /\ node.outs = << >> /\ node.inouts = << >>
  /\ \A e \in DOMAIN g.edgeInfos :
       /\ {From(g.edgeInfos[e]), To(g.edgeInfos[e])} \subseteq DOMAIN g.slotStates
       /\ g.slotStates[To(g.edgeInfos[e])].inEdges = {e}

----------------------------------------------------------------------------
(***************************************************************************)
(* Which graphs can be built                                               *)
(***************************************************************************)

HasSlot(g, slot) ==
  /\ slot \in DOMAIN g.slotInfos \cap DOMAIN g.slotStates
  /\ g.slotInfos[slot].dtype \in KnownDtype

IoNodeOk(g, n) ==
  LET slot == <<n, IoNames(g, n)[1]>>
      state == g.slotStates[slot]
  IN  /\ Len(IoNames(g, n)) = 1
      /\ HasSlot(g, slot)
      /\ IF g.nodeInfos[n].ntype = "IN"
         THEN /\ g.slotInfos[slot].access = "O"
              /\ state.inEdges = {} /\ state.outEdges # {}
              /\ state.encodedData # NoData
         ELSE /\ g.slotInfos[slot].access = "I"
              /\ state.outEdges = {} /\ Cardinality(state.inEdges) = 1
              /\ state.encodedData = NoData

FuncNodeOk(g, n) == \A name \in Entries(SlotNames(g, n)) : HasSlot(g, <<n, name>>)

\* LookupExecutorSlot finds the slot in the last executor of its node's stage.
ExecutorHasSlot(g, slot) ==
  /\ slot[1] \in DOMAIN g.nodeInfos
  /\ slot[2] \in IF IsFunction(g, slot[1]) THEN Entries(SlotNames(g, slot[1]))
                                           ELSE {"$in", "$out"}

BuildOk(g) ==
  /\ \A n \in DOMAIN g.nodeInfos : IF IsFunction(g, n) THEN FuncNodeOk(g, n) ELSE IoNodeOk(g, n)
  /\ \A e \in DOMAIN g.edgeInfos :
       ExecutorHasSlot(g, From(g.edgeInfos[e])) /\ ExecutorHasSlot(g, To(g.edgeInfos[e]))
  /\ Entries(g.sortOrder) \subseteq DOMAIN g.nodeInfos

----------------------------------------------------------------------------
(***************************************************************************)
(* The stages                                                              *)
(***************************************************************************)

\* An executor: the function it runs, the slots it reads and writes with
\* their types, and the payload preloaded in the slot "$in" of a decoder.
IsFuncExecutor(x) ==
  /\ DOMAIN x = {"type", "uri", "payload", "takes", "gives"}
  /\ x.type \in {"function", "encode", "decode"}
  /\ DOMAIN x.takes \cup DOMAIN x.gives \subseteq STRING
  /\ \A s \in DOMAIN x.takes : x.takes[s] \in KnownDtype \cup {"$encoded"}
  /\ \A s \in DOMAIN x.gives : x.gives[s] \in KnownDtype \cup {"$encoded"}
  /\ x.payload # NoData => x.type = "decode"

\* What runs for a node: the transfers fill entries of the last executor, the
\* only one of its type.
IsNodeOpsStage(n, stage) ==
  /\ \A x \in Entries(stage.executors) : IsFuncExecutor(x)
  /\ \A i \in DOMAIN stage.executors :
       stage.executors[i].type = "function" => i = Len(stage.executors)
  /\ \A transfer \in Entries(stage.transfers) :
       <<transfer.dst[1], transfer.dst[2]>> = <<n, Len(stage.executors)>>

Decoder(dtype, payload) ==
  [type |-> "decode", uri |-> <<"$IN", dtype>>, payload |-> payload,
   takes |-> [x \in {"$in"} |-> "$encoded"], gives |-> [x \in {"$out"} |-> dtype]]

Encoder(dtype) ==
  [type |-> "encode", uri |-> <<"$OUT", dtype>>, payload |-> NoData,
   takes |-> [x \in {"$in"} |-> dtype], gives |-> [x \in {"$out"} |-> "$encoded"]]

\* No accessor exists by which a function reads or writes a mutable slot.
MainFunction(g, n) ==
  LET dtypes(names) == [x \in Entries(names) |-> g.slotInfos[<<n, x>>].dtype]
  IN  [type |-> "function", uri |-> g.nodeInfos[n].uri, payload |-> NoData,
       takes |-> dtypes(g.nodeInfos[n].ins), gives |-> dtypes(g.nodeInfos[n].outs)]

\* The slots of a function node with data of their own, each with a decoder.
Manual(g, n) ==
  LET names == SlotNames(g, n)
      chosen == SortedSeq({i \in DOMAIN names : g.slotStates[<<n, names[i]>>].encodedData # NoData})
  IN  [k \in DOMAIN chosen |-> names[chosen[k]]]

Executors(g, n) ==
  IF IsFunction(g, n)
  THEN [i \in DOMAIN Manual(g, n) |->
          LET slot == <<n, Manual(g, n)[i]>>
          IN  Decoder(g.slotInfos[slot].dtype, g.slotStates[slot].encodedData)]
       \o <<MainFunction(g, n)>>
  ELSE LET slot == <<n, IoNames(g, n)[1]>>
           dtype == g.slotInfos[slot].dtype
       IN  IF g.nodeInfos[n].ntype = "IN"
           THEN <<Decoder(dtype, g.slotStates[slot].encodedData)>>
           ELSE <<Encoder(dtype)>>

\* The entry of a slot in the last executor of its node.
MainEntry(g, slot) == <<slot[1], Len(Executors(g, slot[1])), slot[2]>>

ManualTransfers(g, n) ==
  IF ~ IsFunction(g, n) THEN << >>
  ELSE [i \in DOMAIN Manual(g, n) |->
          [src |-> <<n, i, "$out">>, dst |-> MainEntry(g, <<n, Manual(g, n)[i]>>)]]

\* By ascending edge id, as the map of edges is walked.
EdgeTransfers(g, n) ==
  LET edges == SortedSeq({e \in DOMAIN g.edgeInfos : g.edgeInfos[e].node1 = n})
  IN  [i \in DOMAIN edges |->
         [src |-> MainEntry(g, From(g.edgeInfos[edges[i]])),
          dst |-> MainEntry(g, To(g.edgeInfos[edges[i]]))]]

\* Mutant: the data entered for a slot overwrites what its edge delivers.
Stage_ManualLast(g, n) ==
  [executors |-> Executors(g, n), transfers |-> EdgeTransfers(g, n) \o ManualTransfers(g, n)]

\* Mutant: the data entered for a slot is decoded but not delivered.
Stage_EdgesOnly(g, n) ==
  [executors |-> Executors(g, n), transfers |-> EdgeTransfers(g, n)]

\* What an edge delivers overwrites the data entered for the slot.
Stage(g, n) ==
  [executors |-> Executors(g, n), transfers |-> ManualTransfers(g, n) \o EdgeTransfers(g, n)]

\* The slot entries of an executor; the main function has all slots of its node.
EntryNames(g, n, i) ==
  LET executor == Executors(g, n)[i]
  IN  DOMAIN executor.takes \cup DOMAIN executor.gives
        \cup IF executor.type = "function" THEN Entries(SlotNames(g, n)) ELSE {}

Unset == [dtype |-> "unknown", value |-> NoData]

\* The attribute of every slot entry as the builder leaves it.
FreshAttrs(g) ==
  LET entries == UNION {UNION {{<<n, i, name>> : name \in EntryNames(g, n, i)} :
                                 i \in DOMAIN Executors(g, n)} : n \in DOMAIN g.nodeInfos}
      preloaded(k) == k[3] = "$in" /\ Executors(g, k[1])[k[2]].type = "decode"
  IN  [k \in entries |->
         IF preloaded(k)
         THEN [dtype |-> "$encoded", value |-> Executors(g, k[1])[k[2]].payload]
         ELSE Unset]
=============================================================================
