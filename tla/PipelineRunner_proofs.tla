------------------------ MODULE PipelineRunner_proofs ------------------------
(***************************************************************************)
(* What holds of the runner for every set of graphs that GraphBuilder can  *)
(* leave behind, every assignment of functions and every bound.            *)
(***************************************************************************)
EXTENDS PipelineRunner, TopoSortLemmas

----------------------------------------------------------------------------
(***************************************************************************)
(* The await pool                                                          *)
(***************************************************************************)

\* The tasks of the present build whose result is to be collected.
Mine == {t \in DOMAIN tasks : t[1] = generation
                               /\ stages[t[2]].executors[t[3]].uri \in Async}

\* There is none but that of the executor at position p.
OnlyAt(p) == \A t \in Mine : t = <<generation, sequence[p[1]][2], p[2]>>

\* An awaited task belongs to the position that is saved between two steps, and
\* to the present one during a step; older builds count only as older.
AwaitInv ==
  /\ generation \in Nat
  /\ \A t \in DOMAIN tasks : t[1] \in Nat /\ t[1] <= generation
  /\ phase = "idle" => OnlyAt(saved)
  /\ phase = "stepping" => OnlyAt(pos)

\* Where none is left, the positions do not matter.
LEMMA NoneAwaited ==
  ASSUME AwaitInv, UNCHANGED pipelineVars, DOMAIN tasks' \subseteq DOMAIN tasks,
         phase' = "aborted" \/ Mine' = {}
  PROVE  AwaitInv'
BY DEF AwaitInv, OnlyAt, pipelineVars

\* Handing over a task saves the position to which it belongs.
LEMMA TaskHandedOver ==
  ASSUME AwaitInv, \A t \in Mine : t = Task, UNCHANGED pipelineVars,
         AddTask, NEW awaits, Pause(awaits)
  PROVE  AwaitInv'
<1>1. /\ UNCHANGED <<stages, sequence, generation>> /\ phase' = "idle" /\ saved' = pos
      /\ DOMAIN tasks' = DOMAIN tasks \cup {Task}
  BY DEF pipelineVars, Pause, AddTask
<1>2. Task[1] = generation
  BY DEF Task
<1>3. \A t \in Mine' : t = Task
  BY <1>1 DEF Mine
<1>4. OnlyAt(saved)'
  BY <1>1, <1>3 DEF OnlyAt, Task, StageNode
<1>5. \A t \in DOMAIN tasks' : t[1] \in Nat /\ t[1] <= generation'
  BY <1>1, <1>2 DEF AwaitInv
<1>6. QED
  BY <1>1, <1>4, <1>5 DEF AwaitInv

\* The ways a run of an executor ends.
RunsExecutor(A) ==
  \/ Executor.uri \notin Registered /\ Abort
  \/ Executor.uri \in DOMAIN Outcomes /\ RunSync(A)
  \/ Executor.uri \in Async /\ Self \notin DOMAIN started /\ HandOver(A)
  \/ Executor.uri \in Async /\ Self \in DOMAIN started /\ Resume(A)
  \/ Executor.uri \in Gpu /\ Self \notin DOMAIN started /\ Dispatch(A)
  \/ Executor.uri \in Gpu /\ Self \in DOMAIN started /\ Capture(A)

LEMMA RunAwaits ==
  ASSUME AwaitInv, phase = "stepping", UNCHANGED pipelineVars, NEW A, RunsExecutor(A)
  PROVE  AwaitInv'
<1>1. /\ \A t \in Mine : t = Task
      /\ Executor.uri \notin Async => Mine = {}
  BY DEF AwaitInv, OnlyAt, Executor, ThisStage, Task, Mine, StageNode
<1>2. UNCHANGED tasks => Mine' = Mine
  BY DEF Mine, pipelineVars
<1>3. ASSUME Abort PROVE AwaitInv'
  BY <1>3, NoneAwaited DEF Abort, functionVars
<1>4. CASE Executor.uri \in DOMAIN Outcomes /\ RunSync(A)
  <2>1. Executor.uri \notin Async
    BY <1>4, RunnerAssumption
  <2>2. Abort \/ UNCHANGED tasks
    BY <1>4 DEF RunSync
  <2>3. QED
    BY <2>1, <2>2, <1>1, <1>2, <1>3, NoneAwaited
<1>5. CASE Executor.uri \in Async /\ HandOver(A)
  BY <1>5, <1>1, <1>3, TaskHandedOver DEF HandOver
<1>6. CASE Executor.uri \in Async /\ Resume(A)
  <2>1. DOMAIN tasks' = DOMAIN tasks \ {Task}
    BY <1>6 DEF Resume, ReleaseTask
  <2>2. Mine' = {}
    BY <2>1, <1>1 DEF Mine, pipelineVars
  <2>3. QED
    BY <2>1, <2>2, NoneAwaited
<1>7. CASE Executor.uri \in Gpu /\ Dispatch(A)
  BY <1>7, <1>1, <1>3, TaskHandedOver DEF Dispatch
<1>8. CASE Executor.uri \in Gpu /\ Capture(A)
  <2>1. Executor.uri \notin Async
    BY <1>8, RunnerAssumption
  <2>2. Abort \/ UNCHANGED tasks
    BY <1>8 DEF Capture
  <2>3. QED
    BY <2>1, <2>2, <1>1, <1>2, <1>3, NoneAwaited
<1>9. QED
  BY <1>3, <1>4, <1>5, <1>6, <1>7, <1>8 DEF RunsExecutor

LEMMA AwaitNext == AwaitInv /\ [Next]_vars => AwaitInv'
<1> SUFFICES ASSUME AwaitInv, [Next]_vars PROVE AwaitInv'
  OBVIOUS
<1>1. ASSUME NEW g \in Graphs, Build(g) PROVE AwaitInv'
  <2>1. CASE UNCHANGED <<stages, sequence, generation, tasks>> /\ phase' = "aborted"
    BY <2>1 DEF AwaitInv
  <2>2. CASE generation' = generation + 1 /\ UNCHANGED tasks
    <3>1. generation' \in Nat /\ \A t \in DOMAIN tasks' : t[1] \in Nat /\ t[1] < generation'
      BY <2>2 DEF AwaitInv
    <3>2. Mine' = {}
      BY <3>1 DEF Mine
    <3>3. QED
      BY <3>1, <3>2 DEF AwaitInv, OnlyAt
  <2>3. QED
    BY <1>1, <2>1, <2>2 DEF Build, functionVars
<1>2. CASE BeginStep
  <2>1. UNCHANGED <<stages, sequence, generation, tasks, saved>> /\ phase = "idle"
    BY <1>2 DEF BeginStep, pipelineVars, functionVars
  <2>2. phase' = "idle" \/ (phase' = "stepping" /\ pos' = saved)
    BY <1>2 DEF BeginStep
  <2>3. QED
    BY <2>1, <2>2 DEF AwaitInv, OnlyAt, Mine
<1>3. CASE RunExecutor
  <2>1. UNCHANGED pipelineVars /\ phase = "stepping"
    BY <1>3 DEF RunExecutor
  <2>2. CASE phase' = "undefined" /\ UNCHANGED functionVars
    BY <2>1, <2>2 DEF AwaitInv, functionVars, pipelineVars
  <2>3. CASE RunsExecutor(Transferred)
    BY <2>1, <2>3, RunAwaits
  <2>4. QED
    BY <1>3, <2>2, <2>3 DEF RunExecutor, RunsExecutor
<1>4. ASSUME NEW t \in DOMAIN tasks, Fulfil(t) PROVE AwaitInv'
  BY <1>4 DEF Fulfil, AwaitInv, OnlyAt, Mine, pipelineVars
<1>5. CASE UNCHANGED vars
  BY <1>5 DEF vars, pipelineVars, functionVars, AwaitInv, OnlyAt, Mine
<1>6. QED
  BY <1>1, <1>2, <1>3, <1>4, <1>5 DEF Next

LEMMA AwaitInit == Init => AwaitInv
BY DEF Init, AwaitInv, OnlyAt, Mine, EmptyMap

\* Of the present build at most one task waits to be collected, and it is the
\* one that the next step asks for.
THEOREM OneTaskAwaitedAlways == Spec => []OneTaskAwaited
<1>1. AwaitInv => OneTaskAwaited
  <2> SUFFICES ASSUME AwaitInv, phase = "idle" PROVE OneTaskAwaited
    BY DEF OneTaskAwaited
  <2> DEFINE t0 == <<generation, sequence[saved[1]][2], saved[2]>>
  <2>1. \A t \in Mine : t = t0
    BY DEF AwaitInv, OnlyAt
  <2>2. t0[2] = sequence[saved[1]][2] /\ t0[3] = saved[2]
    OBVIOUS
  <2> HIDE DEF t0
  <2>3. Cardinality(Mine) <= 1
    <3>1. Mine = {} \/ Mine = {t0}
      BY <2>1
    <3>2. Cardinality({}) = 0 /\ Cardinality({t0}) = 1
      BY FS_EmptySet, FS_Singleton
    <3>3. Cardinality(Mine) = 0 \/ Cardinality(Mine) = 1
      BY <3>1, <3>2
    <3>4. QED
      BY <3>3
  <2>4. \A t \in Mine : t[2] = sequence[saved[1]][2] /\ t[3] = saved[2]
    BY <2>1, <2>2
  <2> HIDE DEF t0
  <2>5. QED
    BY <2>3, <2>4 DEF OneTaskAwaited, Mine
<1>2. QED
  BY <1>1, AwaitInit, AwaitNext, PTL DEF Spec

----------------------------------------------------------------------------
(***************************************************************************)
(* Stages                                                                  *)
(***************************************************************************)

Built(g) == IsGraphState(g) /\ BuildOk(g)

LEMMA NodeTypes ==
  ASSUME NEW g, IsGraphState(g), NEW n \in DOMAIN g.nodeInfos
  PROVE  /\ g.nodeInfos[n].ins \in Seq(STRING) /\ g.nodeInfos[n].outs \in Seq(STRING)
         /\ g.nodeInfos[n].inouts \in Seq(STRING)
         /\ SlotNames(g, n) \in Seq(STRING)
         /\ Entries(g.nodeInfos[n].ins) \cup Entries(g.nodeInfos[n].outs)
              \subseteq Entries(SlotNames(g, n))
         /\ Entries(SlotNames(g, n)) \subseteq STRING
         /\ g.nodeInfos[n].ntype \in {"FN", "IN", "OUT"} /\ n \in Nat
<1> DEFINE a == g.nodeInfos[n].ins
           b == g.nodeInfos[n].outs
           c == g.nodeInfos[n].inouts
<1>1. /\ a \in Seq(STRING) /\ b \in Seq(STRING) /\ c \in Seq(STRING)
      /\ g.nodeInfos[n].ntype \in {"FN", "IN", "OUT"}
  BY DEF IsGraphState
<1>2. n \in Nat
  BY DEF IsGraphState, Entries
<1>3. SlotNames(g, n) = a \o b \o c
  BY DEF SlotNames
<1> HIDE DEF a, b, c
<1>4. a \o b \in Seq(STRING) /\ a \o b \o c \in Seq(STRING)
  BY <1>1
<1>5. Entries(a) \cup Entries(b) \subseteq Entries(a \o b \o c)
  <2>1. /\ DOMAIN a = 1 .. Len(a) /\ DOMAIN b = 1 .. Len(b)
        /\ Len(a) \in Nat /\ Len(b) \in Nat /\ Len(c) \in Nat
    BY <1>1
  <2>2. ASSUME NEW i \in DOMAIN a PROVE a[i] \in Entries(a \o b \o c)
    <3>1. (a \o b \o c)[i] = a[i] /\ i \in DOMAIN (a \o b \o c)
      BY <1>1, <2>1, <2>2
    <3>2. QED
      BY <3>1 DEF Entries
  <2>3. ASSUME NEW i \in DOMAIN b PROVE b[i] \in Entries(a \o b \o c)
    <3>1. /\ (a \o b \o c)[Len(a) + i] = b[i]
          /\ Len(a) + i \in DOMAIN (a \o b \o c)
      BY <1>1, <2>1, <2>3
    <3>2. QED
      BY <3>1 DEF Entries
  <2>4. QED
    BY <2>2, <2>3 DEF Entries
<1>6. Entries(a \o b \o c) \subseteq STRING
  BY <1>4 DEF Entries
<1>7. QED
  BY <1>1, <1>2, <1>3, <1>4, <1>5, <1>6 DEF a, b, c

\* Manual lists slots of the node.
LEMMA ManualTypes ==
  ASSUME NEW g, IsGraphState(g), NEW n \in DOMAIN g.nodeInfos
  PROVE  Manual(g, n) \in Seq(Entries(SlotNames(g, n)))
<1> DEFINE names == SlotNames(g, n)
           I == {i \in DOMAIN names : g.slotStates[<<n, names[i]>>].encodedData # NoData}
           c == Cardinality(I)
<1>1. DOMAIN names = 1 .. Len(names) /\ Len(names) \in Nat
  BY NodeTypes
<1>2. I \in SUBSET Nat /\ IsFiniteSet(I) /\ I \subseteq DOMAIN names
  <2>1. I \subseteq 1 .. Len(names) /\ IsFiniteSet(1 .. Len(names))
    BY <1>1, FS_Interval
  <2>2. I \subseteq DOMAIN names
    OBVIOUS
  <2> HIDE DEF I
  <2>3. IsFiniteSet(I)
    BY <2>1, FS_Subset
  <2>4. QED
    BY <2>1, <2>2, <2>3
<1>3. c \in Nat /\ SortedSeq(I) \in [1 .. c -> I]
  <2> HIDE DEF I
  <2>1. QED
    BY <1>2, SortedSeqSorts
<1>4. Manual(g, n) = [k \in DOMAIN SortedSeq(I) |-> names[SortedSeq(I)[k]]]
  BY DEF Manual
<1> HIDE DEF I, c, names
<1>5. Manual(g, n) = [k \in 1 .. c |-> names[SortedSeq(I)[k]]]
  BY <1>3, <1>4
<1>6. \A k \in 1 .. c : names[SortedSeq(I)[k]] \in Entries(names)
  BY <1>2, <1>3 DEF Entries
<1>7. Manual(g, n) \in Seq(Entries(names))
  BY <1>3, <1>5, <1>6
<1>8. QED
  BY <1>7 DEF names

\* EdgeTransfers follows the edges into the node.
LEMMA SortedEdges ==
  ASSUME NEW g, IsGraphState(g), NEW n
  PROVE  LET I == {e \in DOMAIN g.edgeInfos : g.edgeInfos[e].node1 = n}
         IN  SortedSeq(I) \in Seq(I)
<1> DEFINE I == {e \in DOMAIN g.edgeInfos : g.edgeInfos[e].node1 = n}
<1>1. I \subseteq DOMAIN g.edgeInfos
  OBVIOUS
<1> HIDE DEF I
<1>2. IsFiniteSet(I) /\ I \in SUBSET Nat
  <2>1. IsFiniteSet(I)
    BY <1>1, FS_Subset DEF IsGraphState
  <2>2. QED
    BY <1>1, <2>1 DEF IsGraphState
<1>3. Cardinality(I) \in Nat /\ SortedSeq(I) \in [1 .. Cardinality(I) -> I]
  BY <1>2, SortedSeqSorts
<1>4. SortedSeq(I) \in Seq(I)
  BY <1>3
<1>5. QED
  BY <1>4 DEF I

\* The executors of a node: decoders and its function, or one codec.
LEMMA ExecutorsOfNode ==
  ASSUME NEW g, Built(g), NEW n \in DOMAIN g.nodeInfos
  PROVE  LET xs == Executors(g, n)
             m == Len(Manual(g, n))
         IN  /\ xs = [i \in 1 .. Len(xs) |-> xs[i]] /\ Len(xs) \in Nat \ {0}
             /\ DOMAIN xs = 1 .. Len(xs)
             /\ IsFunction(g, n) =>
                  /\ Len(xs) = m + 1 /\ m \in Nat
                  /\ xs[m + 1] = MainFunction(g, n)
                  /\ \A i \in 1 .. m : \E slot \in {<<n, x>> : x \in Entries(SlotNames(g, n))} :
                       xs[i] = Decoder(g.slotInfos[slot].dtype, g.slotStates[slot].encodedData)
             /\ ~ IsFunction(g, n) =>
                  /\ Len(xs) = 1
                  /\ LET slot == <<n, IoNames(g, n)[1]>>
                     IN  xs[1] = IF g.nodeInfos[n].ntype = "IN"
                                 THEN Decoder(g.slotInfos[slot].dtype, g.slotStates[slot].encodedData)
                                 ELSE Encoder(g.slotInfos[slot].dtype)
<1> DEFINE names == Manual(g, n)
           m == Len(names)
           D(i) == Decoder(g.slotInfos[<<n, names[i]>>].dtype, g.slotStates[<<n, names[i]>>].encodedData)
           ds == [i \in DOMAIN names |-> D(i)]
           xs == Executors(g, n)
<1>1. CASE IsFunction(g, n)
  <2>1. names \in Seq(Entries(SlotNames(g, n)))
    BY ManualTypes DEF Built
  <2>2. xs = ds \o <<MainFunction(g, n)>>
    BY <1>1 DEF Executors
  <2>3. DOMAIN names = 1 .. m /\ m \in Nat /\ \A i \in 1 .. m : names[i] \in Entries(SlotNames(g, n))
    <3> HIDE DEF names
    <3>1. QED
      BY <2>1
  <2> HIDE DEF names, m, xs, D
  <2>4. ds \in Seq({D(i) : i \in 1 .. m}) /\ Len(ds) = m /\ \A i \in 1 .. m : ds[i] = D(i)
    BY <2>3
  <2> DEFINE S == {D(i) : i \in 1 .. m} \cup {MainFunction(g, n)}
  <2>5. /\ ds \in Seq(S) /\ <<MainFunction(g, n)>> \in Seq(S)
        /\ Len(<<MainFunction(g, n)>>) = 1 /\ <<MainFunction(g, n)>>[1] = MainFunction(g, n)
    BY <2>3, <2>4
  <2> HIDE DEF S, ds
  <2>6. /\ xs \in Seq(S) /\ Len(xs) = m + 1
        /\ \A i \in 1 .. m : xs[i] = D(i)
        /\ xs[m + 1] = MainFunction(g, n)
    BY <2>2, <2>3, <2>4, <2>5, SMTT(30)
  <2>7. xs = [i \in 1 .. Len(xs) |-> xs[i]] /\ DOMAIN xs = 1 .. Len(xs)
    BY <2>6
  <2>8. \A i \in 1 .. m : \E slot \in {<<n, x>> : x \in Entries(SlotNames(g, n))} :
          xs[i] = Decoder(g.slotInfos[slot].dtype, g.slotStates[slot].encodedData)
    BY <2>3, <2>6 DEF D
  <2>9. QED
    BY <1>1, <2>3, <2>6, <2>7, <2>8 DEF xs, m, names
<1>2. CASE ~ IsFunction(g, n)
  BY <1>2 DEF Executors
<1>3. QED
  BY <1>1, <1>2

\* A node has executors, numbered from 1.
LEMMA ExecutorsLength ==
  ASSUME NEW g, Built(g), NEW n \in DOMAIN g.nodeInfos
  PROVE  /\ Len(Executors(g, n)) \in Nat \ {0}
         /\ DOMAIN Executors(g, n) = 1 .. Len(Executors(g, n))
         /\ DOMAIN Executors(g, n) \subseteq Nat
         /\ 1 \in DOMAIN Executors(g, n) /\ Len(Executors(g, n)) \in DOMAIN Executors(g, n)
<1>1. /\ Len(Executors(g, n)) \in Nat \ {0}
      /\ DOMAIN Executors(g, n) = 1 .. Len(Executors(g, n))
  BY ExecutorsOfNode
<1>2. QED
  BY <1>1

\* The one slot of a graph input or output exists.
LEMMA IoSlot ==
  ASSUME NEW g, Built(g), NEW n \in DOMAIN g.nodeInfos, ~ IsFunction(g, n)
  PROVE  HasSlot(g, <<n, IoNames(g, n)[1]>>)
BY DEF Built, BuildOk, IoNodeOk

LEMMA FunctionSlot ==
  ASSUME NEW g, Built(g), NEW n \in DOMAIN g.nodeInfos, IsFunction(g, n),
         NEW x \in Entries(SlotNames(g, n))
  PROVE  HasSlot(g, <<n, x>>)
BY DEF Built, BuildOk, FuncNodeOk

\* Codecs of a known type are executors.
LEMMA CodecTypes ==
  ASSUME NEW dtype \in KnownDtype, NEW payload
  PROVE  /\ IsFuncExecutor(Decoder(dtype, payload)) /\ IsFuncExecutor(Encoder(dtype))
         /\ Decoder(dtype, payload).type = "decode" /\ Encoder(dtype).type = "encode"
         /\ DOMAIN Decoder(dtype, payload).takes = {"$in"} /\ DOMAIN Encoder(dtype).takes = {"$in"}
         /\ DOMAIN Decoder(dtype, payload).gives = {"$out"} /\ DOMAIN Encoder(dtype).gives = {"$out"}
BY NamesAssumption DEF IsFuncExecutor, Decoder, Encoder

LEMMA MainFunctionTypes ==
  ASSUME NEW g, Built(g), NEW n \in DOMAIN g.nodeInfos, IsFunction(g, n)
  PROVE  /\ IsFuncExecutor(MainFunction(g, n)) /\ MainFunction(g, n).type = "function"
         /\ DOMAIN MainFunction(g, n).takes = Entries(g.nodeInfos[n].ins)
         /\ DOMAIN MainFunction(g, n).gives = Entries(g.nodeInfos[n].outs)
<1>1. /\ Entries(g.nodeInfos[n].ins) \subseteq Entries(SlotNames(g, n))
      /\ Entries(g.nodeInfos[n].outs) \subseteq Entries(SlotNames(g, n))
      /\ Entries(SlotNames(g, n)) \subseteq STRING
  BY NodeTypes DEF Built
<1>2. \A x \in Entries(SlotNames(g, n)) : g.slotInfos[<<n, x>>].dtype \in KnownDtype
  BY FunctionSlot DEF HasSlot
<1>3. QED
  BY <1>1, <1>2 DEF IsFuncExecutor, MainFunction

\* Of what type each executor of a node is.
LEMMA ExecutorTypes ==
  ASSUME NEW g, Built(g), NEW n \in DOMAIN g.nodeInfos, NEW i \in DOMAIN Executors(g, n)
  PROVE  LET x == Executors(g, n)[i]
         IN  /\ IsFuncExecutor(x)
             /\ x.type = "function" => i = Len(Executors(g, n)) /\ IsFunction(g, n)
             /\ x.type = "encode" <=> g.nodeInfos[n].ntype = "OUT"
             /\ x.type # "function" => DOMAIN x.takes \cup DOMAIN x.gives = {"$in", "$out"}
             /\ (IsFunction(g, n) /\ i = Len(Executors(g, n))) => x.type = "function"
<1> DEFINE x == Executors(g, n)[i]
           len == Len(Executors(g, n))
<1>1. i \in 1 .. len /\ len \in Nat \ {0} /\ g.nodeInfos[n].ntype \in {"FN", "IN", "OUT"}
  BY ExecutorsLength, NodeTypes DEF Built
<1>2. ASSUME NEW dtype \in KnownDtype, NEW payload,
             x = Decoder(dtype, payload) \/ x = Encoder(dtype)
      PROVE  /\ IsFuncExecutor(x) /\ x.type # "function"
             /\ DOMAIN x.takes \cup DOMAIN x.gives = {"$in", "$out"}
  <2> HIDE DEF x
  <2>1. QED
    BY <1>2, CodecTypes
<1>3. CASE IsFunction(g, n) /\ i = len
  <2>1. x = MainFunction(g, n)
    BY <1>3, ExecutorsOfNode
  <2>2. g.nodeInfos[n].ntype = "FN"
    BY <1>3 DEF IsFunction
  <2> HIDE DEF x
  <2>3. IsFuncExecutor(x) /\ x.type = "function"
    BY <1>3, <2>1, MainFunctionTypes
  <2> USE DEF x
  <2>4. QED
    BY <1>3, <2>2, <2>3
<1>4. CASE IsFunction(g, n) /\ i # len
  <2>1. i \in 1 .. Len(Manual(g, n))
    <3>1. len = Len(Manual(g, n)) + 1 /\ Len(Manual(g, n)) \in Nat
      BY <1>4, ExecutorsOfNode
    <3> HIDE DEF len
    <3>2. QED
      BY <3>1, <1>1, <1>4
  <2>2. PICK slot \in {<<n, y>> : y \in Entries(SlotNames(g, n))} :
          x = Decoder(g.slotInfos[slot].dtype, g.slotStates[slot].encodedData)
    BY <1>4, <2>1, ExecutorsOfNode
  <2>3. g.slotInfos[slot].dtype \in KnownDtype
    BY <1>4, FunctionSlot DEF HasSlot
  <2>4. g.nodeInfos[n].ntype = "FN"
    BY <1>4 DEF IsFunction
  <2> HIDE DEF x
  <2>5. x.type = "decode"
    BY <2>2, <2>3, CodecTypes
  <2>6. IsFuncExecutor(x) /\ DOMAIN x.takes \cup DOMAIN x.gives = {"$in", "$out"}
    BY <1>2, <2>2, <2>3
  <2> USE DEF x
  <2>7. QED
    BY <1>4, <2>4, <2>5, <2>6
<1>5. CASE ~ IsFunction(g, n)
  <2> DEFINE slot == <<n, IoNames(g, n)[1]>>
             dtype == g.slotInfos[slot].dtype
  <2>1. i = 1 /\ x = IF g.nodeInfos[n].ntype = "IN"
                     THEN Decoder(dtype, g.slotStates[slot].encodedData) ELSE Encoder(dtype)
    BY <1>1, <1>5, ExecutorsOfNode
  <2>2. dtype \in KnownDtype
    BY <1>5, IoSlot DEF HasSlot
  <2>3. g.nodeInfos[n].ntype \in {"IN", "OUT"}
    BY <1>1, <1>5 DEF IsFunction
  <2> HIDE DEF x, dtype
  <2>4. g.nodeInfos[n].ntype = "OUT" <=> x.type = "encode"
    BY <2>1, <2>2, <2>3, CodecTypes
  <2>5. IsFuncExecutor(x) /\ x.type # "function" /\ DOMAIN x.takes \cup DOMAIN x.gives = {"$in", "$out"}
    BY <1>2, <2>1, <2>2
  <2> USE DEF x
  <2>6. QED
    BY <1>5, <2>4, <2>5
<1>6. QED
  BY <1>3, <1>4, <1>5

\* The entries of the stages.
LEMMA FreshEntries ==
  ASSUME NEW g
  PROVE  /\ FreshAttrs(g) = [k \in DOMAIN FreshAttrs(g) |-> FreshAttrs(g)[k]]
         /\ \A k : k \in DOMAIN FreshAttrs(g) <=>
              \E n \in DOMAIN g.nodeInfos : \E i \in DOMAIN Executors(g, n) :
                \E name \in EntryNames(g, n, i) : k = <<n, i, name>>
         /\ \A k \in DOMAIN FreshAttrs(g) : DOMAIN FreshAttrs(g)[k] = {"dtype", "value"}
<1> DEFINE entries == UNION {UNION {{<<n, i, name>> : name \in EntryNames(g, n, i)} :
                                 i \in DOMAIN Executors(g, n)} : n \in DOMAIN g.nodeInfos}
           preloaded(k) == k[3] = "$in" /\ Executors(g, k[1])[k[2]].type = "decode"
<1>1. FreshAttrs(g) = [k \in entries |->
         IF preloaded(k)
         THEN [dtype |-> "$encoded", value |-> Executors(g, k[1])[k[2]].payload] ELSE Unset]
  BY DEF FreshAttrs
<1>2. \A k : k \in entries <=>
              \E n \in DOMAIN g.nodeInfos : \E i \in DOMAIN Executors(g, n) :
                \E name \in EntryNames(g, n, i) : k = <<n, i, name>>
  OBVIOUS
<1> HIDE DEF entries, preloaded
<1>3. \A k \in DOMAIN FreshAttrs(g) : DOMAIN FreshAttrs(g)[k] = {"dtype", "value"}
  BY <1>1 DEF Unset
<1>4. QED
  BY <1>1, <1>2, <1>3

\* They are named by numbers and strings.
LEMMA EntryKeys ==
  ASSUME NEW g, Built(g)
  PROVE  DOMAIN FreshAttrs(g) \subseteq EntryKey
<1> SUFFICES ASSUME NEW n \in DOMAIN g.nodeInfos, NEW i \in DOMAIN Executors(g, n)
             PROVE  n \in Nat /\ i \in Nat /\ EntryNames(g, n, i) \subseteq STRING
  BY FreshEntries DEF EntryKey
<1>1. n \in Nat /\ Entries(SlotNames(g, n)) \subseteq STRING
  BY NodeTypes DEF Built
<1>2. i \in Nat
  BY ExecutorsLength
<1>3. IsFuncExecutor(Executors(g, n)[i])
  BY ExecutorTypes
<1>4. QED
  BY <1>1, <1>2, <1>3 DEF EntryNames, IsFuncExecutor

\* Where the executor of an edge's end has that slot, it is an entry.
LEMMA MainEntryIsFresh ==
  ASSUME NEW g, Built(g), NEW slot, slot[1] \in DOMAIN g.nodeInfos, ExecutorHasSlot(g, slot)
  PROVE  MainEntry(g, slot) \in DOMAIN FreshAttrs(g)
<1> DEFINE n == slot[1]
           last == Len(Executors(g, n))
<1>1. last \in DOMAIN Executors(g, n)
  BY ExecutorsLength
<1>2. slot[2] \in EntryNames(g, n, last)
  <2>1. CASE IsFunction(g, n)
    BY <1>1, <2>1, ExecutorTypes DEF EntryNames, ExecutorHasSlot
  <2>2. CASE ~ IsFunction(g, n)
    BY <1>1, <2>2, ExecutorTypes DEF EntryNames, ExecutorHasSlot
  <2>3. QED
    BY <2>1, <2>2
<1>3. QED
  BY <1>1, <1>2, FreshEntries DEF MainEntry

\* A transfer into the last executor of n, from an entry there is.
IsTransfer(g, n, t) ==
  /\ t.src \in DOMAIN FreshAttrs(g)
  /\ t.dst[1] = n /\ t.dst[2] = Len(Executors(g, n))

LEMMA ManualTransfersFit ==
  ASSUME NEW g, Built(g), NEW n \in DOMAIN g.nodeInfos
  PROVE  LET ts == ManualTransfers(g, n)
         IN  /\ Len(ts) \in Nat /\ DOMAIN ts = 1 .. Len(ts) /\ ts = [i \in 1 .. Len(ts) |-> ts[i]]
             /\ \A i \in 1 .. Len(ts) : IsTransfer(g, n, ts[i])
<1> DEFINE names == Manual(g, n)
           m == Len(names)
           T(i) == [src |-> <<n, i, "$out">>, dst |-> MainEntry(g, <<n, names[i]>>)]
           ts == ManualTransfers(g, n)
<1>1. CASE ~ IsFunction(g, n)
  BY <1>1 DEF ManualTransfers
<1>2. CASE IsFunction(g, n)
  <2>1. ts = [i \in DOMAIN names |-> T(i)]
    BY <1>2 DEF ManualTransfers
  <2>2. m \in Nat /\ DOMAIN names = 1 .. m
    <3>1. names \in Seq(Entries(SlotNames(g, n)))
      BY ManualTypes DEF Built
    <3> HIDE DEF names
    <3>2. QED
      BY <3>1
  <2>3. Len(Executors(g, n)) = m + 1
    BY <1>2, ExecutorsOfNode
  <2>4. ASSUME NEW i \in 1 .. m PROVE IsTransfer(g, n, T(i))
    <3>1. i \in DOMAIN Executors(g, n) /\ i # Len(Executors(g, n))
      BY <2>2, <2>3, ExecutorsLength
    <3>2. DOMAIN Executors(g, n)[i].takes \cup DOMAIN Executors(g, n)[i].gives = {"$in", "$out"}
      BY <3>1, ExecutorTypes
    <3>3. "$out" \in EntryNames(g, n, i)
      BY <3>2 DEF EntryNames
    <3>4. <<n, i, "$out">> \in DOMAIN FreshAttrs(g)
      BY <3>1, <3>3, FreshEntries
    <3>5. QED
      BY <3>4 DEF IsTransfer, MainEntry
  <2> HIDE DEF T, names, m
  <2>5. Len(ts) = m /\ DOMAIN ts = 1 .. m /\ \A i \in 1 .. m : ts[i] = T(i)
    <3> HIDE DEF ts
    <3>1. ts \in Seq({T(i) : i \in 1 .. m}) /\ Len(ts) = m
      BY <2>1, <2>2
    <3>2. QED
      BY <2>1, <2>2, <3>1
  <2> HIDE DEF ts
  <2>6. ts = [i \in 1 .. Len(ts) |-> ts[i]]
    BY <2>1, <2>2, <2>5
  <2>7. /\ Len(ts) \in Nat /\ DOMAIN ts = 1 .. Len(ts)
        /\ \A i \in 1 .. Len(ts) : IsTransfer(g, n, ts[i])
    BY <2>2, <2>4, <2>5
  <2>8. QED
    BY <2>6, <2>7 DEF ts
<1>3. QED
  BY <1>1, <1>2

LEMMA EdgeTransfersFit ==
  ASSUME NEW g, Built(g), NEW n \in DOMAIN g.nodeInfos
  PROVE  LET ts == EdgeTransfers(g, n)
         IN  /\ Len(ts) \in Nat /\ DOMAIN ts = 1 .. Len(ts) /\ ts = [i \in 1 .. Len(ts) |-> ts[i]]
             /\ \A i \in 1 .. Len(ts) : IsTransfer(g, n, ts[i])
<1> DEFINE I == {e \in DOMAIN g.edgeInfos : g.edgeInfos[e].node1 = n}
           edges == SortedSeq(I)
           m == Len(edges)
           T(i) == [src |-> MainEntry(g, From(g.edgeInfos[edges[i]])),
                    dst |-> MainEntry(g, To(g.edgeInfos[edges[i]]))]
           ts == EdgeTransfers(g, n)
<1>1. ts = [i \in DOMAIN edges |-> T(i)]
  BY DEF EdgeTransfers
<1>2. edges \in Seq(I)
  BY SortedEdges DEF Built
<1>3. m \in Nat /\ DOMAIN edges = 1 .. m /\ \A i \in 1 .. m : edges[i] \in I
  <2> HIDE DEF I, edges
  <2>1. QED
    BY <1>2
<1>4. ASSUME NEW i \in 1 .. m PROVE IsTransfer(g, n, T(i))
  <2> DEFINE e == g.edgeInfos[edges[i]]
  <2>1. edges[i] \in DOMAIN g.edgeInfos /\ e.node1 = n
    BY <1>3
  <2> HIDE DEF edges
  <2>2. ExecutorHasSlot(g, From(e)) /\ From(e)[1] \in DOMAIN g.nodeInfos /\ To(e)[1] = n
    BY <2>1 DEF Built, BuildOk, ExecutorHasSlot, To
  <2> HIDE DEF e
  <2>3. MainEntry(g, From(e)) \in DOMAIN FreshAttrs(g)
    BY <2>2, MainEntryIsFresh
  <2>4. MainEntry(g, To(e))[1] = n /\ MainEntry(g, To(e))[2] = Len(Executors(g, n))
    BY <2>2 DEF MainEntry
  <2>5. QED
    BY <2>3, <2>4 DEF IsTransfer, e
<1> HIDE DEF T, I, edges, m
<1>5. Len(ts) = m /\ DOMAIN ts = 1 .. m /\ \A i \in 1 .. m : ts[i] = T(i)
  <2> HIDE DEF ts
  <2>1. ts \in Seq({T(i) : i \in 1 .. m}) /\ Len(ts) = m
    BY <1>1, <1>3
  <2>2. QED
    BY <1>1, <1>3, <2>1
<1> HIDE DEF ts
<1>6. ts = [i \in 1 .. Len(ts) |-> ts[i]]
  BY <1>1, <1>3, <1>5
<1>7. /\ Len(ts) \in Nat /\ DOMAIN ts = 1 .. Len(ts)
      /\ \A i \in 1 .. Len(ts) : IsTransfer(g, n, ts[i])
  BY <1>3, <1>4, <1>5
<1>8. QED
  BY <1>6, <1>7 DEF ts

\* Every transfer of a stage goes from an entry into its last executor.
LEMMA StageTransfers ==
  ASSUME NEW g, Built(g), NEW n \in DOMAIN g.nodeInfos
  PROVE  LET ts == Stage(g, n).transfers
         IN  /\ Len(ts) \in Nat /\ DOMAIN ts = 1 .. Len(ts)
             /\ \A i \in 1 .. Len(ts) : IsTransfer(g, n, ts[i])
<1> DEFINE a == ManualTransfers(g, n)
           b == EdgeTransfers(g, n)
           S == {t \in Entries(a) \cup Entries(b) : IsTransfer(g, n, t)}
<1>1. Stage(g, n).transfers = a \o b
  BY DEF Stage
<1>2. /\ Len(a) \in Nat /\ DOMAIN a = 1 .. Len(a) /\ a = [i \in 1 .. Len(a) |-> a[i]]
      /\ \A i \in 1 .. Len(a) : IsTransfer(g, n, a[i])
  BY ManualTransfersFit
<1>3. /\ Len(b) \in Nat /\ DOMAIN b = 1 .. Len(b) /\ b = [i \in 1 .. Len(b) |-> b[i]]
      /\ \A i \in 1 .. Len(b) : IsTransfer(g, n, b[i])
  BY EdgeTransfersFit
<1> HIDE DEF a, b
<1>4. (\A i \in 1 .. Len(a) : a[i] \in S) /\ (\A i \in 1 .. Len(b) : b[i] \in S)
  BY <1>2, <1>3 DEF Entries
<1> HIDE DEF S
<1>5. a \in Seq(S) /\ b \in Seq(S)
  BY <1>2, <1>3, <1>4
<1>6. a \o b \in Seq(S)
  BY <1>5
<1>7. Len(a \o b) \in Nat /\ DOMAIN (a \o b) = 1 .. Len(a \o b) /\ \A i \in 1 .. Len(a \o b) : (a \o b)[i] \in S
  BY <1>6
<1>8. \A t \in S : IsTransfer(g, n, t)
  BY DEF S
<1>9. QED
  BY <1>1, <1>7, <1>8

LEMMA StageTypes ==
  ASSUME NEW g, Built(g), NEW n \in DOMAIN g.nodeInfos
  PROVE  /\ Stage(g, n).executors = Executors(g, n)
         /\ IsNodeOpsStage(n, Stage(g, n))
<1>1. Stage(g, n).executors = Executors(g, n)
  BY DEF Stage
<1>2. \A x \in Entries(Executors(g, n)) : IsFuncExecutor(x)
  BY ExecutorTypes DEF Entries
<1>3. \A i \in DOMAIN Executors(g, n) :
        Executors(g, n)[i].type = "function" => i = Len(Executors(g, n))
  BY ExecutorTypes
<1>4. \A t \in Entries(Stage(g, n).transfers) :
        <<t.dst[1], t.dst[2]>> = <<n, Len(Executors(g, n))>>
  BY StageTransfers DEF Entries, IsTransfer
<1>5. QED
  BY <1>1, <1>2, <1>3, <1>4 DEF IsNodeOpsStage

----------------------------------------------------------------------------
(***************************************************************************)
(* Transfers                                                               *)
(***************************************************************************)

\* The function that AfterTransfer defines by recursion exists.
LEMMA AfterTransferUnfolds ==
  ASSUME NEW entries, NEW ts, Len(ts) \in Nat
  PROVE  AfterTransfer(entries, ts) =
           [i \in 0 .. Len(ts) |->
              IF i = 0 THEN entries ELSE Transfer(AfterTransfer(entries, ts)[i - 1], ts[i])]
<1> DEFINE n == Len(ts)
           Runs(g, k) == g = [i \in 0 .. k |-> IF i = 0 THEN entries ELSE Transfer(g[i - 1], ts[i])]
           T == {k \in 0 .. n : \E g : Runs(g, k)}
<1>1. AfterTransfer(entries, ts) = CHOOSE g : Runs(g, n)
  BY DEF AfterTransfer
<1>2. 0 \in T
  <2>1. Runs([i \in 0 .. 0 |-> entries], 0)
    OBVIOUS
  <2>2. 0 \in 0 .. n
    OBVIOUS
  <2> HIDE DEF Runs
  <2>3. QED
    BY <2>1, <2>2
<1>3. ASSUME NEW k \in 0 .. n - 1, k \in T PROVE k + 1 \in T
  <2>1. PICK g : Runs(g, k)
    BY <1>3
  <2> DEFINE h == [i \in 0 .. k + 1 |-> IF i <= k THEN g[i] ELSE Transfer(g[k], ts[k + 1])]
  <2>2. g[0] = entries /\ \A i \in 1 .. k : g[i] = Transfer(g[i - 1], ts[i])
    BY <2>1
  <2>3. ASSUME NEW i \in 0 .. k + 1
        PROVE  h[i] = IF i = 0 THEN entries ELSE Transfer(h[i - 1], ts[i])
    <3>1. CASE i = 0
      BY <3>1, <2>2
    <3>2. CASE i \in 1 .. k
      <4>1. h[i] = g[i] /\ h[i - 1] = g[i - 1]
        BY <3>2
      <4>2. QED
        BY <4>1, <3>2, <2>2
    <3>3. CASE i = k + 1
      <4>1. h[i] = Transfer(g[k], ts[k + 1]) /\ h[k] = g[k] /\ i - 1 = k /\ i # 0
        BY <3>3
      <4> HIDE DEF h
      <4>2. QED
        BY <4>1, <3>3
    <3>4. QED
      BY <3>1, <3>2, <3>3
  <2>4. Runs(h, k + 1)
    BY <2>3
  <2>5. k + 1 \in 0 .. n
    OBVIOUS
  <2> HIDE DEF h, Runs
  <2>6. QED
    BY <2>4, <2>5
<1>4. n \in T
  <2> HIDE DEF T
  <2>1. 0 .. n \subseteq T
    BY <1>2, <1>3, BoundedInduction
  <2>2. QED
    BY <2>1
<1>5. \E g : Runs(g, n)
  BY <1>4
<1>6. Runs(AfterTransfer(entries, ts), n)
  <2> HIDE DEF Runs
  <2>1. QED
    BY <1>1, <1>5
<1>7. QED
  BY <1>6

\* Transfers from entries there are keep the entries and make no new values.
LEMMA TransfersKeep ==
  ASSUME NEW D, NEW V, NEW f \in [D -> V], NEW ts, Len(ts) \in Nat,
         \A i \in 1 .. Len(ts) : ts[i].src \in D
  PROVE  AfterTransfer(f, ts)[Len(ts)] \in [D -> V]
<1> DEFINE after == AfterTransfer(f, ts)
           n == Len(ts)
           T == {k \in 0 .. n : after[k] \in [D -> V]}
<1>1. after[0] = f /\ \A k \in 1 .. n : after[k] = Transfer(after[k - 1], ts[k])
  <2>1. after = [i \in 0 .. n |-> IF i = 0 THEN f ELSE Transfer(after[i - 1], ts[i])]
    BY AfterTransferUnfolds
  <2> HIDE DEF after, n
  <2>2. n \in Nat
    BY DEF n
  <2>3. 0 \in 0 .. n /\ \A k \in 1 .. n : k \in 0 .. n /\ k # 0
    BY <2>2
  <2>4. QED
    BY <2>1, <2>3
<1> HIDE DEF after
<1>2. 0 \in T
  BY <1>1
<1>3. ASSUME NEW k \in 0 .. n - 1, k \in T PROVE k + 1 \in T
  <2>1. after[k] \in [D -> V] /\ k + 1 \in 1 .. n /\ (k + 1) - 1 = k
    BY <1>3
  <2>2. after[k + 1] = Transfer(after[k], ts[k + 1])
    BY <1>1, <2>1
  <2>3. after[k][ts[k + 1].src] \in V
    BY <2>1
  <2>4. after[k + 1] \in [D -> V]
    BY <2>1, <2>2, <2>3 DEF Transfer
  <2>5. QED
    BY <2>1, <2>4
<1>4. n \in T
  <2> HIDE DEF T
  <2>1. 0 .. n \subseteq T
    BY <1>2, <1>3, BoundedInduction
  <2>2. QED
    BY <2>1
<1>5. QED
  BY <1>4 DEF after

----------------------------------------------------------------------------
(***************************************************************************)
(* The pipeline of the last build                                          *)
(***************************************************************************)

\* The stages and attributes are those of the graph that was built, and every
\* node of it has its place in the sequence.
Loaded ==
  /\ built \in Graphs /\ BuildOk(built) /\ generation > 0
  /\ stages = [n \in DOMAIN built.nodeInfos |-> Stage(built, n)]
  /\ attrs = [k \in DOMAIN FreshAttrs(built) |-> attrs[k]]
  /\ \A i \in DOMAIN sequence :
       sequence[i][1] = generation => sequence[i][2] \in DOMAIN built.nodeInfos
  /\ \A n \in DOMAIN built.nodeInfos :
       \E i \in DOMAIN sequence : sequence[i] = <<generation, n>>

\* Nothing was built yet.
Unloaded ==
  /\ built = NoGraph /\ generation = 0
  /\ sequence = << >> /\ completed = EmptyMap /\ attrs = EmptyMap /\ stages = EmptyMap

\* What ran before position p belongs to the last build and is recorded, and
\* there is an executor at p if its stage does.
Reached(p) ==
  /\ p[1] \in DOMAIN sequence
  /\ \A i \in 1 .. p[1] - 1 :
       /\ sequence[i][1] = generation
       /\ sequence[i][2] \in GraphOutputs(built) => sequence[i][2] \in DOMAIN completed
  /\ sequence[p[1]][1] = generation => p[2] \in DOMAIN stages[sequence[p[1]][2]].executors

RunnerInv ==
  /\ TypeOK
  /\ sequence \in Seq(Nat \X Nat)
  /\ phase \in {"idle", "stepping"} =>
       /\ Unloaded \/ Loaded
       /\ Loaded => DOMAIN completed \subseteq GraphOutputs(built)
       /\ saved = <<1, 1>> \/ Reached(saved)
  /\ phase = "stepping" => Loaded /\ Reached(pos)
  /\ phase = "idle" => SuccessIsComplete

LEMMA RunnerInit == Init => RunnerInv
<1> SUFFICES ASSUME Init PROVE RunnerInv
  OBVIOUS
<1>1. TypeOK
  BY RunnerAssumption DEF Init, TypeOK, EmptyMap
<1>2. Unloaded /\ sequence \in Seq(Nat \X Nat)
  BY DEF Init, Unloaded, EmptyMap
<1>3. QED
  BY <1>1, <1>2 DEF Init, RunnerInv, Loaded, SuccessIsComplete

LEMMA Concatenation ==
  ASSUME NEW S, NEW a \in Seq(S), NEW b \in Seq(S)
  PROVE  /\ a \o b \in Seq(S)
         /\ Len(a) \in Nat /\ DOMAIN a = 1 .. Len(a) /\ Len(b) \in Nat
         /\ DOMAIN (a \o b) = 1 .. Len(a) + Len(b)
         /\ \A i \in 1 .. Len(a) : (a \o b)[i] = a[i]
         /\ \A i \in 1 .. Len(b) : (a \o b)[Len(a) + i] = b[i]
OBVIOUS

\* A build that succeeds loads the pipeline, whatever was left of earlier ones.
LEMMA BuildLoads ==
  ASSUME RunnerInv, NEW g \in Graphs, Build(g), BuildOk(g), phase' = "idle",
         generation' = generation + 1
  PROVE  /\ Loaded' /\ sequence' \in Seq(Nat \X Nat)
         /\ \A i \in DOMAIN sequence' : sequence'[i][1] \in 1 .. generation'
<1> DEFINE new == [i \in DOMAIN g.sortOrder |-> <<generation + 1, g.sortOrder[i]>>]
           order == g.sortOrder
<1>1. /\ order \in Seq(Nat) /\ DOMAIN g.nodeInfos \subseteq Entries(order)
      /\ Entries(order) \subseteq DOMAIN g.nodeInfos
  BY RunnerAssumption DEF IsGraphState, BuildOk
<1>2. generation \in Nat /\ \A i \in DOMAIN sequence : sequence[i][1] \in 1 .. generation
  BY DEF RunnerInv, TypeOK
<1>3. /\ sequence' = sequence \o new /\ built' = g /\ attrs' = FreshAttrs(g)
      /\ stages' = [n \in DOMAIN g.nodeInfos |-> Stage(g, n)]
  BY DEF Build
<1>4. /\ DOMAIN order = 1 .. Len(order) /\ Len(order) \in Nat
      /\ \A i \in 1 .. Len(order) : order[i] \in Nat /\ order[i] \in DOMAIN g.nodeInfos
      /\ \A n \in DOMAIN g.nodeInfos : \E i \in 1 .. Len(order) : order[i] = n
  <2>1. DOMAIN order = 1 .. Len(order) /\ Len(order) \in Nat
    BY <1>1
  <2>2. \A i \in 1 .. Len(order) : order[i] \in Nat
    BY <1>1
  <2>3. QED
    BY <1>1, <2>1, <2>2 DEF Entries
<1>5. new = [i \in 1 .. Len(order) |-> <<generation + 1, order[i]>>]
  BY <1>4
<1> HIDE DEF new, order
<1>6. /\ new \in Seq(Nat \X Nat) /\ Len(new) = Len(order)
      /\ \A i \in 1 .. Len(order) : new[i] = <<generation + 1, order[i]>>
  BY <1>2, <1>4, <1>5
<1>7. sequence \in Seq(Nat \X Nat)
  BY DEF RunnerInv
<1>8. /\ sequence' \in Seq(Nat \X Nat)
      /\ Len(sequence) \in Nat /\ DOMAIN sequence = 1 .. Len(sequence)
      /\ DOMAIN sequence' = 1 .. Len(sequence) + Len(order)
      /\ \A i \in 1 .. Len(sequence) : sequence'[i] = sequence[i]
      /\ \A i \in 1 .. Len(order) : sequence'[Len(sequence) + i] = <<generation + 1, order[i]>>
  <2>1. new \in Seq(Nat \X Nat)
    BY <1>6
  <2>2. /\ sequence \o new \in Seq(Nat \X Nat)
        /\ Len(sequence) \in Nat /\ DOMAIN sequence = 1 .. Len(sequence)
        /\ DOMAIN (sequence \o new) = 1 .. Len(sequence) + Len(new)
        /\ \A i \in 1 .. Len(sequence) : (sequence \o new)[i] = sequence[i]
        /\ \A i \in 1 .. Len(new) : (sequence \o new)[Len(sequence) + i] = new[i]
    BY <1>7, <2>1, Concatenation
  <2>3. Len(new) = Len(order) /\ sequence' = sequence \o new
    BY <1>3, <1>6
  <2>4. \A i \in 1 .. Len(order) : sequence'[Len(sequence) + i] = <<generation + 1, order[i]>>
    BY <1>6, <2>2, <2>3
  <2>5. QED
    BY <2>2, <2>3, <2>4
<1>9. ASSUME NEW i \in DOMAIN sequence'
      PROVE  /\ sequence'[i][1] \in 1 .. generation + 1
             /\ sequence'[i][1] = generation + 1 => sequence'[i][2] \in DOMAIN g.nodeInfos
  <2>1. CASE i \in 1 .. Len(sequence)
    <3>1. sequence'[i] = sequence[i] /\ sequence[i][1] \in 1 .. generation
      BY <1>2, <1>8, <2>1
    <3>2. QED
      BY <3>1, <1>2
  <2>2. CASE i \notin 1 .. Len(sequence)
    <3>1. i - Len(sequence) \in 1 .. Len(order) /\ Len(sequence) + (i - Len(sequence)) = i
      BY <1>4, <1>8, <2>2, SMTT(30)
    <3>2. sequence'[i] = <<generation + 1, order[i - Len(sequence)]>>
      BY <1>8, <3>1
    <3>3. QED
      BY <1>2, <1>4, <3>1, <3>2
  <2>3. QED
    BY <2>1, <2>2
<1>10. ASSUME NEW n \in DOMAIN g.nodeInfos
       PROVE  \E i \in DOMAIN sequence' : sequence'[i] = <<generation + 1, n>>
  <2>1. PICK i \in 1 .. Len(order) : order[i] = n
    BY <1>4
  <2>2. Len(sequence) + i \in DOMAIN sequence'
    BY <1>4, <1>8
  <2>3. QED
    BY <1>8, <2>1, <2>2
<1>11. generation' > 0
  BY <1>2
<1>12. Loaded'
  <2>1. attrs' = [k \in DOMAIN FreshAttrs(g) |-> attrs'[k]]
    BY <1>3, FreshEntries
  <2>2. QED
    BY <1>3, <1>9, <1>10, <1>11, <2>1 DEF Loaded
<1>13. QED
  BY <1>8, <1>9, <1>12

LEMMA BuildInv ==
  ASSUME RunnerInv, NEW g \in Graphs, Build(g)
  PROVE  RunnerInv'
<1>1. CASE ~ BuildOk(g)
  <2>1. /\ built' = g /\ phase' = "aborted"
        /\ UNCHANGED <<stages, sequence, generation, attrs, started, tasks, saved, pos, completed, result>>
    BY <1>1 DEF Build, functionVars
  <2>2. TypeOK'
    BY <2>1 DEF RunnerInv, TypeOK
  <2>3. QED
    BY <2>1, <2>2 DEF RunnerInv
<1>2. CASE BuildOk(g)
  <2>1. /\ phase = "idle" /\ phase' = "idle" /\ generation < MaxBuilds
        /\ built' = g /\ generation' = generation + 1
        /\ stages' = [n \in DOMAIN g.nodeInfos |-> Stage(g, n)]
        /\ attrs' = FreshAttrs(g) /\ started' = EmptyMap /\ saved' = <<1, 1>>
        /\ completed' = EmptyMap /\ result' = NoResult
        /\ UNCHANGED <<tasks, pos>>
    BY <1>2 DEF Build
  <2>2. Built(g)
    BY <1>2, RunnerAssumption DEF Built
  <2>3. /\ Loaded' /\ sequence' \in Seq(Nat \X Nat)
        /\ \A i \in DOMAIN sequence' : sequence'[i][1] \in 1 .. generation'
    BY <1>2, <2>1, BuildLoads
  <2>4. \A n \in DOMAIN stages' : IsNodeOpsStage(n, stages'[n])
    BY <2>1, <2>2, StageTypes
  <2>5. \A k \in DOMAIN attrs' : k \in EntryKey /\ DOMAIN attrs'[k] = {"dtype", "value"}
    BY <2>1, <2>2, EntryKeys, FreshEntries
  <2>6. generation' \in 0 .. MaxBuilds
    BY <2>1, RunnerAssumption DEF RunnerInv, TypeOK
  <2>7. DOMAIN started' \subseteq Nat \X Nat /\ DOMAIN completed' = {}
    BY <2>1 DEF EmptyMap
  <2>8. TypeOK'
    <3>1. /\ pos \in Nat \X Nat /\ \A t \in DOMAIN tasks : tasks[t] \in {"pending", "fulfilled"}
      BY DEF RunnerInv, TypeOK
    <3>2. {saved', pos'} \subseteq Nat \X Nat
      BY <2>1, <3>1
    <3>3. \A t \in DOMAIN tasks' : tasks'[t] \in {"pending", "fulfilled"}
      BY <2>1, <3>1
    <3>4. built' \in Graphs \cup {NoGraph}
      BY <2>1
    <3>5. /\ phase' \in {"idle", "stepping", "aborted", "undefined"}
          /\ result' # NoResult => result'.status \in {"SUCCESS", "PARTIAL", "ERROR"}
      BY <2>1
    <3>6. QED
      BY <2>3, <2>4, <2>5, <2>6, <2>7, <3>2, <3>3, <3>4, <3>5 DEF TypeOK
  <2>9. SuccessIsComplete'
    BY <2>1 DEF SuccessIsComplete
  <2>10. QED
    BY <2>1, <2>3, <2>7, <2>8, <2>9 DEF RunnerInv
<1>3. QED
  BY <1>1, <1>2

\* The stage at a place of the sequence that belongs to the last build.
LEMMA StageAt ==
  ASSUME RunnerInv, Loaded, NEW i \in DOMAIN sequence, sequence[i][1] = generation
  PROVE  LET n == sequence[i][2]
         IN  /\ Built(built) /\ n \in DOMAIN built.nodeInfos /\ n \in Nat
             /\ stages[n] = Stage(built, n) /\ stages[n].executors = Executors(built, n)
             /\ 1 \in DOMAIN stages[n].executors
             /\ DOMAIN stages[n].executors = 1 .. Len(stages[n].executors)
             /\ Len(stages[n].executors) \in Nat
<1> DEFINE n == sequence[i][2]
<1>1. Built(built)
  BY RunnerAssumption DEF Loaded, Built
<1>2. n \in DOMAIN built.nodeInfos /\ stages[n] = Stage(built, n)
  BY DEF Loaded
<1> HIDE DEF n
<1>3. /\ stages[n].executors = Executors(built, n) /\ n \in Nat
      /\ Len(Executors(built, n)) \in Nat
      /\ DOMAIN Executors(built, n) = 1 .. Len(Executors(built, n))
      /\ 1 \in DOMAIN Executors(built, n)
  BY <1>1, <1>2, StageTypes, ExecutorsLength, NodeTypes DEF Built
<1>4. QED
  BY <1>1, <1>2, <1>3 DEF n

LEMMA BeginStepInv ==
  ASSUME RunnerInv, BeginStep
  PROVE  RunnerInv'
<1>1. /\ phase = "idle"
      /\ UNCHANGED <<built, stages, sequence, generation, attrs, started, tasks, saved, completed>>
  BY DEF BeginStep, pipelineVars, functionVars
<1>2. /\ Unloaded \/ Loaded
      /\ sequence \in Seq(Nat \X Nat) /\ Len(sequence) \in Nat /\ DOMAIN sequence = 1 .. Len(sequence)
      /\ saved = <<1, 1>> \/ Reached(saved)
      /\ Loaded => DOMAIN completed \subseteq GraphOutputs(built)
  <2>1. sequence \in Seq(Nat \X Nat)
    BY DEF RunnerInv
  <2>2. QED
    BY <1>1, <2>1 DEF RunnerInv
<1>3. CASE saved[1] > Len(sequence)
  <2>1. result' = Report("SUCCESS", EmptyMap, {}) /\ UNCHANGED <<pos, phase>>
    BY <1>2, <1>3 DEF BeginStep, RunnerInv, TypeOK
  <2>2. ~ Reached(saved)
    BY <1>2, <1>3 DEF Reached
  <2>3. Len(sequence) = 0
    BY <1>2, <1>3, <2>2
  <2>4. Loaded => DOMAIN built.nodeInfos = {}
    BY <1>2, <2>3 DEF Loaded
  <2>5. built # NoGraph => GraphOutputs(built) = {}
    BY <1>2, <2>4 DEF Unloaded, GraphOutputs
  <2>6. SuccessIsComplete'
    BY <1>1, <2>1, <2>5 DEF SuccessIsComplete, Report, EmptyMap, GraphOutputs
  <2>7. TypeOK'
    BY <1>1, <2>1 DEF RunnerInv, TypeOK, Report
  <2>8. (Unloaded \/ Loaded)' /\ Loaded' = Loaded
    BY <1>1, <1>2 DEF Unloaded, Loaded
  <2>9. QED
    BY <1>1, <1>2, <2>1, <2>2, <2>6, <2>7, <2>8 DEF RunnerInv, GraphOutputs
<1>4. CASE saved[1] <= Len(sequence)
  <2>1. phase' = "stepping" /\ pos' = saved /\ UNCHANGED result
    BY <1>2, <1>4 DEF BeginStep, RunnerInv, TypeOK
  <2>2. Loaded /\ (saved = <<1, 1>> => 1 \in DOMAIN sequence)
    <3>1. saved[1] \in DOMAIN sequence
      BY <1>2, <1>4 DEF Reached
    <3>2. ~ Unloaded
      BY <3>1 DEF Unloaded
    <3>3. QED
      BY <1>2, <3>1, <3>2
  <2>3. Reached(saved)
    <3>1. CASE saved = <<1, 1>>
      <4>1. 1 \in DOMAIN sequence /\ 1 .. saved[1] - 1 = {} /\ saved[1] = 1 /\ saved[2] = 1
        BY <2>2, <3>1
      <4>2. sequence[1][1] = generation => 1 \in DOMAIN stages[sequence[1][2]].executors
        BY <2>2, <4>1, StageAt
      <4>3. QED
        BY <4>1, <4>2 DEF Reached
    <3>2. QED
      BY <1>2, <3>1
  <2>4. Reached(pos)' /\ Reached(saved)'
    BY <1>1, <2>1, <2>3 DEF Reached, GraphOutputs
  <2>5. TypeOK'
    BY <1>1, <2>1 DEF RunnerInv, TypeOK
  <2>6. Loaded'
    BY <1>1, <2>2 DEF Loaded
  <2>7. QED
    BY <1>1, <1>2, <2>1, <2>2, <2>4, <2>5, <2>6 DEF RunnerInv, GraphOutputs
<1>5. QED
  BY <1>3, <1>4 DEF BeginStep

----------------------------------------------------------------------------
(***************************************************************************)
(* Running an executor                                                     *)
(***************************************************************************)

\* The state in which an executor runs that is of the last build.
Running ==
  /\ RunnerInv /\ phase = "stepping" /\ sequence[pos[1]][1] = generation
  /\ UNCHANGED pipelineVars

\* Attributes of the same entries, whatever their values.
SameEntries(A) ==
  /\ A = [k \in DOMAIN FreshAttrs(built) |-> A[k]]
  /\ \A k \in DOMAIN A : DOMAIN A[k] = {"dtype", "value"}

LEMMA RunningStage ==
  ASSUME Running
  PROVE  /\ Loaded /\ Reached(pos) /\ Built(built)
         /\ pos[1] \in DOMAIN sequence /\ pos[1] \in Nat /\ pos[2] \in Nat
         /\ Self \in Nat \X Nat
         /\ StageNode \in DOMAIN built.nodeInfos
         /\ ThisStage = Stage(built, StageNode) /\ ThisStage.executors = Executors(built, StageNode)
         /\ pos[2] \in 1 .. Len(ThisStage.executors)
         /\ DOMAIN ThisStage.executors = 1 .. Len(ThisStage.executors)
         /\ Len(ThisStage.executors) \in Nat
<1>1. Loaded /\ Reached(pos) /\ sequence[pos[1]][1] = generation /\ RunnerInv
  BY DEF Running, RunnerInv
<1>2. pos[1] \in DOMAIN sequence /\ pos[1] \in Nat /\ pos[2] \in Nat
  BY <1>1 DEF Reached, RunnerInv, TypeOK
<1>3. /\ Built(built) /\ StageNode \in DOMAIN built.nodeInfos /\ StageNode \in Nat
      /\ ThisStage = Stage(built, StageNode) /\ ThisStage.executors = Executors(built, StageNode)
      /\ DOMAIN ThisStage.executors = 1 .. Len(ThisStage.executors)
      /\ Len(ThisStage.executors) \in Nat
  BY <1>1, <1>2, StageAt DEF StageNode, ThisStage
<1>4. pos[2] \in DOMAIN ThisStage.executors
  BY <1>1 DEF Reached, StageNode, ThisStage
<1>5. Self \in Nat \X Nat
  BY <1>2, <1>3 DEF Self
<1>6. QED
  BY <1>1, <1>2, <1>3, <1>4, <1>5

\* What the transfers, a function or a decoder write are entries there are.
LEMMA TransferredEntries ==
  ASSUME Running
  PROVE  SameEntries(Transferred)
<1> DEFINE ts == ThisStage.transfers
           D == DOMAIN FreshAttrs(built)
           V == {attrs[k] : k \in D}
<1>1. attrs \in [D -> V] /\ DOMAIN attrs = D
  <2>1. attrs = [k \in D |-> attrs[k]]
    BY RunningStage DEF Loaded
  <2> HIDE DEF D
  <2>2. QED
    BY <2>1
<1>2. \A v \in V : DOMAIN v = {"dtype", "value"}
  BY <1>1 DEF Running, RunnerInv, TypeOK
<1>3. Len(ts) \in Nat /\ \A i \in 1 .. Len(ts) : ts[i].src \in D
  BY RunningStage, StageTransfers DEF IsTransfer
<1> HIDE DEF D, V, ts
<1>4. Transferred \in [D -> V]
  <2>1. AfterTransfer(attrs, ts)[Len(ts)] \in [D -> V]
    BY <1>1, <1>3, TransfersKeep
  <2>2. QED
    BY <1>1, <2>1 DEF Transferred, Deliver, ts
<1>5. Transferred = [k \in D |-> Transferred[k]] /\ \A k \in DOMAIN Transferred : Transferred[k] \in V
  BY <1>4
<1>6. QED
  BY <1>2, <1>5 DEF SameEntries, D

LEMMA WrittenEntries ==
  ASSUME NEW A, SameEntries(A)
  PROVE  SameEntries(Written(A)) /\ SameEntries(Collected(A))
<1> DEFINE D == DOMAIN FreshAttrs(built)
           B == Written(A)
           C == Collected(A)
<1>1. DOMAIN A = D /\ \A k \in D : DOMAIN A[k] = {"dtype", "value"}
  BY DEF SameEntries
<1>2. B = [k \in D |-> B[k]] /\ C = [k \in D |-> C[k]]
  BY <1>1 DEF Written, Collected
<1>3. \A k \in D : DOMAIN B[k] = {"dtype", "value"}
  BY <1>1 DEF Written
<1>4. \A k \in D : DOMAIN C[k] = {"dtype", "value"}
  BY <1>1 DEF Collected
<1>5. QED
  BY <1>2, <1>3, <1>4 DEF SameEntries

\* What every end of a run has in common.
Ends ==
  /\ Running /\ SameEntries(attrs') /\ DOMAIN started' \subseteq Nat \X Nat
  /\ \A t \in DOMAIN tasks' : tasks'[t] \in {"pending", "fulfilled"}

LEMMA EndsKeepPipeline ==
  ASSUME Ends
  PROVE  /\ Loaded' /\ sequence' \in Seq(Nat \X Nat)
         /\ UNCHANGED <<built, stages, sequence, generation>>
         /\ \A n \in DOMAIN stages' : IsNodeOpsStage(n, stages'[n])
         /\ \A k \in DOMAIN attrs' : k \in EntryKey /\ DOMAIN attrs'[k] = {"dtype", "value"}
         /\ built' \in Graphs \cup {NoGraph} /\ generation' \in 0 .. MaxBuilds
         /\ \A i \in DOMAIN sequence' : sequence'[i][1] \in 1 .. generation'
<1>1. UNCHANGED <<built, stages, sequence, generation>> /\ RunnerInv
  BY DEF Ends, Running, pipelineVars
<1>2. Loaded /\ Built(built)
  BY RunningStage DEF Ends
<1>3. Loaded'
  BY <1>1, <1>2 DEF Ends, SameEntries, Loaded
<1>4. DOMAIN attrs' \subseteq EntryKey
  <2>1. DOMAIN attrs' = DOMAIN FreshAttrs(built)
    BY DEF Ends, SameEntries
  <2>2. QED
    BY <1>2, <2>1, EntryKeys
<1>5. \A k \in DOMAIN attrs' : DOMAIN attrs'[k] = {"dtype", "value"}
  BY DEF Ends, SameEntries
<1>6. QED
  BY <1>1, <1>3, <1>4, <1>5 DEF RunnerInv, TypeOK

\* Outputs are only added.
LEMMA RecordedOutputs ==
  ASSUME Running, NEW A
  PROVE  /\ DOMAIN Recorded(A) \subseteq GraphOutputs(built)
         /\ DOMAIN completed \subseteq DOMAIN Recorded(A)
         /\ StageNode \in GraphOutputs(built) => StageNode \in DOMAIN Recorded(A)
<1>1. /\ Executor.type = "encode" <=> StageNode \in GraphOutputs(built)
  <2>1. Executor = Executors(built, StageNode)[pos[2]] /\ pos[2] \in DOMAIN Executors(built, StageNode)
    BY RunningStage DEF Executor
  <2>2. QED
    BY <2>1, RunningStage, ExecutorTypes DEF GraphOutputs
<1>2. DOMAIN completed \subseteq GraphOutputs(built)
  BY RunningStage DEF Running, RunnerInv
<1>3. QED
  BY <1>1, <1>2 DEF Recorded

\* A position stays reached while outputs are added.
LEMMA ReachedKept ==
  ASSUME Ends, DOMAIN completed \subseteq DOMAIN completed', NEW p, Reached(p)
  PROVE  /\ p[1] \in DOMAIN sequence'
         /\ \A i \in 1 .. p[1] - 1 :
              /\ sequence'[i][1] = generation'
              /\ sequence'[i][2] \in GraphOutputs(built') => sequence'[i][2] \in DOMAIN completed'
         /\ sequence'[p[1]][1] = generation' =>
              p[2] \in DOMAIN stages'[sequence'[p[1]][2]].executors
BY EndsKeepPipeline DEF Reached

LEMMA PauseInv ==
  ASSUME Ends, NEW awaits, Pause(awaits) \/ Break
  PROVE  RunnerInv'
<1>1. /\ phase' = "idle" /\ UNCHANGED <<pos, completed>>
      /\ saved' = pos \/ saved' = saved
      /\ result'.status \in {"PARTIAL", "ERROR"}
  BY DEF Pause, Break, Report
<1>2. /\ Reached(pos)
      /\ saved = <<1, 1>> \/ Reached(saved)
      /\ DOMAIN completed \subseteq GraphOutputs(built) /\ {saved, pos} \subseteq Nat \X Nat
  BY RunningStage DEF Ends, Running, RunnerInv, TypeOK
<1>4. saved' = <<1, 1>> \/ Reached(saved)'
  <2>1. saved' = <<1, 1>> \/ Reached(saved')
    BY <1>1, <1>2
  <2>2. ASSUME Reached(saved') PROVE Reached(saved)'
    BY <1>1, <2>2, ReachedKept DEF Reached
  <2>3. QED
    BY <2>1, <2>2
<1>5. TypeOK'
  BY <1>1, <1>2, EndsKeepPipeline DEF Ends, TypeOK
<1>6. SuccessIsComplete'
  BY <1>1 DEF SuccessIsComplete
<1>7. QED
  BY <1>1, <1>2, <1>4, <1>5, <1>6, EndsKeepPipeline DEF RunnerInv

LEMMA FinishInv ==
  ASSUME Ends, NEW A, FinishExecutor(A)
  PROVE  RunnerInv'
<1> DEFINE len == Len(ThisStage.executors)
<1>1. /\ completed' = Recorded(A)
      /\ DOMAIN completed' \subseteq GraphOutputs(built)
      /\ DOMAIN completed \subseteq DOMAIN completed'
      /\ StageNode \in GraphOutputs(built) => StageNode \in DOMAIN completed'
  BY RecordedOutputs DEF FinishExecutor, Ends
<1>2. /\ Reached(pos) /\ pos[1] \in DOMAIN sequence /\ pos[1] \in Nat /\ pos[2] \in 1 .. len
      /\ len \in Nat /\ DOMAIN ThisStage.executors = 1 .. len
      /\ sequence[pos[1]][1] = generation
      /\ saved = <<1, 1>> \/ Reached(saved)
      /\ {saved, pos} \subseteq Nat \X Nat /\ sequence \in Seq(Nat \X Nat)
      /\ phase = "stepping"
      /\ result # NoResult => result.status \in {"SUCCESS", "PARTIAL", "ERROR"}
  BY RunningStage DEF Ends, Running, RunnerInv, TypeOK
<1>3. Len(sequence) \in Nat /\ DOMAIN sequence = 1 .. Len(sequence)
  BY <1>2
<1>4. /\ UNCHANGED <<built, stages, sequence, generation>>
      /\ Loaded'
  BY EndsKeepPipeline
<1>5. \A i \in 1 .. pos[1] :
        /\ sequence[i][1] = generation
        /\ sequence[i][2] \in GraphOutputs(built) => sequence[i][2] \in DOMAIN completed'
  <2>1. TAKE i \in 1 .. pos[1]
  <2>2. CASE i = pos[1]
    BY <1>1, <1>2, <2>2 DEF StageNode
  <2>3. CASE i # pos[1]
    <3>1. i \in 1 .. pos[1] - 1
      BY <1>2, <2>3
    <3>2. QED
      BY <1>1, <1>2, <3>1 DEF Reached
  <2>4. QED
    BY <2>2, <2>3
<1>6. CASE UNCHANGED <<saved, phase, result>> /\ Reached(pos)' /\ pos' \in Nat \X Nat
  <2>1. saved' = <<1, 1>> \/ Reached(saved)'
    BY <1>1, <1>2, <1>6, ReachedKept DEF Reached
  <2>2. TypeOK'
    BY <1>2, <1>6, EndsKeepPipeline DEF Ends, TypeOK
  <2>3. QED
    BY <1>1, <1>2, <1>6, <2>1, <2>2, EndsKeepPipeline DEF RunnerInv
<1>7. CASE ~ IsLast /\ pos' = <<pos[1], pos[2] + 1>> /\ UNCHANGED <<saved, phase, result>>
  <2>0. pos[2] # len
    BY <1>7 DEF IsLast
  <2>1. pos' \in Nat \X Nat /\ pos'[1] = pos[1] /\ pos'[2] \in 1 .. len
    <3>1. pos[1] \in Nat /\ pos[2] \in 1 .. len /\ len \in Nat
      BY <1>2
    <3> HIDE DEF len
    <3>2. pos[2] \in Nat /\ pos[2] + 1 \in 1 .. len
      BY <3>1, <2>0
    <3>3. QED
      BY <1>7, <3>1, <3>2
  <2>2. pos'[2] \in DOMAIN stages'[sequence'[pos'[1]][2]].executors
    BY <1>2, <1>4, <2>1 DEF ThisStage, StageNode
  <2>3. \A i \in 1 .. pos'[1] - 1 : i \in 1 .. pos[1]
    BY <1>2, <2>1
  <2>4. Reached(pos)'
    BY <1>2, <1>4, <1>5, <2>1, <2>2, <2>3 DEF Reached, GraphOutputs
  <2>5. QED
    BY <1>6, <1>7, <2>1, <2>4
<1>8. CASE IsLast /\ pos[1] < Len(sequence) /\ pos' = <<pos[1] + 1, 1>> /\ UNCHANGED <<saved, phase, result>>
  <2>1. /\ pos' \in Nat \X Nat /\ pos'[1] = pos[1] + 1 /\ pos'[2] = 1
        /\ pos'[1] \in DOMAIN sequence
    <3>0. pos[1] \in Nat
      BY <1>2
    <3>1. pos[1] + 1 \in DOMAIN sequence
      BY <3>0, <1>3, <1>8
    <3>2. QED
      BY <1>8, <3>0, <3>1
  <2>2. sequence[pos'[1]][1] = generation => 1 \in DOMAIN stages[sequence[pos'[1]][2]].executors
    BY <2>1, RunningStage, StageAt DEF Ends, Running
  <2>3. \A i \in 1 .. pos'[1] - 1 : i \in 1 .. pos[1]
    BY <1>2, <2>1
  <2>4. Reached(pos)'
    BY <1>4, <1>5, <2>1, <2>2, <2>3 DEF Reached, GraphOutputs
  <2>5. QED
    BY <1>6, <1>8, <2>1, <2>4
<1>9. CASE IsLast /\ pos[1] = Len(sequence) /\ saved' = <<1, 1>> /\ phase' = "idle"
            /\ result' = Report("SUCCESS", Recorded(A), {}) /\ UNCHANGED pos
  <2>1. GraphOutputs(built) \subseteq DOMAIN completed'
    <3>0. Loaded
      BY RunningStage DEF Ends
    <3>1. SUFFICES ASSUME NEW n \in GraphOutputs(built) PROVE n \in DOMAIN completed'
      OBVIOUS
    <3>2. PICK i \in DOMAIN sequence : sequence[i] = <<generation, n>>
      BY <3>0 DEF Loaded, GraphOutputs
    <3>3. i \in 1 .. pos[1] /\ sequence[i][2] = n
      BY <1>3, <1>9, <3>2
    <3>4. QED
      BY <1>5, <3>3
  <2>2. SuccessIsComplete'
    BY <1>1, <1>4, <1>9, <2>1 DEF SuccessIsComplete, Report, GraphOutputs
  <2>3. TypeOK'
    <3>1. result'.status = "SUCCESS" /\ {saved', pos'} \subseteq Nat \X Nat
      BY <1>2, <1>9 DEF Report
    <3>2. QED
      BY <1>9, <3>1, EndsKeepPipeline DEF Ends, TypeOK
  <2>4. QED
    BY <1>1, <1>9, <2>2, <2>3, EndsKeepPipeline DEF RunnerInv
<1>10. QED
  BY <1>7, <1>8, <1>9 DEF FinishExecutor

\* The program ends, or goes astray, with everything else as it was.
LEMMA StopInv ==
  ASSUME RunnerInv, phase' \in {"aborted", "undefined"},
         UNCHANGED <<pipelineVars, functionVars, saved, pos, completed, result>>
  PROVE  RunnerInv'
<1>1. TypeOK'
  BY DEF RunnerInv, TypeOK, pipelineVars, functionVars
<1>2. QED
  BY <1>1 DEF RunnerInv, pipelineVars

LEMMA RunInv ==
  ASSUME Running, NEW A, SameEntries(A), RunsExecutor(A)
  PROVE  RunnerInv'
<1>1. /\ DOMAIN started \subseteq Nat \X Nat /\ Self \in Nat \X Nat
      /\ \A t \in DOMAIN tasks : tasks[t] \in {"pending", "fulfilled"}
  BY RunningStage DEF Running, RunnerInv, TypeOK
<1>2. ASSUME Abort PROVE RunnerInv'
  BY <1>2, StopInv DEF Abort, Running
<1>3. ASSUME NEW B, SameEntries(B), UNCHANGED started,
             UNCHANGED tasks \/ ReleaseTask,
             \/ FinishExecutor(B)
             \/ attrs' = B /\ (Pause({}) \/ Break)
      PROVE  RunnerInv'
  <2>1. attrs' = B
    BY <1>3 DEF FinishExecutor
  <2>2. \A t \in DOMAIN tasks' : tasks'[t] \in {"pending", "fulfilled"}
    BY <1>1, <1>3 DEF ReleaseTask
  <2>3. Ends
    BY <1>1, <1>3, <2>1, <2>2 DEF Ends
  <2>4. QED
    BY <1>3, <2>3, FinishInv, PauseInv
<1>4. ASSUME NEW B, SameEntries(B), attrs' = B, AddTask, DOMAIN started' = DOMAIN started \cup {Self},
             NEW awaits, Pause(awaits)
      PROVE  RunnerInv'
  <2>1. \A t \in DOMAIN tasks' : tasks'[t] \in {"pending", "fulfilled"}
    BY <1>1, <1>4 DEF AddTask
  <2>2. Ends
    BY <1>1, <1>4, <2>1 DEF Ends
  <2>3. QED
    BY <1>4, <2>2, PauseInv
<1>5. SameEntries(Written(A)) /\ SameEntries(Collected(A))
  BY WrittenEntries
<1>6. CASE RunSync(A)
  BY <1>2, <1>3, <1>5, <1>6 DEF RunSync
<1>7. CASE HandOver(A)
  BY <1>2, <1>4, <1>7 DEF HandOver
<1>8. CASE Resume(A)
  BY <1>3, <1>5, <1>8 DEF Resume
<1>9. CASE Dispatch(A)
  BY <1>2, <1>4, <1>5, <1>9 DEF Dispatch
<1>10. CASE Capture(A)
  BY <1>2, <1>3, <1>10 DEF Capture
<1>11. QED
  BY <1>2, <1>6, <1>7, <1>8, <1>9, <1>10 DEF RunsExecutor

LEMMA RunExecutorInv ==
  ASSUME RunnerInv, RunExecutor
  PROVE  RunnerInv'
<1>1. CASE phase' = "undefined" /\ UNCHANGED <<functionVars, saved, pos, completed, result>>
  BY <1>1, StopInv DEF RunExecutor
<1>2. CASE sequence[pos[1]][1] = generation /\ RunsExecutor(Transferred)
  <2>1. Running
    BY <1>2 DEF RunExecutor, Running
  <2>2. QED
    BY <1>2, <2>1, TransferredEntries, RunInv
<1>3. QED
  BY <1>1, <1>2 DEF RunExecutor, RunsExecutor

LEMMA FulfilInv ==
  ASSUME RunnerInv, NEW t \in DOMAIN tasks, Fulfil(t)
  PROVE  RunnerInv'
<1>1. /\ UNCHANGED <<built, stages, sequence, generation, attrs, started, saved, pos, completed, phase, result>>
      /\ tasks' = [tasks EXCEPT ![t] = "fulfilled"]
  BY DEF Fulfil, pipelineVars
<1>2. TypeOK'
  BY <1>1 DEF RunnerInv, TypeOK
<1>3. QED
  BY <1>1, <1>2 DEF RunnerInv, Loaded, Unloaded, Reached, SuccessIsComplete, GraphOutputs

LEMMA RunnerNext == RunnerInv /\ [Next]_vars => RunnerInv'
<1> SUFFICES ASSUME RunnerInv, [Next]_vars PROVE RunnerInv'
  OBVIOUS
<1>1. CASE UNCHANGED vars
  BY <1>1 DEF vars, pipelineVars, functionVars, RunnerInv, TypeOK, Loaded, Unloaded, Reached,
              SuccessIsComplete, GraphOutputs
<1>2. QED
  BY <1>1, BuildInv, BeginStepInv, RunExecutorInv, FulfilInv DEF Next

THEOREM RunnerInvariant == Spec => []RunnerInv
BY RunnerInit, RunnerNext, PTL DEF Spec

\* Stages, attributes, positions and tasks keep their form.
THEOREM RunnerTypeCorrect == Spec => []TypeOK
<1>1. RunnerInv => TypeOK
  BY DEF RunnerInv
<1>2. QED
  BY <1>1, RunnerInvariant, PTL

\* SUCCESS reports every graph output, over awaits, errors, retries, repeated
\* runs and builds, and while the sequence holds stages of earlier builds.
THEOREM SuccessIsCompleteAlways == Spec => []SuccessIsComplete
<1>1. RunnerInv => SuccessIsComplete
  BY DEF RunnerInv, SuccessIsComplete
<1>2. QED
  BY <1>1, RunnerInvariant, PTL
----------------------------------------------------------------------------
(***************************************************************************)
(* That the pipeline computes what its graph does: the values recorded for *)
(* the graph outputs are those read off the edges and the data alone.  And *)
(* that it keeps to the agreement of AwaitPool about the tasks it asks for.*)
(***************************************************************************)

\* The graphs for which that is claimed.
Fitting(g) == Built(g) /\ IsWired(g) /\ TasksFit(g) /\ Ordered(g)

----------------------------------------------------------------------------
(***************************************************************************)
(* Values                                                                  *)
(***************************************************************************)

LEMMA SlotOfNode ==
  ASSUME NEW g, IsWired(g), NEW slot \in DOMAIN g.slotStates
  PROVE  /\ slot = <<slot[1], slot[2]>> /\ slot[1] \in DOMAIN g.nodeInfos
         /\ slot[2] \in Entries(SlotNames(g, slot[1]))
BY DEF IsWired

LEMMA NodeHasSlot ==
  ASSUME NEW g, IsWired(g), NEW n \in DOMAIN g.nodeInfos, NEW x \in Entries(SlotNames(g, n))
  PROVE  <<n, x>> \in DOMAIN g.slotStates
BY DEF IsWired

\* The one edge into a slot.
LEMMA EdgeOfSlot ==
  ASSUME NEW g, IsWired(g), NEW slot \in DOMAIN g.slotStates, EdgesInto(g, slot) # {}
  PROVE  /\ \E e \in DOMAIN g.edgeInfos :
              /\ EdgesInto(g, slot) = {e} /\ Source(g, slot) = From(g.edgeInfos[e])
              /\ To(g.edgeInfos[e]) = slot /\ g.slotStates[slot].inEdges = {e}
         /\ Source(g, slot) \in DOMAIN g.slotStates
         /\ Depends(g, Source(g, slot)[1], slot[1])
<1>1. PICK e \in DOMAIN g.edgeInfos : e \in EdgesInto(g, slot)
  BY DEF EdgesInto
<1>2. To(g.edgeInfos[e]) = slot /\ g.slotStates[slot].inEdges = {e}
  BY <1>1 DEF EdgesInto, IsWired
<1>3. \A d \in EdgesInto(g, slot) : d = e
  <2> SUFFICES ASSUME NEW d \in EdgesInto(g, slot) PROVE d = e
    OBVIOUS
  <2>1. d \in DOMAIN g.edgeInfos /\ To(g.edgeInfos[d]) = slot
    BY DEF EdgesInto
  <2>2. g.slotStates[slot].inEdges = {d}
    BY <2>1 DEF IsWired
  <2>3. QED
    BY <1>2, <2>2
<1>4. EdgesInto(g, slot) = {e}
  BY <1>1, <1>3
<1>5. Source(g, slot) = From(g.edgeInfos[e])
  BY <1>4 DEF Source
<1>6. From(g.edgeInfos[e]) \in DOMAIN g.slotStates
  BY DEF IsWired
<1>7. Depends(g, Source(g, slot)[1], slot[1])
  BY <1>2, <1>5 DEF Depends, From, To
<1>8. QED
  BY <1>2, <1>4, <1>5, <1>6, <1>7

\* The value of a slot if those of the others are f.
ValueOf(g, f, slot) ==
  IF IsComputed(g, slot)
  THEN [node |-> slot[1], slot |-> slot[2],
        args |-> [x \in Entries(g.nodeInfos[slot[1]].ins) |-> f[<<slot[1], x>>]]]
  ELSE IF EdgesInto(g, slot) # {} THEN f[Source(g, slot)]
  ELSE g.slotStates[slot].encodedData

Place(g, n) == CHOOSE i \in DOMAIN g.sortOrder : g.sortOrder[i] = n

\* The value of a slot depends on those of smaller rank.
SlotRank(g, slot) == 2 * Place(g, slot[1]) + IF IsComputed(g, slot) THEN 1 ELSE 0

LEMMA Places ==
  ASSUME NEW g, Built(g), NEW n \in DOMAIN g.nodeInfos
  PROVE  /\ Place(g, n) \in 1 .. Len(g.sortOrder) /\ Len(g.sortOrder) \in Nat
         /\ g.sortOrder[Place(g, n)] = n /\ Place(g, n) \in DOMAIN g.sortOrder
<1>1. g.sortOrder \in Seq(Nat) /\ n \in Entries(g.sortOrder)
  BY DEF Built, IsGraphState
<1>2. \E i \in DOMAIN g.sortOrder : g.sortOrder[i] = n
  BY <1>1 DEF Entries
<1>3. Place(g, n) \in DOMAIN g.sortOrder /\ g.sortOrder[Place(g, n)] = n
  BY <1>2 DEF Place
<1>4. QED
  BY <1>1, <1>3

LEMMA RankBound ==
  ASSUME NEW g, Built(g), IsWired(g), NEW slot \in DOMAIN g.slotStates
  PROVE  SlotRank(g, slot) \in 0 .. 2 * Len(g.sortOrder) + 1
<1>1. Place(g, slot[1]) \in 1 .. Len(g.sortOrder) /\ Len(g.sortOrder) \in Nat
  BY SlotOfNode, Places
<1>2. QED
  BY <1>1 DEF SlotRank

\* What ValueOf looks at has a smaller rank.
LEMMA DependsOnSmaller ==
  ASSUME NEW g, Built(g), IsWired(g), Ordered(g), NEW slot \in DOMAIN g.slotStates
  PROVE  /\ IsComputed(g, slot) =>
              \A x \in Entries(g.nodeInfos[slot[1]].ins) :
                /\ <<slot[1], x>> \in DOMAIN g.slotStates
                /\ SlotRank(g, <<slot[1], x>>) < SlotRank(g, slot)
         /\ (~ IsComputed(g, slot) /\ EdgesInto(g, slot) # {}) =>
              /\ Source(g, slot) \in DOMAIN g.slotStates
              /\ SlotRank(g, Source(g, slot)) < SlotRank(g, slot)
<1> DEFINE n == slot[1]
<1>1. n \in DOMAIN g.nodeInfos /\ Place(g, n) \in Nat
  BY SlotOfNode, Places
<1>2. ASSUME IsComputed(g, slot), NEW x \in Entries(g.nodeInfos[n].ins)
      PROVE  <<n, x>> \in DOMAIN g.slotStates /\ SlotRank(g, <<n, x>>) < SlotRank(g, slot)
  <2>1. x \in Entries(SlotNames(g, n))
    BY <1>1, NodeTypes DEF Built
  <2>2. <<n, x>> \in DOMAIN g.slotStates
    BY <1>1, <2>1, NodeHasSlot
  <2>3. x \notin Entries(g.nodeInfos[n].outs)
    BY <1>1 DEF IsWired
  <2>4. g.slotInfos[<<n, x>>].access # "O"
    BY <1>1, <2>1, <2>3 DEF IsWired
  <2>5. ~ IsComputed(g, <<n, x>>)
    BY <2>4 DEF IsComputed
  <2>6. SlotRank(g, <<n, x>>) = 2 * Place(g, n) /\ SlotRank(g, slot) = 2 * Place(g, n) + 1
    BY <1>1, <1>2, <2>5 DEF SlotRank
  <2>7. QED
    BY <1>1, <2>2, <2>6
<1>3. ASSUME ~ IsComputed(g, slot), EdgesInto(g, slot) # {}
      PROVE  Source(g, slot) \in DOMAIN g.slotStates /\ SlotRank(g, Source(g, slot)) < SlotRank(g, slot)
  <2> DEFINE src == Source(g, slot)
             m == src[1]
             i == Place(g, m)
             j == Place(g, n)
  <2>1. src \in DOMAIN g.slotStates /\ Depends(g, m, n)
    BY <1>3, EdgeOfSlot
  <2>2. m \in DOMAIN g.nodeInfos
    BY <2>1, SlotOfNode
  <2>3. /\ i \in DOMAIN g.sortOrder /\ g.sortOrder[i] = m /\ i \in Nat
        /\ j \in DOMAIN g.sortOrder /\ g.sortOrder[j] = n /\ j \in Nat
    BY <1>1, <2>2, Places
  <2>4. i < j
    <3> HIDE DEF i, j, m, n
    <3>1. QED
      BY <2>1, <2>3 DEF Ordered
  <2>5. SlotRank(g, slot) = 2 * j /\ SlotRank(g, src) <= 2 * i + 1 /\ SlotRank(g, src) \in Nat
    BY <1>3, <2>3 DEF SlotRank
  <2> HIDE DEF src, i, j
  <2>6. SlotRank(g, src) < SlotRank(g, slot)
    BY <2>3, <2>4, <2>5
  <2>7. QED
    BY <2>1, <2>6 DEF src
<1>4. QED
  BY <1>2, <1>3

LEMMA ValueOfAgrees ==
  ASSUME NEW g, Built(g), IsWired(g), Ordered(g), NEW slot \in DOMAIN g.slotStates, NEW a, NEW b,
         \A s \in DOMAIN g.slotStates : SlotRank(g, s) < SlotRank(g, slot) => a[s] = b[s]
  PROVE  ValueOf(g, a, slot) = ValueOf(g, b, slot)
<1>1. CASE IsComputed(g, slot)
  <2>1. \A x \in Entries(g.nodeInfos[slot[1]].ins) : a[<<slot[1], x>>] = b[<<slot[1], x>>]
    BY <1>1, DependsOnSmaller
  <2>2. QED
    BY <1>1, <2>1 DEF ValueOf
<1>2. CASE ~ IsComputed(g, slot) /\ EdgesInto(g, slot) # {}
  <2>1. a[Source(g, slot)] = b[Source(g, slot)]
    BY <1>2, DependsOnSmaller
  <2>2. QED
    BY <1>2, <2>1 DEF ValueOf
<1>3. CASE ~ IsComputed(g, slot) /\ EdgesInto(g, slot) = {}
  BY <1>3 DEF ValueOf
<1>4. QED
  BY <1>1, <1>2, <1>3

\* The function that Values defines by recursion exists: it is approached by
\* functions that are right up to some rank.
LEMMA ValuesUnfold ==
  ASSUME NEW g, Built(g), IsWired(g), Ordered(g)
  PROVE  \A slot \in DOMAIN g.slotStates : Values(g)[slot] = ValueOf(g, Values(g), slot)
<1> DEFINE S == DOMAIN g.slotStates
           N == 2 * Len(g.sortOrder) + 2
           Right(a, k) == \A slot \in S : SlotRank(g, slot) < k => a[slot] = ValueOf(g, a, slot)
           T == {k \in 0 .. N : \E a : Right(a, k)}
<1>1. N \in Nat
  BY DEF Built, IsGraphState
<1>2. 0 \in T
  <2>1. Right(<< >>, 0)
    <3>1. \A slot \in S : SlotRank(g, slot) \in Nat
      BY RankBound
    <3>2. QED
      BY <3>1
  <2>2. 0 \in 0 .. N
    BY <1>1
  <2> HIDE DEF Right, N
  <2>3. QED
    BY <2>1, <2>2
<1>3. ASSUME NEW k \in 0 .. N - 1, k \in T PROVE k + 1 \in T
  <2>1. PICK a : Right(a, k)
    BY <1>3
  <2> DEFINE b == [slot \in S |-> ValueOf(g, a, slot)]
  <2>2. ASSUME NEW slot \in S, SlotRank(g, slot) < k + 1
        PROVE  b[slot] = ValueOf(g, b, slot)
    <3>1. ASSUME NEW s \in S, SlotRank(g, s) < SlotRank(g, slot) PROVE a[s] = b[s]
      <4>1. SlotRank(g, s) \in Nat /\ SlotRank(g, slot) \in Nat
        BY RankBound
      <4>2. SlotRank(g, s) < k
        BY <4>1, <2>2, <3>1
      <4>3. QED
        BY <2>1, <4>2
    <3> HIDE DEF b
    <3>2. ValueOf(g, a, slot) = ValueOf(g, b, slot)
      BY <3>1, ValueOfAgrees
    <3> USE DEF b
    <3>3. b[slot] = ValueOf(g, a, slot)
      OBVIOUS
    <3> HIDE DEF b
    <3>4. QED
      BY <3>2, <3>3
  <2>3. Right(b, k + 1)
    BY <2>2
  <2>4. k + 1 \in 0 .. N
    BY <1>1
  <2> HIDE DEF b, Right, N
  <2>5. QED
    BY <2>3, <2>4
<1>4. N \in T
  <2> HIDE DEF T, N
  <2>1. 0 .. N \subseteq T
    BY <1>1, <1>2, <1>3, BoundedInduction
  <2>2. QED
    BY <1>1, <2>1
<1>5. PICK a : Right(a, N)
  BY <1>4
<1> DEFINE Solves(v) == v = [slot \in S |->
        IF IsComputed(g, slot)
        THEN [node |-> slot[1], slot |-> slot[2],
              args |-> [x \in Entries(g.nodeInfos[slot[1]].ins) |-> v[<<slot[1], x>>]]]
        ELSE IF EdgesInto(g, slot) # {} THEN v[Source(g, slot)]
        ELSE g.slotStates[slot].encodedData]
           b == [slot \in S |-> a[slot]]
<1>6. \A slot \in S : b[slot] = ValueOf(g, b, slot)
  <2> SUFFICES ASSUME NEW slot \in S PROVE b[slot] = ValueOf(g, b, slot)
    OBVIOUS
  <2>1. SlotRank(g, slot) < N
    BY <1>1, RankBound
  <2>2. a[slot] = ValueOf(g, a, slot)
    BY <1>5, <2>1
  <2>3. \A s \in S : a[s] = b[s]
    OBVIOUS
  <2> HIDE DEF b
  <2>4. QED
    BY <2>2, <2>3, ValueOfAgrees
<1>7. Solves(b)
  BY <1>6 DEF ValueOf
<1>8. Values(g) = CHOOSE v : Solves(v)
  BY DEF Values
<1>9. Solves(Values(g))
  <2> HIDE DEF Solves
  <2>1. QED
    BY <1>7, <1>8
<1>10. QED
  BY <1>9 DEF ValueOf

----------------------------------------------------------------------------
(***************************************************************************)
(* Transfers                                                               *)
(***************************************************************************)

LEMMA AfterTransferSteps ==
  ASSUME NEW f, NEW ts, Len(ts) \in Nat
  PROVE  /\ AfterTransfer(f, ts)[0] = f
         /\ \A k \in 1 .. Len(ts) : AfterTransfer(f, ts)[k] = Transfer(AfterTransfer(f, ts)[k - 1], ts[k])
<1> DEFINE after == AfterTransfer(f, ts)
           n == Len(ts)
<1>1. after = [i \in 0 .. n |-> IF i = 0 THEN f ELSE Transfer(after[i - 1], ts[i])]
  BY AfterTransferUnfolds
<1> HIDE DEF after, n
<1>2. n \in Nat
  BY DEF n
<1>3. 0 \in 0 .. n /\ \A k \in 1 .. n : k \in 0 .. n /\ k # 0
  BY <1>2
<1>4. after[0] = f /\ \A k \in 1 .. n : after[k] = Transfer(after[k - 1], ts[k])
  BY <1>1, <1>3
<1>5. QED
  BY <1>4 DEF after, n

\* Transfer m and those after it that go to entry k take the value v there.
LastBrings(f, ts, k, m, v) ==
  /\ ts[m].dst = k
  /\ \A i \in 1 .. Len(ts) : (m <= i /\ ts[i].dst = k) => f[ts[i].src] = v

\* Where no source is overwritten, an entry has what the last transfer into it
\* brings, or what it had.
LEMMA TransfersDeliver ==
  ASSUME NEW D, NEW f, f = [k \in D |-> f[k]], NEW ts, Len(ts) \in Nat,
         \A i \in 1 .. Len(ts) : ts[i].src \in D,
         \A i, j \in 1 .. Len(ts) : ts[i].src # ts[j].dst,
         NEW k \in D
  PROVE  LET B == AfterTransfer(f, ts)[Len(ts)]
         IN  /\ (\A i \in 1 .. Len(ts) : ts[i].dst # k) => B[k] = f[k]
             /\ \A m \in 1 .. Len(ts) : \A v : LastBrings(f, ts, k, m, v) => B[k] = v
<1> DEFINE after == AfterTransfer(f, ts)
           n == Len(ts)
           Untouched(j) == \A x \in D : (\A i \in 1 .. j : ts[i].dst # x) => after[j][x] = f[x]
           Touched(j) ==
             \A m \in 1 .. j : \A v :
               (/\ ts[m].dst = k
                /\ \A i \in 1 .. j : (m <= i /\ ts[i].dst = k) => f[ts[i].src] = v) => after[j][k] = v
           T == {j \in 0 .. n : DOMAIN after[j] = D /\ Untouched(j) /\ Touched(j)}
<1>1. after[0] = f /\ \A j \in 1 .. n : after[j] = Transfer(after[j - 1], ts[j])
  BY AfterTransferSteps
<1>2. DOMAIN f = D
  OBVIOUS
<1>3. n \in Nat /\ \A i \in 1 .. n : ts[i].src \in D /\ \A j \in 1 .. n : ts[i].src # ts[j].dst
  OBVIOUS
<1> HIDE DEF after, n
<1>4. 0 \in T
  <2>1. Untouched(0) /\ Touched(0) /\ 0 \in 0 .. n
    BY <1>1, <1>3
  <2> HIDE DEF Untouched, Touched
  <2>2. QED
    BY <1>1, <1>2, <2>1
<1>5. ASSUME NEW j \in 0 .. n - 1, j \in T PROVE j + 1 \in T
  <2>1. /\ j \in Nat /\ j + 1 \in 1 .. n /\ (j + 1) - 1 = j /\ j + 1 \in 0 .. n
        /\ \A i \in 1 .. j : i \in 1 .. j + 1 /\ i \in 1 .. n
    BY <1>3, <1>5
  <2> DEFINE t == ts[j + 1]
  <2>2. after[j + 1] = [after[j] EXCEPT ![t.dst] = after[j][t.src]]
    BY <1>1, <2>1 DEF Transfer
  <2>3. DOMAIN after[j] = D /\ Untouched(j) /\ Touched(j)
    BY <1>5
  <2>4. after[j][t.src] = f[t.src]
    <3>1. t.src \in D /\ \A i \in 1 .. j : ts[i].dst # t.src
      BY <1>3, <2>1
    <3>2. QED
      BY <2>3, <3>1
  <2>5. DOMAIN after[j + 1] = D
    BY <2>2, <2>3
  <2>6. \A x \in D : /\ x = t.dst => after[j + 1][x] = f[t.src]
                     /\ x # t.dst => after[j + 1][x] = after[j][x]
    BY <2>2, <2>3, <2>4
  <2> HIDE DEF t
  <2>7. Untouched(j + 1)
    <3> SUFFICES ASSUME NEW x \in D, \A i \in 1 .. j + 1 : ts[i].dst # x
                 PROVE  after[j + 1][x] = f[x]
      OBVIOUS
    <3>1. t.dst # x
      BY <2>1 DEF t
    <3>2. \A i \in 1 .. j : ts[i].dst # x
      BY <2>1
    <3>3. QED
      BY <2>3, <2>6, <3>1, <3>2
  <2>8. Touched(j + 1)
    <3> SUFFICES ASSUME NEW m \in 1 .. j + 1, NEW v, ts[m].dst = k,
                        \A i \in 1 .. j + 1 : (m <= i /\ ts[i].dst = k) => f[ts[i].src] = v
                 PROVE  after[j + 1][k] = v
      OBVIOUS
    <3>1. CASE t.dst = k
      <4>1. j + 1 \in 1 .. j + 1 /\ m <= j + 1
        BY <2>1
      <4>2. f[t.src] = v
        BY <3>1, <4>1 DEF t
      <4>3. QED
        BY <2>6, <3>1, <4>2
    <3>2. CASE t.dst # k
      <4>1. m # j + 1
        BY <3>2 DEF t
      <4>2. m \in 1 .. j
        BY <2>1, <4>1
      <4>3. \A i \in 1 .. j : (m <= i /\ ts[i].dst = k) => f[ts[i].src] = v
        BY <2>1
      <4>4. after[j][k] = v
        BY <2>3, <4>2, <4>3
      <4>5. QED
        BY <2>6, <3>2, <4>4
    <3>3. QED
      BY <3>1, <3>2
  <2> HIDE DEF Untouched, Touched
  <2>9. QED
    BY <2>1, <2>5, <2>7, <2>8
<1>6. n \in T
  <2> HIDE DEF T
  <2>1. 0 .. n \subseteq T
    BY <1>3, <1>4, <1>5, BoundedInduction
  <2>2. n \in 0 .. n
    BY <1>3
  <2>3. QED
    BY <2>1, <2>2
<1>7. Untouched(n) /\ Touched(n)
  BY <1>6
<1>8. (\A i \in 1 .. n : ts[i].dst # k) => after[n][k] = f[k]
  BY <1>7
<1>9. \A m \in 1 .. n : \A v : LastBrings(f, ts, k, m, v) => after[n][k] = v
  <2> SUFFICES ASSUME NEW m \in 1 .. n, NEW v, LastBrings(f, ts, k, m, v) PROVE after[n][k] = v
    OBVIOUS
  <2>1. ts[m].dst = k /\ \A i \in 1 .. n : (m <= i /\ ts[i].dst = k) => f[ts[i].src] = v
    BY DEF LastBrings, n
  <2>2. QED
    BY <1>7, <2>1
<1>10. QED
  BY <1>8, <1>9 DEF after, n

----------------------------------------------------------------------------
(***************************************************************************)
(* What a stage is made of                                                 *)
(***************************************************************************)

\* Manual lists the slots that have data, and no others.
LEMMA ManualSlots ==
  ASSUME NEW g, Built(g), NEW n \in DOMAIN g.nodeInfos
  PROVE  /\ Len(Manual(g, n)) \in Nat /\ DOMAIN Manual(g, n) = 1 .. Len(Manual(g, n))
         /\ \A i \in DOMAIN Manual(g, n) :
              /\ Manual(g, n)[i] \in Entries(SlotNames(g, n))
              /\ g.slotStates[<<n, Manual(g, n)[i]>>].encodedData # NoData
         /\ \A x \in Entries(SlotNames(g, n)) : g.slotStates[<<n, x>>].encodedData # NoData =>
              \E i \in DOMAIN Manual(g, n) : Manual(g, n)[i] = x
<1> DEFINE names == SlotNames(g, n)
           I == {i \in DOMAIN names : g.slotStates[<<n, names[i]>>].encodedData # NoData}
           c == Cardinality(I)
<1>1. DOMAIN names = 1 .. Len(names) /\ Len(names) \in Nat
  BY NodeTypes DEF Built
<1>2. I \in SUBSET Nat /\ IsFiniteSet(I)
  <2>1. I \subseteq 1 .. Len(names) /\ IsFiniteSet(1 .. Len(names))
    BY <1>1, FS_Interval
  <2> HIDE DEF I
  <2>2. IsFiniteSet(I)
    BY <2>1, FS_Subset
  <2>3. QED
    BY <2>1, <2>2
<1> DEFINE chosen == SortedSeq(I)
<1>3. /\ c \in Nat /\ chosen \in [1 .. c -> I]
      /\ \A i \in I : \E k \in 1 .. c : chosen[k] = i
  <2> HIDE DEF I
  <2>1. QED
    BY <1>2, SortedSeqSorts
<1>4. Manual(g, n) = [k \in DOMAIN chosen |-> names[chosen[k]]]
  BY DEF Manual
<1>5. \A i \in I : names[i] \in Entries(names) /\ g.slotStates[<<n, names[i]>>].encodedData # NoData
  BY DEF Entries
<1>6. \A x \in Entries(names) : g.slotStates[<<n, x>>].encodedData # NoData =>
        \E i \in I : names[i] = x
  BY DEF Entries
<1> HIDE DEF I, c, names, chosen
<1>7. DOMAIN Manual(g, n) = 1 .. c /\ \A k \in 1 .. c : Manual(g, n)[k] = names[chosen[k]] /\ chosen[k] \in I
  BY <1>3, <1>4
<1>8. Len(Manual(g, n)) = c
  <2>1. Manual(g, n) \in Seq(Entries(SlotNames(g, n)))
    BY ManualTypes DEF Built
  <2>2. DOMAIN Manual(g, n) = 1 .. Len(Manual(g, n)) /\ Len(Manual(g, n)) \in Nat
    BY <2>1
  <2>3. QED
    BY <1>3, <1>7, <2>2
<1>9. QED
  BY <1>3, <1>5, <1>6, <1>7, <1>8 DEF names

\* The executors before a function decode the data of those slots.
LEMMA DecodersOfNode ==
  ASSUME NEW g, Built(g), NEW n \in DOMAIN g.nodeInfos, IsFunction(g, n)
  PROVE  \A i \in DOMAIN Manual(g, n) :
           Executors(g, n)[i] = Decoder(g.slotInfos[<<n, Manual(g, n)[i]>>].dtype,
                                        g.slotStates[<<n, Manual(g, n)[i]>>].encodedData)
<1> DEFINE names == Manual(g, n)
           D(i) == Decoder(g.slotInfos[<<n, names[i]>>].dtype, g.slotStates[<<n, names[i]>>].encodedData)
           ds == [i \in DOMAIN names |-> D(i)]
           S == {D(i) : i \in DOMAIN names} \cup {MainFunction(g, n)}
<1>1. Executors(g, n) = ds \o <<MainFunction(g, n)>>
  BY DEF Executors
<1>2. DOMAIN names = 1 .. Len(names) /\ Len(names) \in Nat
  BY ManualSlots
<1> HIDE DEF names, D
<1>3. ds \in Seq(S) /\ <<MainFunction(g, n)>> \in Seq(S) /\ DOMAIN ds = DOMAIN names
      /\ \A i \in DOMAIN names : ds[i] = D(i)
  BY <1>2
<1> HIDE DEF ds, S
<1>4. \A i \in 1 .. Len(ds) : Executors(g, n)[i] = ds[i]
  BY <1>1, <1>3, Concatenation
<1>5. DOMAIN ds = 1 .. Len(ds)
  BY <1>3
<1>6. QED
  BY <1>3, <1>4, <1>5 DEF names, D

\* The executor of each kind of place.
LEMMA ExecutorAt ==
  ASSUME NEW g, Built(g), IsWired(g), NEW n \in DOMAIN g.nodeInfos, NEW i \in DOMAIN Executors(g, n)
  PROVE  LET x == Executors(g, n)[i]
             last == Len(Executors(g, n))
             Codes(slot) == Decoder(g.slotInfos[slot].dtype, g.slotStates[slot].encodedData)
         IN  /\ (IsFunction(g, n) /\ i = last) => x = MainFunction(g, n)
             /\ (IsFunction(g, n) /\ i # last) =>
                  i \in DOMAIN Manual(g, n) /\ x = Codes(<<n, Manual(g, n)[i]>>)
             /\ IsFunction(g, n) => \A j \in DOMAIN Manual(g, n) : j \in DOMAIN Executors(g, n) /\ j < last
             /\ g.nodeInfos[n].ntype = "IN" => i = 1 /\ last = 1 /\ x = Codes(<<n, "$out">>)
             /\ g.nodeInfos[n].ntype = "OUT" => i = 1 /\ last = 1 /\ x = Encoder(g.slotInfos[<<n, "$in">>].dtype)
             /\ g.nodeInfos[n].ntype \in {"IN", "OUT"} <=> ~ IsFunction(g, n)
<1> DEFINE x == Executors(g, n)[i]
           last == Len(Executors(g, n))
           m == Len(Manual(g, n))
<1>1. i \in 1 .. last /\ last \in Nat \ {0} /\ DOMAIN Executors(g, n) = 1 .. last
  BY ExecutorsLength
<1>2. g.nodeInfos[n].ntype \in {"FN", "IN", "OUT"}
  BY NodeTypes DEF Built
<1>3. m \in Nat /\ DOMAIN Manual(g, n) = 1 .. m
  BY ManualSlots
<1>4. CASE IsFunction(g, n)
  <2>1. last = m + 1 /\ Executors(g, n)[m + 1] = MainFunction(g, n)
    BY <1>4, ExecutorsOfNode
  <2>2. g.nodeInfos[n].ntype = "FN"
    BY <1>4 DEF IsFunction
  <2>3. i # last => i \in DOMAIN Manual(g, n)
    <3> HIDE DEF last, m
    <3>1. QED
      BY <1>1, <1>3, <2>1
  <2>4. \A j \in DOMAIN Manual(g, n) : j \in DOMAIN Executors(g, n) /\ j < last
    <3> HIDE DEF last, m
    <3>1. QED
      BY <1>1, <1>3, <2>1
  <2>5. i = last => x = MainFunction(g, n)
    BY <2>1
  <2>6. i # last => x = Decoder(g.slotInfos[<<n, Manual(g, n)[i]>>].dtype,
                                g.slotStates[<<n, Manual(g, n)[i]>>].encodedData)
    BY <1>4, <2>3, DecodersOfNode
  <2> HIDE DEF x, last
  <2>7. QED
    BY <1>4, <2>2, <2>3, <2>4, <2>5, <2>6 DEF x, last
<1>5. CASE ~ IsFunction(g, n)
  <2>1. last = 1 /\ g.nodeInfos[n].ntype \in {"IN", "OUT"}
    BY <1>2, <1>5, ExecutorsOfNode DEF IsFunction
  <2>2. i = 1
    <3> HIDE DEF last
    <3>1. QED
      BY <1>1, <2>1
  <2>3. IoNames(g, n)[1] = IF g.nodeInfos[n].ntype = "IN" THEN "$out" ELSE "$in"
    BY <2>1 DEF IoNames, IsWired
  <2>4. x = IF g.nodeInfos[n].ntype = "IN"
            THEN Decoder(g.slotInfos[<<n, IoNames(g, n)[1]>>].dtype,
                         g.slotStates[<<n, IoNames(g, n)[1]>>].encodedData)
            ELSE Encoder(g.slotInfos[<<n, IoNames(g, n)[1]>>].dtype)
    BY <1>5, <2>2, ExecutorsOfNode
  <2> HIDE DEF x, last
  <2>5. QED
    BY <1>5, <2>1, <2>2, <2>3, <2>4 DEF x, last
<1>6. QED
  BY <1>4, <1>5

ManualTransfer(g, n, i) == [src |-> <<n, i, "$out">>, dst |-> MainEntry(g, <<n, Manual(g, n)[i]>>)]

EdgeTransfer(g, e) == [src |-> MainEntry(g, From(g.edgeInfos[e])), dst |-> MainEntry(g, To(g.edgeInfos[e]))]

LEMMA ManualTransferList ==
  ASSUME NEW g, Built(g), NEW n \in DOMAIN g.nodeInfos
  PROVE  LET ts == ManualTransfers(g, n)
         IN  /\ DOMAIN ts = IF IsFunction(g, n) THEN DOMAIN Manual(g, n) ELSE {}
             /\ \A i \in DOMAIN ts : ts[i] = ManualTransfer(g, n, i)
BY DEF ManualTransfers, ManualTransfer

LEMMA EdgeTransferList ==
  ASSUME NEW g, Built(g), NEW n \in DOMAIN g.nodeInfos
  PROVE  LET ts == EdgeTransfers(g, n)
         IN  /\ \A i \in DOMAIN ts : \E e \in DOMAIN g.edgeInfos :
                  g.edgeInfos[e].node1 = n /\ ts[i] = EdgeTransfer(g, e)
             /\ \A e \in DOMAIN g.edgeInfos : g.edgeInfos[e].node1 = n =>
                  \E i \in DOMAIN ts : ts[i] = EdgeTransfer(g, e)
<1> DEFINE I == {e \in DOMAIN g.edgeInfos : g.edgeInfos[e].node1 = n}
           edges == SortedSeq(I)
           ts == EdgeTransfers(g, n)
<1>1. ts = [i \in DOMAIN edges |-> EdgeTransfer(g, edges[i])]
  BY DEF EdgeTransfers, EdgeTransfer
<1>2. I \subseteq DOMAIN g.edgeInfos /\ \A e \in I : g.edgeInfos[e].node1 = n
  OBVIOUS
<1>3. IsFiniteSet(I) /\ I \in SUBSET Nat
  <2> HIDE DEF I
  <2>1. IsFiniteSet(I)
    BY <1>2, FS_Subset DEF Built, IsGraphState
  <2>2. QED
    BY <1>2, <2>1 DEF Built, IsGraphState
<1>4. /\ edges \in [1 .. Cardinality(I) -> I]
      /\ \A e \in I : \E k \in 1 .. Cardinality(I) : edges[k] = e
  <2> HIDE DEF I
  <2>1. QED
    BY <1>3, SortedSeqSorts
<1>5. \A e \in DOMAIN g.edgeInfos : g.edgeInfos[e].node1 = n => e \in I
  OBVIOUS
<1> HIDE DEF I, edges
<1>6. DOMAIN ts = 1 .. Cardinality(I) /\ \A i \in DOMAIN ts : edges[i] \in I /\ ts[i] = EdgeTransfer(g, edges[i])
  BY <1>1, <1>4
<1> HIDE DEF ts
<1>7. \A i \in DOMAIN ts : \E e \in DOMAIN g.edgeInfos :
         g.edgeInfos[e].node1 = n /\ ts[i] = EdgeTransfer(g, e)
  BY <1>2, <1>6
<1>8. \A e \in DOMAIN g.edgeInfos : g.edgeInfos[e].node1 = n =>
         \E i \in DOMAIN ts : ts[i] = EdgeTransfer(g, e)
  BY <1>4, <1>5, <1>6
<1>9. QED
  BY <1>7, <1>8 DEF ts

\* The transfers of a stage: first those of the decoders, then those of the
\* edges into the node.
LEMMA StageTransferList ==
  ASSUME NEW g, Built(g), NEW n \in DOMAIN g.nodeInfos
  PROVE  LET ts == Stage(g, n).transfers
         IN  \E m \in Nat :
               /\ \A j \in 1 .. Len(ts) :
                    \/ /\ j <= m /\ IsFunction(g, n)
                       /\ \E i \in DOMAIN Manual(g, n) : ts[j] = ManualTransfer(g, n, i)
                    \/ /\ m < j
                       /\ \E e \in DOMAIN g.edgeInfos :
                            g.edgeInfos[e].node1 = n /\ ts[j] = EdgeTransfer(g, e)
               /\ IsFunction(g, n) => \A i \in DOMAIN Manual(g, n) : \E j \in 1 .. Len(ts) :
                    ts[j] = ManualTransfer(g, n, i)
               /\ \A e \in DOMAIN g.edgeInfos : g.edgeInfos[e].node1 = n =>
                    \E j \in 1 .. Len(ts) : m < j /\ ts[j] = EdgeTransfer(g, e)
<1> DEFINE a == ManualTransfers(g, n)
           b == EdgeTransfers(g, n)
           ts == Stage(g, n).transfers
           m == Len(a)
           S == {a[i] : i \in 1 .. Len(a)} \cup {b[i] : i \in 1 .. Len(b)}
<1>1. ts = a \o b
  BY DEF Stage
<1>2. Len(a) \in Nat /\ DOMAIN a = 1 .. Len(a) /\ a = [i \in 1 .. Len(a) |-> a[i]]
  BY ManualTransfersFit
<1>3. Len(b) \in Nat /\ DOMAIN b = 1 .. Len(b) /\ b = [i \in 1 .. Len(b) |-> b[i]]
  BY EdgeTransfersFit
<1>4. /\ DOMAIN a = IF IsFunction(g, n) THEN DOMAIN Manual(g, n) ELSE {}
      /\ \A i \in DOMAIN a : a[i] = ManualTransfer(g, n, i)
  BY ManualTransferList
<1>5. /\ \A i \in DOMAIN b : \E e \in DOMAIN g.edgeInfos :
           g.edgeInfos[e].node1 = n /\ b[i] = EdgeTransfer(g, e)
      /\ \A e \in DOMAIN g.edgeInfos : g.edgeInfos[e].node1 = n =>
           \E i \in DOMAIN b : b[i] = EdgeTransfer(g, e)
  BY EdgeTransferList
<1> HIDE DEF a, b, ts
<1>6. a \in Seq(S) /\ b \in Seq(S)
  <2>1. (\A i \in 1 .. Len(a) : a[i] \in S) /\ \A i \in 1 .. Len(b) : b[i] \in S
    OBVIOUS
  <2> HIDE DEF S, m
  <2>2. QED
    BY <1>2, <1>3, <2>1
<1> HIDE DEF S
<1>7. /\ DOMAIN ts = 1 .. m + Len(b) /\ ts \in Seq(S)
      /\ \A i \in 1 .. m : ts[i] = a[i]
      /\ \A i \in 1 .. Len(b) : ts[m + i] = b[i]
  BY <1>1, <1>6, Concatenation
<1>8. m \in Nat /\ Len(ts) = m + Len(b)
  BY <1>2, <1>3, <1>7
<1> HIDE DEF m
<1>9. ASSUME NEW j \in 1 .. Len(ts)
      PROVE  \/ /\ j <= m /\ IsFunction(g, n)
                /\ \E i \in DOMAIN Manual(g, n) : ts[j] = ManualTransfer(g, n, i)
             \/ /\ m < j
                /\ \E e \in DOMAIN g.edgeInfos :
                     g.edgeInfos[e].node1 = n /\ ts[j] = EdgeTransfer(g, e)
  <2>1. CASE j <= m
    <3>1. j \in DOMAIN a
      BY <1>2, <1>8, <2>1 DEF m
    <3>2. IsFunction(g, n) /\ j \in DOMAIN Manual(g, n)
      BY <1>4, <3>1
    <3>3. ts[j] = ManualTransfer(g, n, j)
      BY <1>2, <1>4, <1>7, <3>1 DEF m
    <3>4. QED
      BY <2>1, <3>2, <3>3
  <2>2. CASE m < j
    <3>1. j - m \in 1 .. Len(b) /\ m + (j - m) = j
      BY <1>3, <1>8, <2>2
    <3>2. j - m \in DOMAIN b /\ ts[j] = b[j - m]
      BY <1>3, <1>7, <3>1
    <3>3. QED
      BY <1>5, <2>2, <3>2
  <2>3. QED
    BY <1>8, <2>1, <2>2
<1>10. ASSUME IsFunction(g, n), NEW i \in DOMAIN Manual(g, n)
       PROVE  \E j \in 1 .. Len(ts) : ts[j] = ManualTransfer(g, n, i)
  <2>1. i \in DOMAIN a /\ i \in 1 .. m
    BY <1>2, <1>4, <1>10 DEF m
  <2>2. i \in 1 .. Len(ts) /\ ts[i] = ManualTransfer(g, n, i)
    BY <1>3, <1>4, <1>7, <1>8, <2>1
  <2>3. QED
    BY <2>2
<1>11. ASSUME NEW e \in DOMAIN g.edgeInfos, g.edgeInfos[e].node1 = n
       PROVE  \E j \in 1 .. Len(ts) : m < j /\ ts[j] = EdgeTransfer(g, e)
  <2>1. PICK i \in DOMAIN b : b[i] = EdgeTransfer(g, e)
    BY <1>5, <1>11
  <2>2. i \in 1 .. Len(b) /\ m + i \in 1 .. Len(ts) /\ m < m + i
    BY <1>3, <1>8
  <2>3. ts[m + i] = EdgeTransfer(g, e)
    BY <1>7, <2>1, <2>2
  <2>4. QED
    BY <2>2, <2>3
<1>12. QED
  BY <1>8, <1>9, <1>10, <1>11 DEF ts

----------------------------------------------------------------------------
(***************************************************************************)
(* The invariant                                                           *)
(***************************************************************************)

\* The attributes A of graph g: a slot has its value, and its type if it is an
\* output.
HasValue(g, A, slot) ==
  /\ A[MainEntry(g, slot)].value = Values(g)[slot]
  /\ g.slotInfos[slot].access = "O" => A[MainEntry(g, slot)].dtype = g.slotInfos[slot].dtype

\* The decoder i of node n has done its work.
IsDecoded(g, A, n, i) ==
  LET x == Executors(g, n)[i]
  IN  A[<<n, i, "$out">>] = [dtype |-> x.gives["$out"], value |-> x.payload]

\* What ran before place p of the sequence s left the values of the graph.
RanBefore(g, A, s, p) ==
  /\ \A i \in 1 .. p[1] - 1 :
       \A x \in Entries(SlotNames(g, s[i][2])) : HasValue(g, A, <<s[i][2], x>>)
  /\ \A j \in 1 .. p[2] - 1 : IsDecoded(g, A, s[p[1]][2], j)

\* What an executor that has handed over the task for `took' goes on with.
Resumable(g, A, n, i, took) ==
  LET x == Executors(g, n)[i]
  IN  /\ x.uri \in Async =>
           took = IF x.type = "decode" THEN x.payload ELSE Values(g)[<<n, "$in">>]
      /\ x.uri \in Gpu => \A y \in DOMAIN x.gives : HasValue(g, A, <<n, y>>)

\* The payload of a decoder stays in its place.
Preloaded(g, A) ==
  \A n \in DOMAIN g.nodeInfos : \A i \in DOMAIN Executors(g, n) :
    Executors(g, n)[i].type = "decode" =>
      A[<<n, i, "$in">>] = [dtype |-> "$encoded", value |-> Executors(g, n)[i].payload]

\* Nothing gets into a slot that is neither computed nor supplied.
Unsupplied(g, A) ==
  \A slot \in DOMAIN g.slotStates :
    (/\ g.slotInfos[slot].access # "O" /\ EdgesInto(g, slot) = {}
     /\ g.slotStates[slot].encodedData = NoData) => A[MainEntry(g, slot)] = Unset

\* The sequence is that of the last build, or it goes astray at once.
InSequence ==
  (sequence # << >> /\ sequence[1][1] = generation) =>
    sequence = [i \in DOMAIN built.sortOrder |-> <<generation, built.sortOrder[i]>>]

NotAhead(p, q) == p[1] < q[1] \/ (p[1] = q[1] /\ p[2] <= q[2])

ValuesKept ==
  /\ Preloaded(built, attrs) /\ Unsupplied(built, attrs)
  /\ RanBefore(built, attrs, sequence, saved)
  /\ phase = "stepping" => RanBefore(built, attrs, sequence, pos) /\ NotAhead(saved, pos)
  /\ \A x \in DOMAIN started :
       /\ x[1] \in DOMAIN built.nodeInfos /\ x[2] \in DOMAIN Executors(built, x[1])
       /\ Resumable(built, attrs, x[1], x[2], started[x])
  /\ \A n \in DOMAIN completed : completed[n] = Values(built)[<<n, "$in">>]

ValuesInv ==
  /\ RunnerInv
  /\ (phase \in {"idle", "stepping"} /\ Loaded) =>
       InSequence /\ (Fitting(built) => ValuesKept)

----------------------------------------------------------------------------
(***************************************************************************)
(* What the transfers deliver                                              *)
(***************************************************************************)

\* An executor runs in order, on attributes that are right so far.
Steady ==
  /\ Running /\ Fitting(built) /\ InSequence
  /\ Preloaded(built, attrs) /\ Unsupplied(built, attrs)
  /\ RanBefore(built, attrs, sequence, pos)

\* The nodes on which the running one depends have run.
LEMMA PlaceOfRun ==
  ASSUME Steady
  PROVE  /\ \A i \in 1 .. pos[1] - 1 :
              /\ i \in DOMAIN sequence /\ sequence[i][2] \in DOMAIN built.nodeInfos
              /\ sequence[i][2] # StageNode
         /\ \A m \in DOMAIN built.nodeInfos : Depends(built, m, StageNode) =>
              \E i \in 1 .. pos[1] - 1 : sequence[i][2] = m
         /\ \A m \in DOMAIN built.nodeInfos : Depends(built, m, StageNode) => m # StageNode
<1> DEFINE order == built.sortOrder
<1>1. /\ Loaded /\ Reached(pos) /\ sequence[pos[1]][1] = generation /\ pos[1] \in DOMAIN sequence
      /\ sequence \in Seq(Nat \X Nat) /\ pos[1] \in Nat /\ Fitting(built)
  BY RunningStage DEF Steady, Running, RunnerInv
<1>2. DOMAIN sequence = 1 .. Len(sequence) /\ Len(sequence) \in Nat
  BY <1>1
<1>3. \A i \in 1 .. pos[1] - 1 : i \in DOMAIN sequence /\ i \in Nat /\ i < pos[1]
  <2> DEFINE p == pos[1]
             n == Len(sequence)
  <2>1. p \in 1 .. n /\ n \in Nat
    BY <1>1, <1>2
  <2> HIDE DEF p, n
  <2>2. \A i \in 1 .. p - 1 : i \in 1 .. n /\ i \in Nat /\ i < p
    BY <2>1
  <2>3. QED
    BY <2>2, <1>2 DEF p, n
<1>4. sequence # << >> /\ sequence[1][1] = generation
  <2>1. CASE pos[1] = 1
    BY <1>1, <2>1
  <2>2. CASE pos[1] # 1
    <3>1. 1 \in 1 .. pos[1] - 1
      BY <1>1, <1>2, <2>2
    <3>2. QED
      BY <1>1, <3>1 DEF Reached
  <2>3. QED
    BY <2>1, <2>2
<1>5. sequence = [i \in DOMAIN order |-> <<generation, order[i]>>]
  BY <1>4 DEF Steady, InSequence
<1> HIDE DEF order
<1>6. DOMAIN sequence = DOMAIN order /\ \A i \in DOMAIN sequence : sequence[i] = <<generation, order[i]>>
  BY <1>5
<1>7. StageNode = order[pos[1]] /\ \A i \in DOMAIN sequence : sequence[i][2] = order[i] /\ sequence[i][1] = generation
  BY <1>1, <1>6 DEF StageNode
<1>8. \A i, j \in DOMAIN order : order[i] = order[j] => i = j
  BY <1>1 DEF Fitting, IsWired, order
<1>9. \A i \in 1 .. pos[1] - 1 :
        /\ i \in DOMAIN sequence /\ sequence[i][2] \in DOMAIN built.nodeInfos
        /\ sequence[i][2] # StageNode
  <2> SUFFICES ASSUME NEW i \in 1 .. pos[1] - 1
               PROVE  /\ i \in DOMAIN sequence /\ sequence[i][2] \in DOMAIN built.nodeInfos
                      /\ sequence[i][2] # StageNode
    OBVIOUS
  <2>1. i \in DOMAIN sequence /\ i # pos[1]
    BY <1>1, <1>3
  <2>2. sequence[i][2] \in DOMAIN built.nodeInfos
    BY <1>1, <1>7, <2>1 DEF Loaded
  <2>3. order[i] # order[pos[1]]
    BY <1>1, <1>6, <1>8, <2>1
  <2>4. QED
    BY <1>7, <2>1, <2>2, <2>3
<1>10. ASSUME NEW m \in DOMAIN built.nodeInfos, Depends(built, m, StageNode)
       PROVE  \E i \in 1 .. pos[1] - 1 : sequence[i][2] = m
  <2>1. m \in Entries(order)
    BY <1>1 DEF Fitting, Ordered, order
  <2>2. PICK i \in DOMAIN order : order[i] = m
    BY <2>1 DEF Entries
  <2>3. i < pos[1]
    BY <1>1, <1>6, <1>7, <1>10, <2>2 DEF Fitting, Ordered, order
  <2>4. i \in 1 .. pos[1] - 1
    BY <1>1, <1>2, <1>6, <2>3, SMTT(30)
  <2>5. QED
    BY <1>6, <1>7, <2>2, <2>4
<1>11. QED
  BY <1>9, <1>10

\* The transfers of the running stage.
LEMMA RunningTransfers ==
  ASSUME Steady
  PROVE  LET ts == ThisStage.transfers
             D == DOMAIN FreshAttrs(built)
         IN  /\ Len(ts) \in Nat /\ attrs = [k \in D |-> attrs[k]]
             /\ \A i \in 1 .. Len(ts) :
                  /\ ts[i].src \in D
                  /\ ts[i].dst[1] = StageNode /\ ts[i].dst[2] = Len(ThisStage.executors)
             /\ \A i, j \in 1 .. Len(ts) : ts[i].src # ts[j].dst
<1> DEFINE n == StageNode
           g == built
           ts == ThisStage.transfers
           last == Len(ThisStage.executors)
<1>1. /\ Built(g) /\ IsWired(g) /\ Running
      /\ n \in DOMAIN g.nodeInfos /\ ThisStage = Stage(g, n) /\ ThisStage.executors = Executors(g, n)
  BY RunningStage DEF Steady, Fitting
<1>2. attrs = [k \in DOMAIN FreshAttrs(built) |-> attrs[k]]
  BY <1>1, RunningStage DEF Loaded
<1>3. /\ Len(ts) \in Nat
      /\ \A i \in 1 .. Len(ts) : /\ ts[i].src \in DOMAIN FreshAttrs(g)
                                 /\ ts[i].dst[1] = n /\ ts[i].dst[2] = last
  BY <1>1, StageTransfers DEF IsTransfer
<1>4. \A i \in 1 .. Len(ts) :
        \/ IsFunction(g, n) /\ \E j \in DOMAIN Manual(g, n) : ts[i] = ManualTransfer(g, n, j)
        \/ \E e \in DOMAIN g.edgeInfos : g.edgeInfos[e].node1 = n /\ ts[i] = EdgeTransfer(g, e)
  BY <1>1, StageTransferList
<1> HIDE DEF ts
<1>5. ASSUME NEW i \in 1 .. Len(ts) PROVE ts[i].src[1] # n \/ ts[i].src[2] # last
  <2>1. ASSUME IsFunction(g, n), NEW j \in DOMAIN Manual(g, n), ts[i] = ManualTransfer(g, n, j)
        PROVE  ts[i].src[2] # last
    <3>1. last \in Nat /\ last \in DOMAIN Executors(g, n)
      BY <1>1, ExecutorsLength
    <3>2. j \in DOMAIN Executors(g, n) /\ j < last
      BY <1>1, <2>1, <3>1, ExecutorAt
    <3>3. j # last
      BY <3>2, <1>1, ExecutorsLength
    <3>4. QED
      BY <2>1, <3>3 DEF ManualTransfer
  <2>2. ASSUME NEW e \in DOMAIN g.edgeInfos, g.edgeInfos[e].node1 = n, ts[i] = EdgeTransfer(g, e)
        PROVE  ts[i].src[1] # n
    <3>1. From(g.edgeInfos[e]) \in DOMAIN g.slotStates
      BY <1>1 DEF IsWired
    <3>2. From(g.edgeInfos[e])[1] \in DOMAIN g.nodeInfos /\ From(g.edgeInfos[e])[1] = g.edgeInfos[e].node0
      BY <1>1, <3>1, SlotOfNode DEF From
    <3>3. Depends(g, g.edgeInfos[e].node0, n)
      BY <2>2 DEF Depends
    <3>4. g.edgeInfos[e].node0 # n
      BY <3>2, <3>3, PlaceOfRun
    <3>5. QED
      BY <2>2, <3>2, <3>4 DEF EdgeTransfer, MainEntry
  <2>3. QED
    BY <1>4, <2>1, <2>2
<1>6. QED
  BY <1>2, <1>3, <1>5 DEF ts

\* An entry no transfer fills stays as it was.
LEMMA NotTransferredTo ==
  ASSUME Steady, NEW k \in DOMAIN FreshAttrs(built),
         ~ IsLast \/ \A i \in 1 .. Len(ThisStage.transfers) : ThisStage.transfers[i].dst # k
  PROVE  Transferred[k] = attrs[k]
<1> DEFINE ts == ThisStage.transfers
           D == DOMAIN FreshAttrs(built)
           B == AfterTransfer(attrs, ts)[Len(ts)]
<1>1. /\ Len(ts) \in Nat /\ attrs = [x \in D |-> attrs[x]]
      /\ \A i \in 1 .. Len(ts) : ts[i].src \in D
      /\ \A i, j \in 1 .. Len(ts) : ts[i].src # ts[j].dst
  BY RunningTransfers
<1>2. Transferred = IF IsLast THEN B ELSE attrs
  BY DEF Transferred, Deliver
<1>3. ~ IsLast \/ \A i \in 1 .. Len(ts) : ts[i].dst # k
  OBVIOUS
<1>4. k \in D
  OBVIOUS
<1> HIDE DEF ts, D
<1>5. (\A i \in 1 .. Len(ts) : ts[i].dst # k) => B[k] = attrs[k]
  BY <1>1, <1>4, TransfersDeliver
<1> HIDE DEF B
<1>6. QED
  BY <1>2, <1>3, <1>5

\* The last transfers to an entry that bring the same bring it.
LEMMA TransferredTo ==
  ASSUME Steady, IsLast, NEW k \in DOMAIN FreshAttrs(built), NEW v,
         NEW m \in 1 .. Len(ThisStage.transfers), ThisStage.transfers[m].dst = k,
         \A i \in 1 .. Len(ThisStage.transfers) :
           (m <= i /\ ThisStage.transfers[i].dst = k) => attrs[ThisStage.transfers[i].src] = v
  PROVE  Transferred[k] = v
<1> DEFINE ts == ThisStage.transfers
           D == DOMAIN FreshAttrs(built)
           B == AfterTransfer(attrs, ts)[Len(ts)]
<1>1. /\ Len(ts) \in Nat /\ attrs = [x \in D |-> attrs[x]]
      /\ \A i \in 1 .. Len(ts) : ts[i].src \in D
      /\ \A i, j \in 1 .. Len(ts) : ts[i].src # ts[j].dst
  BY RunningTransfers
<1>2. Transferred = B
  BY DEF Transferred, Deliver
<1>3. k \in D /\ m \in 1 .. Len(ts) /\ LastBrings(attrs, ts, k, m, v)
  BY DEF LastBrings
<1> HIDE DEF ts, D
<1>4. LastBrings(attrs, ts, k, m, v) => B[k] = v
  BY <1>1, <1>3, TransfersDeliver, SMTT(30)
<1> HIDE DEF B
<1>5. QED
  BY <1>2, <1>3, <1>4

\* The transfers fill entries of the running executor only.
LEMMA OthersStay ==
  ASSUME Steady, NEW k \in DOMAIN FreshAttrs(built), <<k[1], k[2]>> # Self
  PROVE  Transferred[k] = attrs[k]
<1> DEFINE ts == ThisStage.transfers
<1>1. CASE IsLast
  <2>1. \A i \in 1 .. Len(ts) : ts[i].dst[1] = StageNode /\ ts[i].dst[2] = pos[2]
    BY <1>1, RunningTransfers DEF IsLast
  <2>2. k[1] # StageNode \/ k[2] # pos[2]
    BY DEF Self
  <2>3. \A i \in 1 .. Len(ts) : ts[i].dst # k
    BY <2>1, <2>2
  <2>4. QED
    BY <2>3, NotTransferredTo
<1>2. CASE ~ IsLast
  BY <1>2, NotTransferredTo
<1>3. QED
  BY <1>1, <1>2

\* Nothing comes where neither an edge ends nor data is.
LEMMA NothingArrives ==
  ASSUME Steady, NEW x, Key(x) \in DOMAIN FreshAttrs(built),
         EdgesInto(built, <<StageNode, x>>) = {},
         IsFunction(built, StageNode) => \A i \in DOMAIN Manual(built, StageNode) :
           Manual(built, StageNode)[i] # x
  PROVE  Transferred[Key(x)] = attrs[Key(x)]
<1> DEFINE n == StageNode
           g == built
           ts == ThisStage.transfers
<1>1. Built(g) /\ n \in DOMAIN g.nodeInfos /\ ThisStage = Stage(g, n)
  BY RunningStage DEF Steady
<1>2. \A i \in 1 .. Len(ts) :
        \/ IsFunction(g, n) /\ \E j \in DOMAIN Manual(g, n) : ts[i] = ManualTransfer(g, n, j)
        \/ \E e \in DOMAIN g.edgeInfos : g.edgeInfos[e].node1 = n /\ ts[i] = EdgeTransfer(g, e)
  BY <1>1, StageTransferList, SMTT(30)
<1> HIDE DEF ts
<1>3. ASSUME NEW i \in 1 .. Len(ts) PROVE ts[i].dst # Key(x)
  <2>1. ASSUME IsFunction(g, n), NEW j \in DOMAIN Manual(g, n), ts[i] = ManualTransfer(g, n, j)
        PROVE  ts[i].dst # Key(x)
    BY <2>1 DEF ManualTransfer, MainEntry, Key
  <2>2. ASSUME NEW e \in DOMAIN g.edgeInfos, g.edgeInfos[e].node1 = n, ts[i] = EdgeTransfer(g, e)
        PROVE  ts[i].dst # Key(x)
    <3>1. To(g.edgeInfos[e]) # <<n, x>>
      BY DEF EdgesInto
    <3>2. To(g.edgeInfos[e]) = <<n, g.edgeInfos[e].slot1>>
      BY <2>2 DEF To
    <3>3. g.edgeInfos[e].slot1 # x
      BY <3>1, <3>2
    <3>4. QED
      BY <2>2, <3>2, <3>3 DEF EdgeTransfer, MainEntry, Key
  <2>3. QED
    BY <1>2, <2>1, <2>2
<1>4. QED
  BY <1>3, NotTransferredTo DEF ts

\* Whether an edge ends there or data was entered, the entry gets what the edge
\* or the decoder brings, an edge before data.
LEMMA EdgeArrives ==
  ASSUME Steady, IsLast, NEW x, <<StageNode, x>> \in DOMAIN built.slotStates,
         EdgesInto(built, <<StageNode, x>>) # {}
  PROVE  Transferred[Key(x)] = attrs[MainEntry(built, Source(built, <<StageNode, x>>))]
<1> DEFINE n == StageNode
           g == built
           slot == <<n, x>>
           ts == ThisStage.transfers
<1>1. /\ Built(g) /\ IsWired(g) /\ n \in DOMAIN g.nodeInfos /\ ThisStage = Stage(g, n)
      /\ ThisStage.executors = Executors(g, n)
  BY RunningStage DEF Steady, Fitting
<1>2. PICK e \in DOMAIN g.edgeInfos :
        EdgesInto(g, slot) = {e} /\ Source(g, slot) = From(g.edgeInfos[e]) /\ To(g.edgeInfos[e]) = slot
  BY <1>1, EdgeOfSlot
<1>3. PICK m \in Nat :
        /\ \A j \in 1 .. Len(ts) :
             \/ /\ j <= m /\ IsFunction(g, n)
                /\ \E i \in DOMAIN Manual(g, n) : ts[j] = ManualTransfer(g, n, i)
             \/ /\ m < j
                /\ \E d \in DOMAIN g.edgeInfos : g.edgeInfos[d].node1 = n /\ ts[j] = EdgeTransfer(g, d)
        /\ \A d \in DOMAIN g.edgeInfos : g.edgeInfos[d].node1 = n =>
             \E j \in 1 .. Len(ts) : m < j /\ ts[j] = EdgeTransfer(g, d)
  BY <1>1, StageTransferList
<1>4. g.edgeInfos[e].node1 = n /\ g.edgeInfos[e].slot1 = x
  BY <1>2 DEF To
<1>5. PICK j \in 1 .. Len(ts) : m < j /\ ts[j] = EdgeTransfer(g, e)
  BY <1>3, <1>4
<1>6. MainEntry(g, slot) = Key(x)
  BY <1>1 DEF MainEntry, Key, IsLast
<1> HIDE DEF ts
<1>7. ts[j].dst = Key(x)
  BY <1>2, <1>5, <1>6 DEF EdgeTransfer
<1>8. ASSUME NEW i \in 1 .. Len(ts), j <= i, ts[i].dst = Key(x)
      PROVE  attrs[ts[i].src] = attrs[MainEntry(g, Source(g, slot))]
  <2>1. ~ (i <= m)
    BY <1>5, <1>8
  <2>2. PICK d \in DOMAIN g.edgeInfos : g.edgeInfos[d].node1 = n /\ ts[i] = EdgeTransfer(g, d)
    BY <1>3, <2>1
  <2>3. MainEntry(g, To(g.edgeInfos[d])) = Key(x)
    BY <1>8, <2>2 DEF EdgeTransfer
  <2>4. To(g.edgeInfos[d]) = slot
    BY <2>2, <2>3 DEF To, MainEntry, Key
  <2>5. d = e
    BY <1>2, <2>4 DEF EdgesInto
  <2>6. QED
    BY <1>2, <2>2, <2>5 DEF EdgeTransfer
<1>9. Key(x) \in DOMAIN FreshAttrs(g)
  <2>1. ExecutorHasSlot(g, slot)
    BY <1>1, <1>2 DEF Built, BuildOk
  <2>2. slot[1] \in DOMAIN g.nodeInfos
    BY <1>1
  <2> HIDE DEF slot
  <2>3. MainEntry(g, slot) \in DOMAIN FreshAttrs(g)
    BY <1>1, <2>1, <2>2, MainEntryIsFresh
  <2>4. QED
    BY <1>6, <2>3
<1> DEFINE v == attrs[MainEntry(g, Source(g, slot))]
<1>10. \A i \in 1 .. Len(ts) : (j <= i /\ ts[i].dst = Key(x)) => attrs[ts[i].src] = v
  BY <1>8
<1> HIDE DEF v
<1>11. Transferred[Key(x)] = v
  BY <1>5, <1>7, <1>9, <1>10, TransferredTo, ZenonT(30) DEF ts
<1>12. QED
  BY <1>11 DEF v

LEMMA DataArrives ==
  ASSUME Steady, IsLast, IsFunction(built, StageNode), NEW x \in Entries(SlotNames(built, StageNode)),
         EdgesInto(built, <<StageNode, x>>) = {},
         built.slotStates[<<StageNode, x>>].encodedData # NoData
  PROVE  Transferred[Key(x)] = [dtype |-> built.slotInfos[<<StageNode, x>>].dtype,
                                value |-> built.slotStates[<<StageNode, x>>].encodedData]
<1> DEFINE n == StageNode
           g == built
           ts == ThisStage.transfers
           arrived == [dtype |-> g.slotInfos[<<n, x>>].dtype, value |-> g.slotStates[<<n, x>>].encodedData]
<1>1. /\ Built(g) /\ IsWired(g) /\ n \in DOMAIN g.nodeInfos /\ ThisStage = Stage(g, n)
      /\ ThisStage.executors = Executors(g, n)
  BY RunningStage DEF Steady, Fitting
<1>2. PICK i \in DOMAIN Manual(g, n) : Manual(g, n)[i] = x
  BY <1>1, ManualSlots
<1>3. PICK j \in 1 .. Len(ts) : ts[j] = ManualTransfer(g, n, i)
  BY <1>1, StageTransferList
<1>4. ts[j].dst = Key(x)
  BY <1>1, <1>2, <1>3 DEF ManualTransfer, MainEntry, Key, IsLast
<1>5. \A d \in 1 .. Len(ts) :
        \/ IsFunction(g, n) /\ \E c \in DOMAIN Manual(g, n) : ts[d] = ManualTransfer(g, n, c)
        \/ \E e \in DOMAIN g.edgeInfos : g.edgeInfos[e].node1 = n /\ ts[d] = EdgeTransfer(g, e)
  BY <1>1, StageTransferList
<1> HIDE DEF ts
<1>6. ASSUME NEW d \in 1 .. Len(ts), ts[d].dst = Key(x)
      PROVE  attrs[ts[d].src] = arrived
  <2>1. PICK c \in DOMAIN Manual(g, n) : ts[d] = ManualTransfer(g, n, c)
    <3>1. ASSUME NEW e \in DOMAIN g.edgeInfos, g.edgeInfos[e].node1 = n, ts[d] = EdgeTransfer(g, e)
          PROVE  FALSE
      <4>1. To(g.edgeInfos[e]) # <<n, x>>
        BY DEF EdgesInto
      <4>2. To(g.edgeInfos[e]) = <<n, g.edgeInfos[e].slot1>>
        BY <3>1 DEF To
      <4>3. QED
        BY <1>6, <3>1, <4>1, <4>2 DEF EdgeTransfer, MainEntry, Key
    <3>2. QED
      BY <1>5, <3>1
  <2>2. Manual(g, n)[c] = x
    BY <1>6, <2>1 DEF ManualTransfer, MainEntry, Key
  <2>3. c \in 1 .. pos[2] - 1
    <3>1. c \in 1 .. Len(Manual(g, n)) /\ Len(Manual(g, n)) \in Nat
      BY <1>1, ManualSlots
    <3>2. Len(Executors(g, n)) = Len(Manual(g, n)) + 1
      BY <1>1, ExecutorsOfNode
    <3>3. QED
      BY <1>1, <3>1, <3>2 DEF IsLast
  <2>4. IsDecoded(g, attrs, n, c)
    BY <2>3 DEF Steady, RanBefore, StageNode
  <2>5. Executors(g, n)[c] = Decoder(g.slotInfos[<<n, x>>].dtype, g.slotStates[<<n, x>>].encodedData)
    BY <1>1, <2>2, DecodersOfNode
  <2>6. attrs[<<n, c, "$out">>] = arrived
    BY <2>4, <2>5 DEF IsDecoded, Decoder
  <2>7. QED
    BY <2>1, <2>6 DEF ManualTransfer
<1> HIDE DEF arrived
<1>7. Key(x) \in DOMAIN FreshAttrs(g)
  <2>1. pos[2] \in DOMAIN Executors(g, n)
    BY RunningStage, <1>1 DEF Steady
  <2>2. x \in EntryNames(g, n, pos[2])
    BY <1>1, <2>1, ExecutorTypes DEF EntryNames, IsLast
  <2>3. QED
    BY <1>1, <2>1, <2>2, FreshEntries DEF Key
<1>8. Transferred[Key(x)] = arrived
  BY <1>4, <1>6, <1>7, TransferredTo, ZenonT(30) DEF ts
<1>9. QED
  BY <1>8 DEF arrived

----------------------------------------------------------------------------
(***************************************************************************)
(* Executors and their entries                                             *)
(***************************************************************************)

\* The kinds of executors.
LEMMA ExecutorKinds ==
  ASSUME NEW g, Built(g), IsWired(g), NEW n \in DOMAIN g.nodeInfos, NEW i \in DOMAIN Executors(g, n)
  PROVE  LET x == Executors(g, n)[i]
             last == Len(Executors(g, n))
         IN  /\ x.type \in {"function", "encode", "decode"}
             /\ x.type = "function" <=> IsFunction(g, n) /\ i = last
             /\ x.type = "function" => x = MainFunction(g, n)
             /\ x.type # "function" => DOMAIN x.takes = {"$in"} /\ DOMAIN x.gives = {"$out"} /\ x.uri \notin Gpu
             /\ x.type = "decode" => x.takes["$in"] = "$encoded"
             /\ x.type = "encode" <=> g.nodeInfos[n].ntype = "OUT"
             /\ x.type = "encode" => i = last /\ x.takes["$in"] = g.slotInfos[<<n, "$in">>].dtype
             /\ g.nodeInfos[n].ntype = "IN" =>
                  /\ i = last /\ x.type = "decode"
                  /\ x.payload = g.slotStates[<<n, "$out">>].encodedData
                  /\ x.gives["$out"] = g.slotInfos[<<n, "$out">>].dtype
<1> DEFINE x == Executors(g, n)[i]
           last == Len(Executors(g, n))
           Codes(slot) == Decoder(g.slotInfos[slot].dtype, g.slotStates[slot].encodedData)
<1>1. /\ (IsFunction(g, n) /\ i = last) => x = MainFunction(g, n)
      /\ (IsFunction(g, n) /\ i # last) =>
           i \in DOMAIN Manual(g, n) /\ x = Codes(<<n, Manual(g, n)[i]>>)
      /\ g.nodeInfos[n].ntype = "IN" => i = 1 /\ last = 1 /\ x = Codes(<<n, "$out">>)
      /\ g.nodeInfos[n].ntype = "OUT" => i = 1 /\ last = 1 /\ x = Encoder(g.slotInfos[<<n, "$in">>].dtype)
      /\ g.nodeInfos[n].ntype \in {"IN", "OUT"} <=> ~ IsFunction(g, n)
  BY ExecutorAt
<1>2. g.nodeInfos[n].ntype \in {"FN", "IN", "OUT"} /\ (g.nodeInfos[n].ntype = "FN" <=> IsFunction(g, n))
  BY NodeTypes DEF Built, IsFunction
<1>3. ASSUME NEW dtype, NEW payload, dtype \in KnownDtype
      PROVE  /\ Decoder(dtype, payload).type = "decode" /\ Encoder(dtype).type = "encode"
             /\ DOMAIN Decoder(dtype, payload).takes = {"$in"} /\ DOMAIN Encoder(dtype).takes = {"$in"}
             /\ DOMAIN Decoder(dtype, payload).gives = {"$out"} /\ DOMAIN Encoder(dtype).gives = {"$out"}
             /\ Decoder(dtype, payload).takes["$in"] = "$encoded" /\ Encoder(dtype).takes["$in"] = dtype
             /\ Decoder(dtype, payload).gives["$out"] = dtype /\ Decoder(dtype, payload).payload = payload
             /\ Decoder(dtype, payload).uri \notin Gpu /\ Encoder(dtype).uri \notin Gpu
  <2>1. Decoder(dtype, payload).uri = <<"$IN", dtype>> /\ Encoder(dtype).uri = <<"$OUT", dtype>>
    BY DEF Decoder, Encoder
  <2>2. <<"$IN", dtype>> \notin Gpu /\ <<"$OUT", dtype>> \notin Gpu
    BY <1>3, RunnerAssumption
  <2>3. Decoder(dtype, payload).uri \notin Gpu /\ Encoder(dtype).uri \notin Gpu
    BY <2>1, <2>2
  <2>4. QED
    BY <2>3 DEF Decoder, Encoder
<1>4. CASE IsFunction(g, n) /\ i = last
  <2>1. x = MainFunction(g, n) /\ x.type = "function"
    BY <1>1, <1>4 DEF MainFunction
  <2>2. QED
    BY <1>2, <1>4, <2>1
<1>5. CASE IsFunction(g, n) /\ i # last
  <2> DEFINE slot == <<n, Manual(g, n)[i]>>
  <2>1. x = Codes(slot) /\ i \in DOMAIN Manual(g, n)
    BY <1>1, <1>5
  <2>2. g.slotInfos[slot].dtype \in KnownDtype
    BY <1>5, <2>1, ManualSlots, FunctionSlot DEF HasSlot
  <2> HIDE DEF slot, x
  <2>3. /\ x.type = "decode" /\ DOMAIN x.takes = {"$in"} /\ DOMAIN x.gives = {"$out"} /\ x.uri \notin Gpu
        /\ x.takes["$in"] = "$encoded"
    BY <1>3, <2>1, <2>2
  <2>4. QED
    BY <1>2, <1>5, <2>3 DEF x
<1>6. CASE g.nodeInfos[n].ntype = "IN"
  <2> DEFINE slot == <<n, "$out">>
  <2>1. x = Codes(slot) /\ i = last /\ ~ IsFunction(g, n)
    BY <1>1, <1>6
  <2>2. g.slotInfos[slot].dtype \in KnownDtype
    <3>1. IoNames(g, n) = <<"$out">>
      BY <1>6 DEF IoNames, IsWired
    <3>2. HasSlot(g, <<n, IoNames(g, n)[1]>>)
      BY <2>1, IoSlot
    <3>3. QED
      BY <3>1, <3>2 DEF HasSlot
  <2> HIDE DEF slot, x
  <2>3. /\ x.type = "decode" /\ DOMAIN x.takes = {"$in"} /\ DOMAIN x.gives = {"$out"} /\ x.uri \notin Gpu
        /\ x.takes["$in"] = "$encoded" /\ x.payload = g.slotStates[slot].encodedData
        /\ x.gives["$out"] = g.slotInfos[slot].dtype
    BY <1>3, <2>1, <2>2
  <2>4. QED
    BY <1>6, <2>1, <2>3 DEF x, slot
<1>7. CASE g.nodeInfos[n].ntype = "OUT"
  <2> DEFINE slot == <<n, "$in">>
  <2>1. x = Encoder(g.slotInfos[slot].dtype) /\ i = last /\ ~ IsFunction(g, n)
    BY <1>1, <1>7
  <2>2. g.slotInfos[slot].dtype \in KnownDtype
    <3>1. IoNames(g, n) = <<"$in">>
      BY <1>7 DEF IoNames, IsWired
    <3>2. HasSlot(g, <<n, IoNames(g, n)[1]>>)
      BY <2>1, IoSlot
    <3>3. QED
      BY <3>1, <3>2 DEF HasSlot
  <2> HIDE DEF slot, x
  <2>3. /\ x.type = "encode" /\ DOMAIN x.takes = {"$in"} /\ DOMAIN x.gives = {"$out"} /\ x.uri \notin Gpu
        /\ x.takes["$in"] = g.slotInfos[slot].dtype
    BY <1>3, <2>1, <2>2
  <2>4. QED
    BY <1>7, <2>1, <2>3 DEF x, slot
<1>8. QED
  BY <1>2, <1>4, <1>5, <1>6, <1>7

\* A codec has its two entries, and a slot its main one.
LEMMA CodecEntries ==
  ASSUME NEW g, Built(g), NEW n \in DOMAIN g.nodeInfos, NEW i \in DOMAIN Executors(g, n),
         Executors(g, n)[i].type # "function"
  PROVE  {<<n, i, "$in">>, <<n, i, "$out">>} \subseteq DOMAIN FreshAttrs(g)
<1>1. {"$in", "$out"} \subseteq EntryNames(g, n, i)
  BY ExecutorTypes DEF EntryNames
<1>2. QED
  BY <1>1, FreshEntries

LEMMA SlotEntry ==
  ASSUME NEW g, Built(g), IsWired(g), NEW slot \in DOMAIN g.slotStates
  PROVE  /\ MainEntry(g, slot) \in DOMAIN FreshAttrs(g)
         /\ MainEntry(g, slot) = <<slot[1], Len(Executors(g, slot[1])), slot[2]>>
<1> DEFINE n == slot[1]
<1>1. n \in DOMAIN g.nodeInfos /\ slot[2] \in Entries(SlotNames(g, n))
  BY SlotOfNode
<1>2. ExecutorHasSlot(g, slot)
  <2>1. CASE IsFunction(g, n)
    BY <1>1, <2>1 DEF ExecutorHasSlot
  <2>2. CASE ~ IsFunction(g, n)
    <3>1. g.nodeInfos[n].ntype \in {"IN", "OUT"}
      BY <1>1, <2>2, NodeTypes DEF Built, IsFunction
    <3>2. SlotNames(g, n) = <<"$out">> \/ SlotNames(g, n) = <<"$in">>
      <4>1. CASE g.nodeInfos[n].ntype = "IN"
        <5>1. SlotNames(g, n) = << >> \o <<"$out">> \o << >>
          BY <1>1, <4>1 DEF SlotNames, IsWired
        <5>2. QED
          BY <5>1
      <4>2. CASE g.nodeInfos[n].ntype = "OUT"
        <5>1. SlotNames(g, n) = <<"$in">> \o << >> \o << >>
          BY <1>1, <4>2 DEF SlotNames, IsWired
        <5>2. QED
          BY <5>1
      <4>3. QED
        BY <3>1, <4>1, <4>2
    <3>3. slot[2] \in {"$in", "$out"}
      BY <1>1, <3>2 DEF Entries
    <3>4. QED
      BY <1>1, <2>2, <3>3 DEF ExecutorHasSlot
  <2>3. QED
    BY <2>1, <2>2
<1>3. QED
  BY <1>1, <1>2, MainEntryIsFresh DEF MainEntry

\* Attributes that differ in the entries of one executor only have the same
\* values before it.
LEMMA RanBeforeKept ==
  ASSUME NEW g, Built(g), IsWired(g), NEW A, NEW B, NEW self,
         \A k \in DOMAIN FreshAttrs(g) : <<k[1], k[2]>> # self => B[k] = A[k],
         NEW s, NEW p, RanBefore(g, A, s, p),
         \A i \in 1 .. p[1] - 1 : s[i][2] \in DOMAIN g.nodeInfos /\ s[i][2] # self[1],
         \A j \in 1 .. p[2] - 1 :
           /\ s[p[1]][2] \in DOMAIN g.nodeInfos /\ j \in DOMAIN Executors(g, s[p[1]][2])
           /\ Executors(g, s[p[1]][2])[j].type # "function"
           /\ <<s[p[1]][2], j>> # self
  PROVE  RanBefore(g, B, s, p)
<1>1. ASSUME NEW i \in 1 .. p[1] - 1, NEW x \in Entries(SlotNames(g, s[i][2]))
      PROVE  HasValue(g, B, <<s[i][2], x>>)
  <2> DEFINE slot == <<s[i][2], x>>
  <2>1. s[i][2] \in DOMAIN g.nodeInfos /\ s[i][2] # self[1]
    OBVIOUS
  <2>2. slot \in DOMAIN g.slotStates
    BY <2>1, NodeHasSlot
  <2>3. HasValue(g, A, slot)
    BY DEF RanBefore
  <2>4. slot[1] = s[i][2]
    OBVIOUS
  <2> HIDE DEF slot
  <2>5. MainEntry(g, slot) \in DOMAIN FreshAttrs(g) /\ MainEntry(g, slot)[1] # self[1]
    BY <2>1, <2>2, <2>4, SlotEntry
  <2>6. B[MainEntry(g, slot)] = A[MainEntry(g, slot)]
    BY <2>5
  <2>7. HasValue(g, B, slot)
    BY <2>3, <2>6 DEF HasValue
  <2>8. QED
    BY <2>7 DEF slot
<1>2. ASSUME NEW j \in 1 .. p[2] - 1 PROVE IsDecoded(g, B, s[p[1]][2], j)
  <2> DEFINE n == s[p[1]][2]
  <2>1. n \in DOMAIN g.nodeInfos /\ j \in DOMAIN Executors(g, n) /\ Executors(g, n)[j].type # "function"
        /\ <<n, j>> # self
    OBVIOUS
  <2>2. IsDecoded(g, A, n, j)
    BY DEF RanBefore
  <2> HIDE DEF n
  <2>3. <<n, j, "$out">> \in DOMAIN FreshAttrs(g)
    BY <2>1, CodecEntries
  <2>4. B[<<n, j, "$out">>] = A[<<n, j, "$out">>]
    BY <2>1, <2>3
  <2>5. IsDecoded(g, B, n, j)
    BY <2>2, <2>4 DEF IsDecoded
  <2>6. QED
    BY <2>5 DEF n
<1>3. QED
  BY <1>1, <1>2 DEF RanBefore

----------------------------------------------------------------------------
(***************************************************************************)
(* What an executor takes                                                  *)
(***************************************************************************)

\* The source of an edge into the running node has its value.
LEMMA SourceRan ==
  ASSUME Steady, NEW slot \in DOMAIN built.slotStates, slot[1] = StageNode,
         EdgesInto(built, slot) # {}
  PROVE  HasValue(built, attrs, Source(built, slot))
<1> DEFINE src == Source(built, slot)
<1>1. Built(built) /\ IsWired(built)
  BY DEF Steady, Fitting
<1>2. src \in DOMAIN built.slotStates /\ Depends(built, src[1], StageNode)
  BY <1>1, EdgeOfSlot
<1> HIDE DEF src
<1>3. /\ src = <<src[1], src[2]>> /\ src[1] \in DOMAIN built.nodeInfos
      /\ src[2] \in Entries(SlotNames(built, src[1]))
  BY <1>1, <1>2, SlotOfNode
<1>4. PICK i \in 1 .. pos[1] - 1 : sequence[i][2] = src[1]
  BY <1>2, <1>3, PlaceOfRun
<1>5. HasValue(built, attrs, <<sequence[i][2], src[2]>>)
  BY <1>3, <1>4 DEF Steady, RanBefore
<1>6. HasValue(built, attrs, src)
  BY <1>3, <1>4, <1>5
<1>7. QED
  BY <1>6 DEF src

\* Data is entered for slots of functions, and of graph inputs.
LEMMA DataOfFunction ==
  ASSUME NEW g, Built(g), IsWired(g), NEW n \in DOMAIN g.nodeInfos,
         NEW x \in Entries(SlotNames(g, n)),
         g.slotInfos[<<n, x>>].access # "O", g.slotStates[<<n, x>>].encodedData # NoData
  PROVE  IsFunction(g, n)
<1> SUFFICES ASSUME ~ IsFunction(g, n) PROVE FALSE
  OBVIOUS
<1>1. g.nodeInfos[n].ntype \in {"IN", "OUT"}
  BY NodeTypes DEF Built, IsFunction
<1>2. CASE g.nodeInfos[n].ntype = "IN"
  <2>1. SlotNames(g, n) = << >> \o <<"$out">> \o << >> /\ g.nodeInfos[n].outs = <<"$out">>
    BY <1>2 DEF SlotNames, IsWired
  <2>2. x \in Entries(g.nodeInfos[n].outs)
    BY <2>1 DEF Entries
  <2>3. QED
    BY <2>2 DEF IsWired
<1>3. CASE g.nodeInfos[n].ntype = "OUT"
  <2>1. SlotNames(g, n) = <<"$in">> \o << >> \o << >> /\ IoNames(g, n) = <<"$in">>
    BY <1>3 DEF SlotNames, IsWired, IoNames
  <2>2. x = "$in"
    BY <2>1 DEF Entries
  <2>3. IoNodeOk(g, n)
    BY DEF Built, BuildOk
  <2>4. g.slotStates[<<n, "$in">>].encodedData = NoData
    BY <1>3, <2>1, <2>3 DEF IoNodeOk
  <2>5. QED
    BY <2>2, <2>4
<1>4. QED
  BY <1>1, <1>2, <1>3

\* Before its own executor runs, every slot of a node that is not computed has
\* the value of the graph.
LEMMA ValueArrives ==
  ASSUME Steady, IsLast, NEW x \in Entries(SlotNames(built, StageNode)),
         built.slotInfos[<<StageNode, x>>].access # "O"
  PROVE  Transferred[Key(x)].value = Values(built)[<<StageNode, x>>]
<1> DEFINE n == StageNode
           g == built
           slot == <<n, x>>
<1>1. Built(g) /\ IsWired(g) /\ Ordered(g) /\ n \in DOMAIN g.nodeInfos
  BY RunningStage DEF Steady, Fitting
<1>2. slot \in DOMAIN g.slotStates
  BY <1>1, NodeHasSlot
<1>3. ~ IsComputed(g, slot)
  BY DEF IsComputed
<1>4. Values(g)[slot] = ValueOf(g, Values(g), slot)
  BY <1>1, <1>2, ValuesUnfold
<1>5. Values(g)[slot] = IF EdgesInto(g, slot) # {} THEN Values(g)[Source(g, slot)]
                        ELSE g.slotStates[slot].encodedData
  BY <1>3, <1>4 DEF ValueOf
<1>6. CASE EdgesInto(g, slot) # {}
  <2>1. Transferred[Key(x)] = attrs[MainEntry(g, Source(g, slot))]
    BY <1>2, <1>6, EdgeArrives
  <2>2. HasValue(g, attrs, Source(g, slot))
    <3>1. slot[1] = n
      OBVIOUS
    <3> HIDE DEF slot
    <3>2. QED
      BY <1>2, <1>6, <3>1, SourceRan
  <2>3. QED
    BY <1>5, <1>6, <2>1, <2>2 DEF HasValue
<1>7. CASE EdgesInto(g, slot) = {} /\ g.slotStates[slot].encodedData # NoData
  <2>1. IsFunction(g, n)
    BY <1>1, <1>7, DataOfFunction
  <2>2. Transferred[Key(x)] = [dtype |-> g.slotInfos[slot].dtype, value |-> g.slotStates[slot].encodedData]
    BY <1>7, <2>1, DataArrives
  <2>3. QED
    BY <1>5, <1>7, <2>2
<1>8. CASE EdgesInto(g, slot) = {} /\ g.slotStates[slot].encodedData = NoData
  <2>1. MainEntry(g, slot) = Key(x)
    BY <1>1, RunningStage DEF Steady, MainEntry, Key, IsLast
  <2>2. attrs[Key(x)] = Unset
    BY <1>2, <1>8, <2>1 DEF Steady, Unsupplied
  <2>3. Key(x) \in DOMAIN FreshAttrs(g)
    BY <1>1, <1>2, <2>1, SlotEntry
  <2>4. \A i \in DOMAIN Manual(g, n) : Manual(g, n)[i] # x
    BY <1>1, <1>8, ManualSlots
  <2>5. Transferred[Key(x)] = Unset
    BY <1>8, <2>2, <2>3, <2>4, NothingArrives
  <2>6. QED
    BY <1>5, <1>8, <2>5 DEF Unset
<1>9. QED
  BY <1>6, <1>7, <1>8

\* And the type of the slot, if what is delivered fits.
LEMMA TypeArrives ==
  ASSUME Steady, IsLast, NEW x \in Entries(SlotNames(built, StageNode)),
         built.slotInfos[<<StageNode, x>>].access # "O",
         EdgeFits(built, <<StageNode, x>>),
         \/ EdgesInto(built, <<StageNode, x>>) # {}
         \/ built.slotStates[<<StageNode, x>>].encodedData # NoData
  PROVE  Transferred[Key(x)].dtype = built.slotInfos[<<StageNode, x>>].dtype
<1> DEFINE n == StageNode
           g == built
           slot == <<n, x>>
<1>1. Built(g) /\ IsWired(g) /\ n \in DOMAIN g.nodeInfos
  BY RunningStage DEF Steady, Fitting
<1>2. slot \in DOMAIN g.slotStates
  BY <1>1, NodeHasSlot
<1>3. CASE EdgesInto(g, slot) # {}
  <2>1. Transferred[Key(x)] = attrs[MainEntry(g, Source(g, slot))]
    BY <1>2, <1>3, EdgeArrives
  <2>2. HasValue(g, attrs, Source(g, slot))
    <3>1. slot[1] = n
      OBVIOUS
    <3> HIDE DEF slot
    <3>2. QED
      BY <1>2, <1>3, <3>1, SourceRan
  <2>3. /\ g.slotInfos[Source(g, slot)].access = "O"
        /\ g.slotInfos[Source(g, slot)].dtype = g.slotInfos[slot].dtype
    BY <1>3 DEF EdgeFits
  <2>4. QED
    BY <2>1, <2>2, <2>3 DEF HasValue
<1>4. CASE EdgesInto(g, slot) = {} /\ g.slotStates[slot].encodedData # NoData
  <2>1. IsFunction(g, n)
    BY <1>1, <1>4, DataOfFunction
  <2>2. Transferred[Key(x)] = [dtype |-> g.slotInfos[slot].dtype, value |-> g.slotStates[slot].encodedData]
    BY <1>4, <2>1, DataArrives
  <2>3. QED
    BY <2>2
<1>5. QED
  BY <1>3, <1>4

----------------------------------------------------------------------------
(***************************************************************************)
(* What an executor leaves                                                 *)
(***************************************************************************)

\* Attributes that are those after the transfers, but for what it gives.
Leaves(B) ==
  \A k \in DOMAIN FreshAttrs(built) :
    (<<k[1], k[2]>> # Self \/ k[3] \notin DOMAIN Executor.gives) => B[k] = Transferred[k]

\* What it gives is right.
GivesRight(B) ==
  IF Executor.type = "function"
  THEN \A y \in DOMAIN Executor.gives :
         /\ B[Key(y)].dtype = Executor.gives[y]
         /\ B[Key(y)].value = Values(built)[<<StageNode, y>>]
  ELSE B[Key("$out")] =
         [dtype |-> Executor.gives["$out"],
          value |-> IF Executor.type = "decode" THEN Executor.payload
                    ELSE Values(built)[<<StageNode, "$in">>]]

LEMMA RunningExecutor ==
  ASSUME Steady
  PROVE  LET g == built
             n == StageNode
             x == Executor
         IN  /\ Built(g) /\ IsWired(g) /\ TasksFit(g) /\ Ordered(g) /\ n \in DOMAIN g.nodeInfos
             /\ x = Executors(g, n)[pos[2]] /\ pos[2] \in DOMAIN Executors(g, n)
             /\ x.type \in {"function", "encode", "decode"}
             /\ x.type = "function" <=> IsFunction(g, n) /\ IsLast
             /\ x.type = "function" => x = MainFunction(g, n)
             /\ x.type # "function" => DOMAIN x.takes = {"$in"} /\ DOMAIN x.gives = {"$out"} /\ x.uri \notin Gpu
             /\ x.type = "decode" => x.takes["$in"] = "$encoded"
             /\ x.type = "encode" <=> g.nodeInfos[n].ntype = "OUT"
             /\ x.type = "encode" => IsLast /\ x.takes["$in"] = g.slotInfos[<<n, "$in">>].dtype
             /\ g.nodeInfos[n].ntype = "IN" =>
                  /\ IsLast /\ x.type = "decode"
                  /\ x.payload = g.slotStates[<<n, "$out">>].encodedData
                  /\ x.gives["$out"] = g.slotInfos[<<n, "$out">>].dtype
<1> DEFINE g == built
           n == StageNode
<1>1. Built(g) /\ IsWired(g) /\ TasksFit(g) /\ Ordered(g)
  BY DEF Steady, Fitting
<1>2. /\ n \in DOMAIN g.nodeInfos /\ pos[2] \in DOMAIN Executors(g, n)
      /\ ThisStage.executors = Executors(g, n)
  BY RunningStage DEF Steady
<1>3. Executor = Executors(g, n)[pos[2]] /\ (IsLast <=> pos[2] = Len(Executors(g, n)))
  BY <1>2 DEF Executor, IsLast
<1> HIDE DEF g, n
<1>4. LET x == Executors(g, n)[pos[2]]
          last == Len(Executors(g, n))
      IN  /\ x.type \in {"function", "encode", "decode"}
          /\ x.type = "function" <=> IsFunction(g, n) /\ pos[2] = last
          /\ x.type = "function" => x = MainFunction(g, n)
          /\ x.type # "function" => DOMAIN x.takes = {"$in"} /\ DOMAIN x.gives = {"$out"} /\ x.uri \notin Gpu
          /\ x.type = "decode" => x.takes["$in"] = "$encoded"
          /\ x.type = "encode" <=> g.nodeInfos[n].ntype = "OUT"
          /\ x.type = "encode" => pos[2] = last /\ x.takes["$in"] = g.slotInfos[<<n, "$in">>].dtype
          /\ g.nodeInfos[n].ntype = "IN" =>
               /\ pos[2] = last /\ x.type = "decode"
               /\ x.payload = g.slotStates[<<n, "$out">>].encodedData
               /\ x.gives["$out"] = g.slotInfos[<<n, "$out">>].dtype
  BY <1>1, <1>2, ExecutorKinds
<1>5. QED
  BY <1>1, <1>2, <1>3, <1>4 DEF g, n

\* A decoder reads its payload.
LEMMA PayloadStays ==
  ASSUME Steady, Executor.type = "decode"
  PROVE  Transferred[Key("$in")] = [dtype |-> "$encoded", value |-> Executor.payload]
<1> DEFINE n == StageNode
           g == built
<1>1. /\ Built(g) /\ IsWired(g) /\ n \in DOMAIN g.nodeInfos
      /\ Executor = Executors(g, n)[pos[2]] /\ pos[2] \in DOMAIN Executors(g, n)
      /\ IsFunction(g, n) => ~ IsLast
  BY RunningExecutor
<1>2. attrs[Key("$in")] = [dtype |-> "$encoded", value |-> Executor.payload]
  BY <1>1 DEF Steady, Preloaded, Key
<1>3. Key("$in") \in DOMAIN FreshAttrs(g)
  BY <1>1, CodecEntries DEF Key
<1>4. CASE ~ IsLast
  BY <1>2, <1>3, <1>4, NotTransferredTo
<1>5. CASE IsLast
  <2>1. ~ IsFunction(g, n) /\ g.nodeInfos[n].ntype = "IN"
    <3>1. ~ IsFunction(g, n) /\ g.nodeInfos[n].ntype # "OUT"
      BY <1>1, <1>5, RunningExecutor
    <3>2. QED
      BY <1>1, <3>1, NodeTypes DEF Built, IsFunction
  <2>2. SlotNames(g, n) = << >> \o <<"$out">> \o << >>
    BY <1>1, <2>1 DEF SlotNames, IsWired
  <2>3. "$in" \notin Entries(SlotNames(g, n))
    BY <2>2 DEF Entries
  <2>4. <<n, "$in">> \notin DOMAIN g.slotStates
    <3>1. SUFFICES ASSUME NEW slot \in DOMAIN g.slotStates, slot = <<n, "$in">> PROVE FALSE
      OBVIOUS
    <3>2. slot[2] \in Entries(SlotNames(g, slot[1]))
      BY <1>1, SlotOfNode
    <3>3. QED
      BY <2>3, <3>1, <3>2
  <2>5. EdgesInto(g, <<n, "$in">>) = {}
    BY <1>1, <2>4 DEF EdgesInto, IsWired
  <2>6. Transferred[Key("$in")] = attrs[Key("$in")]
    BY <1>3, <2>1, <2>5, NothingArrives
  <2>7. QED
    BY <1>2, <2>6
<1>6. QED
  BY <1>4, <1>5

\* An encoder reads the value of its output.
LEMMA InputArrives ==
  ASSUME Steady, Executor.type = "encode"
  PROVE  /\ IsLast /\ "$in" \in Entries(SlotNames(built, StageNode))
         /\ built.slotInfos[<<StageNode, "$in">>].access # "O"
         /\ Transferred[Key("$in")].value = Values(built)[<<StageNode, "$in">>]
<1> DEFINE n == StageNode
           g == built
<1>1. IsWired(g) /\ n \in DOMAIN g.nodeInfos /\ g.nodeInfos[n].ntype = "OUT" /\ IsLast
  BY RunningExecutor
<1>2. SlotNames(g, n) = <<"$in">> \o << >> \o << >> /\ g.nodeInfos[n].outs = << >>
  BY <1>1 DEF SlotNames, IsWired
<1>3. "$in" \in Entries(SlotNames(g, n)) /\ "$in" \notin Entries(g.nodeInfos[n].outs)
  BY <1>2 DEF Entries
<1>4. g.slotInfos[<<n, "$in">>].access # "O"
  BY <1>1, <1>3 DEF IsWired
<1>5. QED
  BY <1>1, <1>3, <1>4, ValueArrives

\* The inputs and outputs of a function.
LEMMA FunctionSlots ==
  ASSUME NEW g, Built(g), IsWired(g), NEW n \in DOMAIN g.nodeInfos
  PROVE  /\ \A x \in Entries(g.nodeInfos[n].ins) :
              x \in Entries(SlotNames(g, n)) /\ g.slotInfos[<<n, x>>].access # "O"
         /\ \A x \in Entries(g.nodeInfos[n].outs) :
              x \in Entries(SlotNames(g, n)) /\ g.slotInfos[<<n, x>>].access = "O"
         /\ \A x \in Entries(SlotNames(g, n)) :
              g.slotInfos[<<n, x>>].access = "O" => x \in Entries(g.nodeInfos[n].outs)
<1>1. /\ Entries(g.nodeInfos[n].ins) \subseteq Entries(SlotNames(g, n))
      /\ Entries(g.nodeInfos[n].outs) \subseteq Entries(SlotNames(g, n))
  BY NodeTypes DEF Built
<1>2. /\ Entries(g.nodeInfos[n].ins) \cap Entries(g.nodeInfos[n].outs) = {}
      /\ \A x \in Entries(SlotNames(g, n)) :
           g.slotInfos[<<n, x>>].access = "O" <=> x \in Entries(g.nodeInfos[n].outs)
  BY DEF IsWired
<1>3. QED
  BY <1>1, <1>2

LEMMA WrittenIsRight ==
  ASSUME Steady
  PROVE  GivesRight(Written(Transferred))
<1> DEFINE n == StageNode
           g == built
           B == Written(Transferred)
           A == Transferred
<1>1. /\ Built(g) /\ IsWired(g) /\ Ordered(g) /\ n \in DOMAIN g.nodeInfos
      /\ pos[2] \in DOMAIN Executors(g, n) /\ Executor = Executors(g, n)[pos[2]]
      /\ Executor.type \in {"function", "encode", "decode"}
  BY RunningExecutor
<1>2. DOMAIN A = DOMAIN FreshAttrs(g)
  BY TransferredEntries DEF Steady, SameEntries
<1>3. ASSUME NEW y \in DOMAIN Executor.gives, Key(y) \in DOMAIN FreshAttrs(g)
      PROVE  B[Key(y)] = [dtype |-> Executor.gives[y], value |-> Output(A, y)]
  <2>1. Key(y)[1] = StageNode /\ Key(y)[2] = pos[2] /\ Key(y)[3] = y
    BY DEF Key
  <2>2. QED
    BY <1>2, <1>3, <2>1 DEF Written
<1>4. CASE Executor.type = "function"
  <2>1. IsFunction(g, n) /\ IsLast /\ Executor = MainFunction(g, n)
    BY <1>4, RunningExecutor
  <2>2. /\ DOMAIN Executor.takes = Entries(g.nodeInfos[n].ins)
        /\ DOMAIN Executor.gives = Entries(g.nodeInfos[n].outs)
    BY <1>1, <2>1, MainFunctionTypes
  <2>3. ASSUME NEW y \in DOMAIN Executor.gives
        PROVE  /\ B[Key(y)].dtype = Executor.gives[y]
               /\ B[Key(y)].value = Values(g)[<<n, y>>]
    <3> DEFINE slot == <<n, y>>
               args == [x \in Entries(g.nodeInfos[n].ins) |-> Values(g)[<<n, x>>]]
    <3>1. y \in Entries(SlotNames(g, n)) /\ g.slotInfos[slot].access = "O"
      BY <1>1, <2>2, FunctionSlots
    <3>2. slot \in DOMAIN g.slotStates /\ IsComputed(g, slot)
      BY <1>1, <2>1, <3>1, NodeHasSlot DEF IsComputed
    <3>3. Values(g)[slot] = [node |-> n, slot |-> y, args |-> args]
      <4>1. Values(g)[slot] = ValueOf(g, Values(g), slot)
        BY <1>1, <3>2, ValuesUnfold
      <4>2. QED
        BY <3>2, <4>1 DEF ValueOf
    <3>4. Key(y) \in DOMAIN FreshAttrs(g)
      <4>1. MainEntry(g, slot) = Key(y)
        BY <1>1, <2>1, RunningStage DEF Steady, MainEntry, Key, IsLast
      <4>2. QED
        BY <1>1, <3>2, <4>1, SlotEntry
    <3>5. \A x \in Entries(g.nodeInfos[n].ins) : A[Key(x)].value = Values(g)[<<n, x>>]
      BY <1>1, <2>1, FunctionSlots, ValueArrives
    <3>6. [x \in DOMAIN Executor.takes |-> A[Key(x)].value] = args
      BY <2>2, <3>5
    <3>7. Output(A, y) = [node |-> n, slot |-> y, args |-> args]
      BY <1>4, <3>6 DEF Output
    <3> HIDE DEF args, slot
    <3>8. B[Key(y)] = [dtype |-> Executor.gives[y], value |-> Output(A, y)]
      BY <1>3, <3>4
    <3>9. QED
      BY <3>3, <3>7, <3>8 DEF slot
  <2>4. QED
    BY <1>4, <2>3 DEF GivesRight
<1>5. CASE Executor.type # "function"
  <2>1. DOMAIN Executor.gives = {"$out"}
    BY <1>5, RunningExecutor
  <2>2. Key("$out") \in DOMAIN FreshAttrs(g)
    BY <1>1, <1>5, CodecEntries DEF Key
  <2>3. B[Key("$out")] = [dtype |-> Executor.gives["$out"], value |-> A[Key("$in")].value]
    BY <1>3, <1>5, <2>1, <2>2 DEF Output
  <2>4. A[Key("$in")].value = IF Executor.type = "decode" THEN Executor.payload ELSE Values(g)[<<n, "$in">>]
    BY <1>1, <1>5, PayloadStays, InputArrives
  <2>5. QED
    BY <1>5, <2>3, <2>4 DEF GivesRight
<1>6. QED
  BY <1>4, <1>5

\* What is collected is the result of what was handed over.
LEMMA CollectedIsRight ==
  ASSUME Steady, Executor.uri \in Async, Resumable(built, attrs, StageNode, pos[2], started[Self])
  PROVE  Executor.type # "function" /\ GivesRight(Collected(Transferred))
<1>1. Executor.type # "function"
  <2>1. SUFFICES ASSUME Executor.type = "function" PROVE FALSE
    OBVIOUS
  <2>2. IsFunction(built, StageNode) /\ Executor = MainFunction(built, StageNode)
    BY <2>1, RunningExecutor
  <2>3. built.nodeInfos[StageNode].uri \notin Async
    BY <2>2, RunningExecutor DEF TasksFit
  <2>4. QED
    BY <2>2, <2>3 DEF MainFunction
<1>2. /\ Built(built) /\ StageNode \in DOMAIN built.nodeInfos /\ pos[2] \in DOMAIN Executors(built, StageNode)
      /\ Executor = Executors(built, StageNode)[pos[2]]
  BY RunningExecutor
<1>3. Key("$out") \in DOMAIN Transferred
  <2>1. Key("$out") \in DOMAIN FreshAttrs(built)
    BY <1>1, <1>2, CodecEntries DEF Key
  <2>2. QED
    BY <2>1, TransferredEntries DEF Steady, SameEntries
<1>4. Collected(Transferred)[Key("$out")] = [dtype |-> Executor.gives["$out"], value |-> started[Self]]
  BY <1>3 DEF Collected
<1>5. started[Self] = IF Executor.type = "decode" THEN Executor.payload ELSE Values(built)[<<StageNode, "$in">>]
  BY <1>2 DEF Resumable
<1>6. QED
  BY <1>1, <1>4, <1>5 DEF GivesRight

\* What a WebGPU function left stays until it is captured.
LEMMA CapturedIsRight ==
  ASSUME Steady, Executor.uri \in Gpu, Resumable(built, attrs, StageNode, pos[2], started[Self])
  PROVE  GivesRight(Transferred)
<1> DEFINE n == StageNode
           g == built
<1>1. /\ Built(g) /\ IsWired(g) /\ TasksFit(g) /\ n \in DOMAIN g.nodeInfos
      /\ Executor = Executors(g, n)[pos[2]]
  BY RunningExecutor
<1>2. IsFunction(g, n) /\ IsLast /\ Executor = MainFunction(g, n) /\ Executor.type = "function"
  BY RunningExecutor
<1>3. DOMAIN Executor.gives = Entries(g.nodeInfos[n].outs)
  BY <1>1, <1>2, MainFunctionTypes
<1>4. ASSUME NEW y \in DOMAIN Executor.gives
      PROVE  /\ Transferred[Key(y)].dtype = Executor.gives[y]
             /\ Transferred[Key(y)].value = Values(g)[<<n, y>>]
  <2> DEFINE slot == <<n, y>>
  <2>1. y \in Entries(SlotNames(g, n)) /\ g.slotInfos[slot].access = "O"
    BY <1>1, <1>3, FunctionSlots
  <2>2. MainEntry(g, slot) = Key(y) /\ Key(y) \in DOMAIN FreshAttrs(g)
    <3>1. MainEntry(g, slot) = Key(y)
      BY <1>2, RunningStage DEF Steady, MainEntry, Key, IsLast
    <3>2. slot \in DOMAIN g.slotStates
      BY <1>1, <2>1, NodeHasSlot
    <3>3. QED
      BY <1>1, <3>1, <3>2, SlotEntry
  <2>3. EdgesInto(g, slot) = {} /\ g.slotStates[slot].encodedData = NoData
    <3>1. g.nodeInfos[n].uri \in Gpu
      BY <1>2 DEF MainFunction
    <3>2. QED
      BY <1>1, <1>2, <1>3, <3>1 DEF TasksFit
  <2>4. \A i \in DOMAIN Manual(g, n) : Manual(g, n)[i] # y
    BY <1>1, <2>3, ManualSlots
  <2>5. Transferred[Key(y)] = attrs[Key(y)]
    BY <2>2, <2>3, <2>4, NothingArrives
  <2>6. HasValue(g, attrs, slot)
    BY <1>1 DEF Resumable
  <2>7. attrs[Key(y)].value = Values(g)[slot] /\ attrs[Key(y)].dtype = g.slotInfos[slot].dtype
    BY <2>1, <2>2, <2>6 DEF HasValue
  <2>8. Executor.gives[y] = g.slotInfos[slot].dtype
    BY <1>2, <1>3 DEF MainFunction
  <2>9. QED
    BY <2>5, <2>7, <2>8
<1>5. QED
  BY <1>2, <1>4 DEF GivesRight

LEMMA LeavesOthers ==
  ASSUME Steady
  PROVE  /\ Leaves(Transferred) /\ Leaves(Written(Transferred))
         /\ Executor.type # "function" => Leaves(Collected(Transferred))
<1>1. DOMAIN Transferred = DOMAIN FreshAttrs(built)
  BY TransferredEntries DEF Steady, SameEntries
<1>2. Leaves(Transferred)
  BY DEF Leaves
<1>3. Leaves(Written(Transferred))
  BY <1>1 DEF Leaves, Written, Self
<1>4. ASSUME Executor.type # "function" PROVE Leaves(Collected(Transferred))
  <2>1. DOMAIN Executor.gives = {"$out"}
    BY <1>4, RunningExecutor
  <2>2. \A k \in DOMAIN FreshAttrs(built) :
          (<<k[1], k[2]>> # Self \/ k[3] \notin DOMAIN Executor.gives) => k # Key("$out")
    BY <2>1 DEF Key, Self
  <2>3. QED
    BY <1>1, <2>2 DEF Leaves, Collected
<1>5. QED
  BY <1>2, <1>3, <1>4

LEMMA OthersKept ==
  ASSUME Steady, NEW B, Leaves(B)
  PROVE  \A k \in DOMAIN FreshAttrs(built) : <<k[1], k[2]>> # Self => B[k] = attrs[k]
BY OthersStay DEF Leaves

LEMMA PreloadedKept ==
  ASSUME Steady, NEW B, Leaves(B)
  PROVE  Preloaded(built, B)
<1> SUFFICES ASSUME NEW n \in DOMAIN built.nodeInfos, NEW i \in DOMAIN Executors(built, n),
                    Executors(built, n)[i].type = "decode"
             PROVE  B[<<n, i, "$in">>] = [dtype |-> "$encoded", value |-> Executors(built, n)[i].payload]
  BY DEF Preloaded
<1>1. Built(built) /\ <<n, i, "$in">> \in DOMAIN FreshAttrs(built)
  BY RunningExecutor, CodecEntries
<1>2. CASE <<n, i>> # Self
  <2>1. B[<<n, i, "$in">>] = attrs[<<n, i, "$in">>]
    BY <1>1, <1>2, OthersKept
  <2>2. QED
    BY <2>1 DEF Steady, Preloaded
<1>3. CASE <<n, i>> = Self
  <2>1. n = StageNode /\ i = pos[2]
    BY <1>3 DEF Self
  <2>2. Executor = Executors(built, n)[i] /\ Key("$in") = <<n, i, "$in">>
    BY <2>1, RunningExecutor DEF Key
  <2>3. "$in" \notin DOMAIN Executor.gives
    BY <2>2, RunningExecutor
  <2>4. B[Key("$in")] = Transferred[Key("$in")]
    BY <1>1, <2>2, <2>3 DEF Leaves
  <2>5. QED
    BY <2>2, <2>4, PayloadStays
<1>4. QED
  BY <1>2, <1>3

\* A slot that is not computed is none the running executor gives.
LEMMA NotGiven ==
  ASSUME Steady, IsLast, NEW x \in Entries(SlotNames(built, StageNode)),
         built.slotInfos[<<StageNode, x>>].access # "O"
  PROVE  x \notin DOMAIN Executor.gives
<1> DEFINE n == StageNode
           g == built
<1>1. Built(g) /\ IsWired(g) /\ n \in DOMAIN g.nodeInfos
  BY RunningExecutor
<1>2. CASE IsFunction(g, n)
  <2>1. Executor = MainFunction(g, n)
    BY <1>2, RunningExecutor
  <2>2. DOMAIN Executor.gives = Entries(g.nodeInfos[n].outs)
    BY <1>1, <1>2, <2>1, MainFunctionTypes
  <2>3. QED
    BY <1>1, <2>2, FunctionSlots
<1>3. CASE ~ IsFunction(g, n)
  <2>1. DOMAIN Executor.gives = {"$out"}
    BY <1>3, RunningExecutor
  <2>2. g.nodeInfos[n].ntype \in {"IN", "OUT"}
    BY <1>1, <1>3, NodeTypes DEF Built, IsFunction
  <2>3. ASSUME g.nodeInfos[n].ntype = "OUT" PROVE x = "$in"
    <3>1. SlotNames(g, n) = <<"$in">> \o << >> \o << >>
      BY <1>1, <2>3 DEF SlotNames, IsWired
    <3>2. QED
      BY <3>1 DEF Entries
  <2>4. ASSUME g.nodeInfos[n].ntype = "IN" PROVE FALSE
    <3>1. SlotNames(g, n) = << >> \o <<"$out">> \o << >> /\ g.nodeInfos[n].outs = <<"$out">>
      BY <1>1, <2>4 DEF SlotNames, IsWired
    <3>2. x \in Entries(g.nodeInfos[n].outs)
      BY <3>1 DEF Entries
    <3>3. QED
      BY <1>1, <3>2, FunctionSlots
  <2>5. QED
    BY <2>1, <2>2, <2>3, <2>4
<1>4. QED
  BY <1>2, <1>3

LEMMA UnsuppliedKept ==
  ASSUME Steady, NEW B, Leaves(B)
  PROVE  Unsupplied(built, B)
<1> DEFINE g == built
           n == StageNode
<1> SUFFICES ASSUME NEW slot \in DOMAIN g.slotStates, g.slotInfos[slot].access # "O",
                    EdgesInto(g, slot) = {}, g.slotStates[slot].encodedData = NoData
             PROVE  B[MainEntry(g, slot)] = Unset
  BY DEF Unsupplied
<1> DEFINE k == MainEntry(g, slot)
<1>1. Built(g) /\ IsWired(g)
  BY RunningExecutor
<1>2. /\ k \in DOMAIN FreshAttrs(g) /\ k = <<slot[1], Len(Executors(g, slot[1])), slot[2]>>
      /\ slot = <<slot[1], slot[2]>> /\ slot[2] \in Entries(SlotNames(g, slot[1]))
  BY <1>1, SlotEntry, SlotOfNode
<1>3. attrs[k] = Unset
  BY DEF Steady, Unsupplied
<1> HIDE DEF k
<1>4. CASE <<k[1], k[2]>> # Self
  BY <1>2, <1>3, <1>4, OthersKept DEF k
<1>5. CASE <<k[1], k[2]>> = Self
  <2> DEFINE x == slot[2]
  <2>1. slot[1] = n /\ pos[2] = Len(Executors(g, n))
    BY <1>2, <1>5 DEF Self
  <2>2. slot = <<n, x>> /\ k = Key(x) /\ x \in Entries(SlotNames(g, n))
    BY <1>2, <2>1 DEF Key
  <2>3. IsLast
    BY <2>1, RunningStage DEF Steady, IsLast
  <2> HIDE DEF x
  <2>4. x \notin DOMAIN Executor.gives
    BY <2>2, <2>3, NotGiven
  <2>5. B[Key(x)] = Transferred[Key(x)]
    BY <1>2, <2>2, <2>4 DEF Leaves, Key
  <2>6. \A i \in DOMAIN Manual(g, n) : Manual(g, n)[i] # x
    BY <1>1, <2>2, RunningExecutor, ManualSlots
  <2>7. Transferred[Key(x)] = attrs[Key(x)]
    BY <1>2, <2>2, <2>6, NothingArrives
  <2>8. QED
    BY <1>3, <2>2, <2>5, <2>7 DEF k
<1>6. QED
  BY <1>4, <1>5

\* The outputs of a graph input and of a function are given.
LEMMA GivenSlots ==
  ASSUME Steady, NEW B, Leaves(B), GivesRight(B), IsLast
  PROVE  \A x \in Entries(SlotNames(built, StageNode)) : HasValue(built, B, <<StageNode, x>>)
<1> DEFINE n == StageNode
           g == built
<1> SUFFICES ASSUME NEW x \in Entries(SlotNames(g, n)) PROVE HasValue(g, B, <<n, x>>)
  OBVIOUS
<1> DEFINE slot == <<n, x>>
<1>1. Built(g) /\ IsWired(g) /\ Ordered(g) /\ n \in DOMAIN g.nodeInfos
  BY RunningExecutor
<1>2. slot \in DOMAIN g.slotStates
  BY <1>1, NodeHasSlot
<1>3. MainEntry(g, slot) = Key(x) /\ Key(x) \in DOMAIN FreshAttrs(g)
  <2>1. MainEntry(g, slot) = Key(x)
    BY <1>1, RunningStage DEF Steady, MainEntry, Key, IsLast
  <2>2. QED
    BY <1>1, <1>2, <2>1, SlotEntry
<1>4. CASE g.slotInfos[slot].access # "O"
  <2>1. x \notin DOMAIN Executor.gives
    BY <1>4, NotGiven
  <2>2. B[Key(x)] = Transferred[Key(x)]
    BY <1>3, <2>1 DEF Leaves, Key
  <2>3. Transferred[Key(x)].value = Values(g)[slot]
    BY <1>4, ValueArrives
  <2>4. QED
    BY <1>3, <1>4, <2>2, <2>3 DEF HasValue
<1>5. CASE g.slotInfos[slot].access = "O" /\ IsFunction(g, n)
  <2>1. Executor.type = "function" /\ Executor = MainFunction(g, n)
    BY <1>5, RunningExecutor
  <2>2. x \in Entries(g.nodeInfos[n].outs)
    BY <1>1, <1>5, FunctionSlots
  <2>3. x \in DOMAIN Executor.gives /\ Executor.gives[x] = g.slotInfos[slot].dtype
    BY <2>1, <2>2 DEF MainFunction
  <2>4. B[Key(x)].dtype = Executor.gives[x] /\ B[Key(x)].value = Values(g)[slot]
    BY <2>1, <2>3 DEF GivesRight
  <2>5. QED
    BY <1>3, <2>3, <2>4 DEF HasValue
<1>6. CASE g.slotInfos[slot].access = "O" /\ ~ IsFunction(g, n)
  <2>1. x \in Entries(g.nodeInfos[n].outs)
    BY <1>1, <1>6, FunctionSlots
  <2>2. g.nodeInfos[n].ntype = "IN"
    <3>1. g.nodeInfos[n].ntype \in {"IN", "OUT"}
      BY <1>1, <1>6, NodeTypes DEF Built, IsFunction
    <3>2. ASSUME g.nodeInfos[n].ntype = "OUT" PROVE FALSE
      <4>1. g.nodeInfos[n].outs = << >>
        BY <1>1, <3>2 DEF IsWired
      <4>2. QED
        BY <2>1, <4>1 DEF Entries
    <3>3. QED
      BY <3>1, <3>2
  <2>3. x = "$out" /\ IoNames(g, n) = <<"$out">>
    <3>1. g.nodeInfos[n].outs = <<"$out">>
      BY <1>1, <2>2 DEF IsWired
    <3>2. QED
      BY <2>1, <2>2, <3>1 DEF Entries, IoNames
  <2>4. /\ Executor.type = "decode" /\ Executor.payload = g.slotStates[slot].encodedData
        /\ Executor.gives["$out"] = g.slotInfos[slot].dtype
    BY <2>2, <2>3, RunningExecutor
  <2>5. g.slotStates[slot].inEdges = {}
    <3>1. IoNodeOk(g, n)
      BY <1>1, <1>6 DEF Built, BuildOk
    <3>2. QED
      BY <2>2, <2>3, <3>1 DEF IoNodeOk
  <2>6. EdgesInto(g, slot) = {}
    <3>1. EdgesInto(g, slot) # {} => \E e : g.slotStates[slot].inEdges = {e}
      BY <1>1, <1>2, EdgeOfSlot
    <3>2. QED
      BY <2>5, <3>1
  <2>7. Values(g)[slot] = g.slotStates[slot].encodedData
    <3>1. Values(g)[slot] = ValueOf(g, Values(g), slot)
      BY <1>1, <1>2, ValuesUnfold
    <3>2. ~ IsComputed(g, slot)
      BY <1>6 DEF IsComputed
    <3>3. QED
      BY <2>6, <3>1, <3>2 DEF ValueOf
  <2>8. B[Key(x)] = [dtype |-> Executor.gives["$out"], value |-> Executor.payload]
    BY <2>3, <2>4 DEF GivesRight
  <2>9. QED
    BY <1>3, <2>4, <2>7, <2>8 DEF HasValue
<1>7. QED
  BY <1>4, <1>5, <1>6

\* With an executor that gives what is right, the position may move on.
LEMMA StageRan ==
  ASSUME Steady, NEW B, Leaves(B), GivesRight(B), ~ IsLast
  PROVE  IsDecoded(built, B, StageNode, pos[2])
<1>1. Executor.type = "decode" /\ Executor = Executors(built, StageNode)[pos[2]]
  BY RunningExecutor
<1>2. B[<<StageNode, pos[2], "$out">>] = [dtype |-> Executor.gives["$out"], value |-> Executor.payload]
  BY <1>1 DEF GivesRight, Key
<1>3. QED
  BY <1>1, <1>2 DEF IsDecoded

\* What ran before a position that is not ahead keeps its values.
LEMMA RanKept ==
  ASSUME Steady, NEW B, Leaves(B), NEW p \in Nat \X Nat, p = <<1, 1>> \/ Reached(p),
         RanBefore(built, attrs, sequence, p), NotAhead(p, pos)
  PROVE  RanBefore(built, B, sequence, p)
<1> DEFINE g == built
           s == sequence
<1>1. Built(g) /\ IsWired(g) /\ StageNode \in DOMAIN g.nodeInfos
  BY RunningExecutor
<1>2. /\ pos[1] \in Nat /\ pos[2] \in Nat /\ pos[2] \in DOMAIN Executors(g, StageNode)
      /\ p[1] \in Nat /\ p[2] \in Nat
  BY RunningStage DEF Steady
<1>3. p[1] <= pos[1]
  BY <1>2 DEF NotAhead
<1>4. \A i \in 1 .. p[1] - 1 : s[i][2] \in DOMAIN g.nodeInfos /\ s[i][2] # Self[1]
  <2>1. \A i \in 1 .. p[1] - 1 : i \in 1 .. pos[1] - 1
    BY <1>2, <1>3
  <2>2. QED
    BY <2>1, PlaceOfRun DEF Self
<1>5. ASSUME NEW j \in 1 .. p[2] - 1
      PROVE  /\ s[p[1]][2] \in DOMAIN g.nodeInfos /\ j \in DOMAIN Executors(g, s[p[1]][2])
             /\ Executors(g, s[p[1]][2])[j].type # "function"
             /\ <<s[p[1]][2], j>> # Self
  <2> DEFINE m == s[p[1]][2]
  <2>1. p # <<1, 1>> /\ Reached(p) /\ j \in Nat /\ j < p[2] /\ 1 <= j
    BY <1>2
  <2>2. m \in DOMAIN g.nodeInfos /\ (m = StageNode => p[1] = pos[1]) /\ s[p[1]][1] = generation
    <3>1. CASE p[1] = pos[1]
      BY <1>1, <3>1 DEF StageNode, Steady, Running
    <3>2. CASE p[1] # pos[1]
      <4>1. p[1] \in 1 .. pos[1] - 1
        <5>1. p[1] \in DOMAIN sequence /\ sequence \in Seq(Nat \X Nat)
          BY <2>1 DEF Reached, Steady, Running, RunnerInv
        <5>2. p[1] >= 1
          BY <5>1
        <5>3. QED
          BY <1>2, <1>3, <3>2, <5>2
      <4>2. m \in DOMAIN g.nodeInfos /\ m # StageNode
        BY <4>1, PlaceOfRun
      <4>3. s[p[1]][1] = generation
        BY <4>1, RunningStage DEF Steady, Reached
      <4>4. QED
        BY <4>2, <4>3
    <3>3. QED
      BY <3>1, <3>2
  <2>3. p[2] \in DOMAIN Executors(g, m)
    <3>1. stages[m] = Stage(g, m)
      BY <2>2, RunningStage DEF Steady, Loaded
    <3>2. p[2] \in DOMAIN stages[m].executors
      BY <2>1, <2>2 DEF Reached
    <3>3. QED
      BY <3>1, <3>2 DEF Stage
  <2> HIDE DEF m
  <2>4. j \in DOMAIN Executors(g, m) /\ j # Len(Executors(g, m))
    <3>1. DOMAIN Executors(g, m) = 1 .. Len(Executors(g, m)) /\ Len(Executors(g, m)) \in Nat
      BY <1>1, <2>2, ExecutorsLength
    <3> DEFINE last == Len(Executors(g, m))
    <3>2. j \in Nat /\ 1 <= j /\ j < p[2] /\ p[2] \in 1 .. last /\ last \in Nat
      BY <2>1, <2>3, <3>1
    <3> HIDE DEF last
    <3>3. j \in 1 .. last /\ j # last
      BY <1>2, <3>2
    <3>4. QED
      BY <3>1, <3>3 DEF last
  <2>5. Executors(g, m)[j].type # "function"
    BY <1>1, <2>2, <2>4, ExecutorKinds
  <2>6. <<m, j>> # Self
    <3>1. m = StageNode => p[2] <= pos[2]
      BY <1>2, <2>2 DEF NotAhead
    <3>2. m = StageNode => j # pos[2]
      BY <1>2, <2>1, <3>1
    <3>3. QED
      BY <3>2 DEF Self
  <2>7. QED
    BY <2>2, <2>4, <2>5, <2>6 DEF m
<1>6. \A k \in DOMAIN FreshAttrs(g) : <<k[1], k[2]>> # Self => B[k] = attrs[k]
  BY OthersKept
<1> HIDE DEF g, s
<1>7. RanBefore(g, attrs, s, p)
  BY DEF g, s
<1>8. RanBefore(g, B, s, p)
  BY <1>1, <1>4, <1>5, <1>6, <1>7, RanBeforeKept
<1>9. QED
  BY <1>8 DEF g, s

\* The outputs of a function that are given have their values.
LEMMA GivenOutputs ==
  ASSUME Steady, NEW B, GivesRight(B), Executor.type = "function", NEW y \in DOMAIN Executor.gives
  PROVE  HasValue(built, B, <<StageNode, y>>)
<1> DEFINE n == StageNode
           g == built
           slot == <<n, y>>
<1>1. /\ Built(g) /\ IsWired(g) /\ n \in DOMAIN g.nodeInfos
      /\ IsFunction(g, n) /\ IsLast /\ Executor = MainFunction(g, n)
  BY RunningExecutor
<1>2. y \in Entries(g.nodeInfos[n].outs) /\ Executor.gives[y] = g.slotInfos[slot].dtype
  BY <1>1 DEF MainFunction
<1>3. MainEntry(g, slot) = Key(y)
  BY <1>1, RunningStage DEF Steady, MainEntry, Key, IsLast
<1>4. B[Key(y)].dtype = Executor.gives[y] /\ B[Key(y)].value = Values(g)[slot]
  BY DEF GivesRight
<1>5. QED
  BY <1>2, <1>3, <1>4 DEF HasValue

\* The functions that collect a result are codecs.
LEMMA CollectorIsCodec ==
  ASSUME Steady, Executor.uri \in Async
  PROVE  Executor.type # "function" /\ Executor.uri \notin Gpu
<1>1. SUFFICES ASSUME Executor.type = "function" PROVE FALSE
  BY RunnerAssumption
<1>2. IsFunction(built, StageNode) /\ Executor = MainFunction(built, StageNode)
  BY <1>1, RunningExecutor
<1>3. built.nodeInfos[StageNode].uri \notin Async
  BY <1>2, RunningExecutor DEF TasksFit
<1>4. QED
  BY <1>2, <1>3 DEF MainFunction

\* What was handed over is right, and what was painted on.
LEMMA HandedOver ==
  ASSUME Steady, Executor.uri \in Async
  PROVE  Resumable(built, Transferred, StageNode, pos[2], Transferred[Key("$in")].value)
<1>1. Executor.type # "function" /\ Executor.uri \notin Gpu
  BY CollectorIsCodec
<1>2. Executor = Executors(built, StageNode)[pos[2]] /\ Executor.type \in {"encode", "decode", "function"}
  BY RunningExecutor
<1>3. Transferred[Key("$in")].value =
        IF Executor.type = "decode" THEN Executor.payload ELSE Values(built)[<<StageNode, "$in">>]
  BY <1>1, <1>2, PayloadStays, InputArrives
<1>4. QED
  BY <1>1, <1>2, <1>3 DEF Resumable

LEMMA PaintedOn ==
  ASSUME Steady, Executor.uri \in Gpu, NEW took
  PROVE  Resumable(built, Written(Transferred), StageNode, pos[2], took)
<1>1. Executor.type = "function" /\ Executor = Executors(built, StageNode)[pos[2]] /\ Executor.uri \notin Async
  BY RunningExecutor, RunnerAssumption
<1>2. \A y \in DOMAIN Executor.gives : HasValue(built, Written(Transferred), <<StageNode, y>>)
  BY <1>1, WrittenIsRight, GivenOutputs
<1>3. QED
  BY <1>1, <1>2 DEF Resumable

LEMMA ResumableKept ==
  ASSUME Steady, NEW B, Leaves(B), GivesRight(B) \/ Executor.uri \notin Gpu,
         NEW n \in DOMAIN built.nodeInfos, NEW i \in DOMAIN Executors(built, n), NEW took,
         Resumable(built, attrs, n, i, took)
  PROVE  Resumable(built, B, n, i, took)
<1> DEFINE g == built
           x == Executors(g, n)[i]
<1>1. Built(g) /\ IsWired(g)
  BY RunningExecutor
<1>2. SUFFICES ASSUME x.uri \in Gpu, NEW y \in DOMAIN x.gives PROVE HasValue(g, B, <<n, y>>)
  BY DEF Resumable
<1>3. x.type = "function" /\ x = MainFunction(g, n) /\ IsFunction(g, n) /\ i = Len(Executors(g, n))
  BY <1>1, <1>2, ExecutorKinds
<1>4. HasValue(g, attrs, <<n, y>>)
  BY <1>2 DEF Resumable
<1>5. y \in Entries(SlotNames(g, n))
  <2>1. y \in Entries(g.nodeInfos[n].outs)
    BY <1>1, <1>2, <1>3, MainFunctionTypes
  <2>2. QED
    BY <1>1, <2>1, FunctionSlots
<1> DEFINE slot == <<n, y>>
<1>6. slot \in DOMAIN g.slotStates /\ slot[1] = n /\ slot[2] = y
  BY <1>1, <1>5, NodeHasSlot
<1>7. MainEntry(g, slot) = <<n, i, y>> /\ <<n, i, y>> \in DOMAIN FreshAttrs(g)
  BY <1>1, <1>3, <1>6, SlotEntry
<1>8. CASE <<n, i>> # Self
  <2>1. B[<<n, i, y>>] = attrs[<<n, i, y>>]
    BY <1>7, <1>8, OthersKept
  <2>2. QED
    BY <1>4, <1>7, <2>1 DEF HasValue
<1>9. CASE <<n, i>> = Self
  <2>1. n = StageNode /\ i = pos[2]
    BY <1>9 DEF Self
  <2>2. Executor = x
    BY <2>1, RunningExecutor
  <2>3. GivesRight(B) /\ Executor.type = "function" /\ y \in DOMAIN Executor.gives
    BY <1>2, <1>3, <2>2
  <2>4. QED
    BY <2>1, <2>3, GivenOutputs
<1>10. QED
  BY <1>8, <1>9

----------------------------------------------------------------------------
(***************************************************************************)
(* The invariant is kept                                                   *)
(***************************************************************************)

\* The tasks that were handed over, after a run that leaves the attributes B.
StartedRight(B) ==
  \A x \in DOMAIN started' :
    /\ x[1] \in DOMAIN built.nodeInfos /\ x[2] \in DOMAIN Executors(built, x[1])
    /\ Resumable(built, B, x[1], x[2], started'[x])

LEMMA StartedStays ==
  ASSUME Steady, ValuesKept, NEW B, Leaves(B), GivesRight(B) \/ Executor.uri \notin Gpu,
         UNCHANGED started
  PROVE  StartedRight(B)
<1> SUFFICES ASSUME NEW x \in DOMAIN started
             PROVE  /\ x[1] \in DOMAIN built.nodeInfos /\ x[2] \in DOMAIN Executors(built, x[1])
                    /\ Resumable(built, B, x[1], x[2], started[x])
  BY DEF StartedRight
<1>1. /\ x[1] \in DOMAIN built.nodeInfos /\ x[2] \in DOMAIN Executors(built, x[1])
      /\ Resumable(built, attrs, x[1], x[2], started[x])
  BY DEF ValuesKept
<1>2. QED
  BY <1>1, ResumableKept

LEMMA StartedGrows ==
  ASSUME Steady, ValuesKept, NEW B, Leaves(B), GivesRight(B) \/ Executor.uri \notin Gpu,
         NEW v, started' = [k \in DOMAIN started \cup {Self} |-> IF k = Self THEN v ELSE started[k]],
         Resumable(built, B, StageNode, pos[2], v)
  PROVE  StartedRight(B)
<1>1. ASSUME NEW x \in DOMAIN started, x # Self
      PROVE  /\ x[1] \in DOMAIN built.nodeInfos /\ x[2] \in DOMAIN Executors(built, x[1])
             /\ Resumable(built, B, x[1], x[2], started[x])
  <2>1. /\ x[1] \in DOMAIN built.nodeInfos /\ x[2] \in DOMAIN Executors(built, x[1])
        /\ Resumable(built, attrs, x[1], x[2], started[x])
    BY DEF ValuesKept
  <2>2. QED
    BY <2>1, ResumableKept
<1>2. /\ Self[1] = StageNode /\ Self[2] = pos[2]
      /\ StageNode \in DOMAIN built.nodeInfos /\ pos[2] \in DOMAIN Executors(built, StageNode)
  BY RunningExecutor DEF Self
<1>3. QED
  BY <1>1, <1>2 DEF StartedRight

\* The outputs recorded stay right.
LEMMA RecordedRight ==
  ASSUME Steady, ValuesKept, NEW B, GivesRight(B)
  PROVE  \A n \in DOMAIN Recorded(B) : Recorded(B)[n] = Values(built)[<<n, "$in">>]
<1>1. \A n \in DOMAIN completed : completed[n] = Values(built)[<<n, "$in">>]
  BY DEF ValuesKept
<1>2. ASSUME Executor.type = "encode" PROVE B[Key("$out")].value = Values(built)[<<StageNode, "$in">>]
  BY <1>2 DEF GivesRight
<1>3. QED
  BY <1>1, <1>2 DEF Recorded

LEMMA SavedTyped ==
  ASSUME Running
  PROVE  /\ saved \in Nat \X Nat /\ pos \in Nat \X Nat /\ Reached(pos)
         /\ saved = <<1, 1>> \/ Reached(saved)
BY RunningStage DEF Running, RunnerInv, TypeOK

\* What stays whatever way the run ends.
LEMMA AttrsKept ==
  ASSUME Steady, ValuesKept, NEW B, Leaves(B)
  PROVE  /\ Preloaded(built, B) /\ Unsupplied(built, B)
         /\ RanBefore(built, B, sequence, saved)
         /\ RanBefore(built, B, sequence, pos)
<1>1. NotAhead(saved, pos) /\ RanBefore(built, attrs, sequence, saved)
  BY DEF ValuesKept, Steady, Running
<1>2. /\ saved \in Nat \X Nat /\ pos \in Nat \X Nat /\ Reached(pos)
      /\ saved = <<1, 1>> \/ Reached(saved)
  BY SavedTyped DEF Steady
<1>3. NotAhead(pos, pos) /\ RanBefore(built, attrs, sequence, pos)
  BY <1>2 DEF NotAhead, Steady
<1>4. QED
  BY <1>1, <1>2, <1>3, PreloadedKept, UnsuppliedKept, RanKept

LEMMA PauseKeepsValues ==
  ASSUME Steady, ValuesKept, NEW B, attrs' = B, Leaves(B), StartedRight(B),
         NEW awaits, Pause(awaits) \/ Break
  PROVE  ValuesKept'
<1>1. /\ phase' = "idle" /\ UNCHANGED completed
      /\ saved' = pos \/ saved' = saved
  BY DEF Pause, Break
<1>2. UNCHANGED <<built, sequence>>
  BY DEF Steady, Running, pipelineVars
<1>3. /\ Preloaded(built, B) /\ Unsupplied(built, B)
      /\ RanBefore(built, B, sequence, saved) /\ RanBefore(built, B, sequence, pos)
  BY AttrsKept
<1>4. RanBefore(built, B, sequence, saved')
  BY <1>1, <1>3
<1>5. \A x \in DOMAIN started' :
        /\ x[1] \in DOMAIN built.nodeInfos /\ x[2] \in DOMAIN Executors(built, x[1])
        /\ Resumable(built, B, x[1], x[2], started'[x])
  BY DEF StartedRight
<1>6. \A n \in DOMAIN completed' : completed'[n] = Values(built)[<<n, "$in">>]
  BY <1>1 DEF ValuesKept
<1>7. QED
  BY <1>1, <1>2, <1>3, <1>4, <1>5, <1>6 DEF ValuesKept

LEMMA FinishKeepsValues ==
  ASSUME Steady, ValuesKept, NEW B, Leaves(B), GivesRight(B), StartedRight(B), FinishExecutor(B)
  PROVE  ValuesKept'
<1>1. /\ attrs' = B /\ completed' = Recorded(B)
      /\ \/ ~ IsLast /\ pos' = <<pos[1], pos[2] + 1>> /\ saved' = saved
         \/ IsLast /\ pos' = <<pos[1] + 1, 1>> /\ saved' = saved
         \/ phase' = "idle" /\ saved' = <<1, 1>>
  BY DEF FinishExecutor
<1>2. UNCHANGED <<built, sequence>> /\ phase = "stepping"
  BY DEF Steady, Running, pipelineVars
<1>3. /\ Preloaded(built, B) /\ Unsupplied(built, B)
      /\ RanBefore(built, B, sequence, saved) /\ RanBefore(built, B, sequence, pos)
  BY AttrsKept
<1>4. \A x \in DOMAIN started' :
        /\ x[1] \in DOMAIN built.nodeInfos /\ x[2] \in DOMAIN Executors(built, x[1])
        /\ Resumable(built, B, x[1], x[2], started'[x])
  BY DEF StartedRight
<1>5. \A n \in DOMAIN completed' : completed'[n] = Values(built)[<<n, "$in">>]
  BY <1>1, RecordedRight
<1>6. saved \in Nat \X Nat /\ pos \in Nat \X Nat /\ NotAhead(saved, pos)
  BY <1>2, SavedTyped DEF Steady, ValuesKept
<1>7. ASSUME NEW p, RanBefore(built, B, sequence, saved'),
             phase' = "stepping" => pos' = p /\ RanBefore(built, B, sequence, p) /\ NotAhead(saved', p)
      PROVE  ValuesKept'
  BY <1>1, <1>2, <1>3, <1>4, <1>5, <1>7 DEF ValuesKept
<1>8. CASE ~ IsLast /\ pos' = <<pos[1], pos[2] + 1>> /\ saved' = saved
  <2> DEFINE p == <<pos[1], pos[2] + 1>>
  <2>1. p[1] = pos[1] /\ p[2] = pos[2] + 1 /\ pos[2] \in Nat
    BY <1>6
  <2>2. IsDecoded(built, B, sequence[pos[1]][2], pos[2])
    BY <1>8, StageRan DEF StageNode
  <2> HIDE DEF p
  <2>3. RanBefore(built, B, sequence, p)
    <3>1. \A j \in 1 .. p[2] - 1 : j \in 1 .. pos[2] - 1 \/ j = pos[2]
      BY <2>1
    <3>2. \A j \in 1 .. p[2] - 1 : IsDecoded(built, B, sequence[p[1]][2], j)
      BY <1>3, <2>1, <2>2, <3>1 DEF RanBefore
    <3>3. \A i \in 1 .. p[1] - 1 :
            \A x \in Entries(SlotNames(built, sequence[i][2])) : HasValue(built, B, <<sequence[i][2], x>>)
      BY <1>3, <2>1 DEF RanBefore
    <3>4. QED
      BY <3>2, <3>3 DEF RanBefore
  <2>4. NotAhead(saved', p)
    BY <1>6, <1>8, <2>1 DEF NotAhead
  <2>5. QED
    BY <1>3, <1>7, <1>8, <2>3, <2>4 DEF p
<1>9. CASE IsLast /\ pos' = <<pos[1] + 1, 1>> /\ saved' = saved
  <2> DEFINE p == <<pos[1] + 1, 1>>
  <2>1. p[1] = pos[1] + 1 /\ p[2] = 1 /\ pos[1] \in Nat
    BY <1>6
  <2>2. \A x \in Entries(SlotNames(built, sequence[pos[1]][2])) :
          HasValue(built, B, <<sequence[pos[1]][2], x>>)
    BY <1>9, GivenSlots DEF StageNode
  <2> HIDE DEF p
  <2>3. RanBefore(built, B, sequence, p)
    <3>1. \A i \in 1 .. p[1] - 1 : i \in 1 .. pos[1] - 1 \/ i = pos[1]
      BY <2>1
    <3>2. \A i \in 1 .. p[1] - 1 :
            \A x \in Entries(SlotNames(built, sequence[i][2])) : HasValue(built, B, <<sequence[i][2], x>>)
      BY <1>3, <2>2, <3>1 DEF RanBefore
    <3>3. 1 .. p[2] - 1 = {}
      BY <2>1
    <3>4. QED
      BY <3>2, <3>3 DEF RanBefore
  <2>4. NotAhead(saved', p)
    BY <1>6, <1>9, <2>1 DEF NotAhead
  <2>5. QED
    BY <1>3, <1>7, <1>9, <2>3, <2>4 DEF p
<1>10. CASE phase' = "idle" /\ saved' = <<1, 1>>
  <2>1. RanBefore(built, B, sequence, <<1, 1>>)
    BY DEF RanBefore
  <2>2. QED
    BY <1>7, <1>10, <2>1
<1>11. QED
  BY <1>1, <1>8, <1>9, <1>10

\* A run that does not end the program keeps the values.
LEMMA RunKeepsValues ==
  ASSUME Steady, ValuesKept, RunsExecutor(Transferred), phase' # "aborted"
  PROVE  ValuesKept'
<1> DEFINE A == Transferred
<1>1. /\ Leaves(A) /\ Leaves(Written(A)) /\ GivesRight(Written(A))
      /\ Executor.type # "function" => Leaves(Collected(A))
  BY LeavesOthers, WrittenIsRight
<1>2. ~ Abort
  BY DEF Abort
<1>3. Self \in DOMAIN started => Resumable(built, attrs, StageNode, pos[2], started[Self])
  <2>1. Self[1] = StageNode /\ Self[2] = pos[2]
    BY DEF Self
  <2>2. QED
    BY <2>1 DEF ValuesKept
<1> HIDE DEF A
<1>4. CASE Executor.uri \in DOMAIN Outcomes /\ RunSync(A)
  <2>1. UNCHANGED started /\ Executor.uri \notin Gpu
    BY <1>2, <1>4, RunnerAssumption DEF RunSync
  <2>2. StartedRight(A) /\ StartedRight(Written(A))
    BY <1>1, <2>1, StartedStays
  <2>3. CASE FinishExecutor(Written(A))
    BY <1>1, <2>2, <2>3, FinishKeepsValues
  <2>4. CASE attrs' = A /\ (Pause({}) \/ Break)
    BY <1>1, <2>2, <2>4, PauseKeepsValues
  <2>5. QED
    BY <1>2, <1>4, <2>3, <2>4 DEF RunSync
<1>5. CASE Executor.uri \in Async /\ HandOver(A)
  <2>1. /\ attrs' = A /\ Pause({StageNode})
        /\ started' = [k \in DOMAIN started \cup {Self} |->
                         IF k = Self THEN A[Key("$in")].value ELSE started[k]]
    BY <1>2, <1>5 DEF HandOver
  <2>2. Resumable(built, A, StageNode, pos[2], A[Key("$in")].value) /\ Executor.uri \notin Gpu
    BY <1>5, HandedOver, CollectorIsCodec DEF A
  <2>3. StartedRight(A)
    BY <1>1, <2>1, <2>2, StartedGrows
  <2>4. QED
    BY <1>1, <2>1, <2>3, PauseKeepsValues
<1>6. CASE Executor.uri \in Async /\ Self \in DOMAIN started /\ Resume(A)
  <2>1. UNCHANGED started /\ Executor.type # "function" /\ Executor.uri \notin Gpu
    BY <1>6, CollectorIsCodec DEF Resume
  <2>2. Leaves(Collected(A)) /\ GivesRight(Collected(A))
    BY <1>1, <1>3, <1>6, <2>1, CollectedIsRight DEF A
  <2>3. StartedRight(A) /\ StartedRight(Collected(A))
    BY <1>1, <2>1, <2>2, StartedStays
  <2>4. CASE FinishExecutor(Collected(A))
    BY <2>2, <2>3, <2>4, FinishKeepsValues
  <2>5. CASE attrs' = A /\ Break
    BY <1>1, <2>3, <2>5, PauseKeepsValues
  <2>6. QED
    BY <1>6, <2>4, <2>5 DEF Resume
<1>7. CASE Executor.uri \in Gpu /\ Dispatch(A)
  <2>1. /\ attrs' = Written(A) /\ Pause({StageNode})
        /\ started' = [k \in DOMAIN started \cup {Self} |-> IF k = Self THEN NoData ELSE started[k]]
    BY <1>2, <1>7 DEF Dispatch
  <2>2. Resumable(built, Written(A), StageNode, pos[2], NoData)
    BY <1>7, PaintedOn DEF A
  <2>3. StartedRight(Written(A))
    BY <1>1, <2>1, <2>2, StartedGrows
  <2>4. QED
    BY <1>1, <2>1, <2>3, PauseKeepsValues
<1>8. CASE Executor.uri \in Gpu /\ Self \in DOMAIN started /\ Capture(A)
  <2>1. FinishExecutor(A) /\ UNCHANGED started
    BY <1>2, <1>8 DEF Capture
  <2>2. GivesRight(A)
    BY <1>3, <1>8, CapturedIsRight DEF A
  <2>3. StartedRight(A)
    BY <1>1, <2>1, <2>2, StartedStays
  <2>4. QED
    BY <1>1, <2>1, <2>2, <2>3, FinishKeepsValues
<1>9. RunsExecutor(A)
  BY DEF A
<1>10. QED
  BY <1>2, <1>4, <1>5, <1>6, <1>7, <1>8, <1>9 DEF RunsExecutor

\* A fresh pipeline has nothing but the payloads of its decoders.
LEMMA FreshValues ==
  ASSUME NEW g, Built(g), IsWired(g)
  PROVE  Preloaded(g, FreshAttrs(g)) /\ Unsupplied(g, FreshAttrs(g))
<1> DEFINE D == DOMAIN FreshAttrs(g)
           preloaded(k) == k[3] = "$in" /\ Executors(g, k[1])[k[2]].type = "decode"
<1>1. \A k \in D : FreshAttrs(g)[k] =
        IF preloaded(k) THEN [dtype |-> "$encoded", value |-> Executors(g, k[1])[k[2]].payload] ELSE Unset
  BY DEF FreshAttrs
<1>2. ASSUME NEW n \in DOMAIN g.nodeInfos, NEW i \in DOMAIN Executors(g, n),
             Executors(g, n)[i].type = "decode"
      PROVE  FreshAttrs(g)[<<n, i, "$in">>] = [dtype |-> "$encoded", value |-> Executors(g, n)[i].payload]
  <2>1. <<n, i, "$in">> \in D
    BY <1>2, CodecEntries
  <2>2. QED
    BY <1>1, <1>2, <2>1
<1>3. ASSUME NEW slot \in DOMAIN g.slotStates, g.slotInfos[slot].access # "O"
      PROVE  FreshAttrs(g)[MainEntry(g, slot)] = Unset
  <2> DEFINE n == slot[1]
             x == slot[2]
             last == Len(Executors(g, n))
             k == MainEntry(g, slot)
  <2>1. k \in D /\ k = <<n, last, x>>
    BY SlotEntry
  <2>2. slot = <<n, x>> /\ n \in DOMAIN g.nodeInfos /\ x \in Entries(SlotNames(g, n))
    BY SlotOfNode
  <2> HIDE DEF D, k, n, x
  <2>3. last \in DOMAIN Executors(g, n)
    BY <2>2, ExecutorsLength
  <2>4. ~ preloaded(k)
    <3>1. SUFFICES ASSUME x = "$in", Executors(g, n)[last].type = "decode" PROVE FALSE
      BY <2>1
    <3>2. ~ IsFunction(g, n) /\ g.nodeInfos[n].ntype # "OUT"
      BY <2>2, <2>3, <3>1, ExecutorKinds, ZenonT(30)
    <3>3. g.nodeInfos[n].ntype = "IN"
      BY <2>2, <3>2, NodeTypes DEF Built, IsFunction
    <3>4. SlotNames(g, n) = << >> \o <<"$out">> \o << >>
      BY <2>2, <3>3 DEF SlotNames, IsWired
    <3>5. QED
      BY <2>2, <3>1, <3>4 DEF Entries
  <2>5. FreshAttrs(g)[k] = Unset
    BY <1>1, <2>1, <2>4
  <2>6. QED
    BY <2>5 DEF k
<1>4. QED
  BY <1>2, <1>3 DEF Preloaded, Unsupplied

LEMMA BuildKeepsValues ==
  ASSUME ValuesInv, NEW g \in Graphs, Build(g)
  PROVE  ValuesInv'
<1>1. RunnerInv'
  BY BuildInv DEF ValuesInv
<1>2. CASE phase' \in {"idle", "stepping"}
  <2>1. /\ phase' = "idle" /\ BuildOk(g) /\ built' = g /\ generation' = generation + 1
        /\ sequence' = sequence \o [i \in DOMAIN g.sortOrder |-> <<generation + 1, g.sortOrder[i]>>]
        /\ attrs' = FreshAttrs(g) /\ started' = EmptyMap /\ saved' = <<1, 1>> /\ completed' = EmptyMap
    BY <1>2 DEF Build
  <2> DEFINE new == [i \in DOMAIN g.sortOrder |-> <<generation + 1, g.sortOrder[i]>>]
  <2>2. InSequence'
    <3>1. SUFFICES ASSUME sequence' # << >>, sequence'[1][1] = generation'
                   PROVE  sequence' = [i \in DOMAIN g.sortOrder |-> <<generation + 1, g.sortOrder[i]>>]
      BY <2>1 DEF InSequence
    <3>2. /\ sequence \in Seq(Nat \X Nat) /\ generation \in Nat
          /\ \A i \in DOMAIN sequence : sequence[i][1] \in 1 .. generation
      BY DEF ValuesInv, RunnerInv, TypeOK
    <3>3. new \in Seq(Nat \X Nat)
      <4>1. g.sortOrder \in Seq(Nat)
        BY RunnerAssumption DEF IsGraphState
      <4>2. DOMAIN g.sortOrder = 1 .. Len(g.sortOrder) /\ Len(g.sortOrder) \in Nat
        BY <4>1
      <4>3. \A i \in 1 .. Len(g.sortOrder) : <<generation + 1, g.sortOrder[i]>> \in Nat \X Nat
        BY <3>2, <4>1, <4>2, SMTT(30)
      <4>4. QED
        BY <4>2, <4>3
    <3> HIDE DEF new
    <3>4. CASE sequence = << >>
      <4>1. sequence \o new = new
        BY <3>3, <3>4
      <4>2. QED
        BY <2>1, <4>1 DEF new
    <3>5. CASE sequence # << >>
      <4>1. 1 \in DOMAIN sequence /\ DOMAIN sequence = 1 .. Len(sequence) /\ Len(sequence) \in Nat
        BY <3>2, <3>5
      <4>2. (sequence \o new)[1] = sequence[1]
        BY <3>2, <3>3, <4>1, Concatenation
      <4>3. sequence[1][1] = generation + 1
        BY <2>1, <3>1, <4>2 DEF new
      <4>4. sequence[1][1] \in 1 .. generation
        BY <3>2, <4>1
      <4>5. QED
        BY <3>2, <4>3, <4>4
    <3>6. QED
      BY <3>4, <3>5
  <2>3. ASSUME Fitting(g) PROVE ValuesKept'
    <3>1. Preloaded(g, FreshAttrs(g)) /\ Unsupplied(g, FreshAttrs(g))
      BY <2>3, FreshValues DEF Fitting
    <3>2. RanBefore(g, FreshAttrs(g), sequence', <<1, 1>>)
      BY DEF RanBefore
    <3>3. DOMAIN started' = {} /\ DOMAIN completed' = {}
      BY <2>1 DEF EmptyMap
    <3>4. QED
      BY <2>1, <3>1, <3>2, <3>3 DEF ValuesKept
  <2>4. QED
    BY <1>1, <2>1, <2>2, <2>3 DEF ValuesInv
<1>3. QED
  BY <1>1, <1>2 DEF ValuesInv

LEMMA BeginStepKeepsValues ==
  ASSUME ValuesInv, BeginStep
  PROVE  ValuesInv'
<1>1. RunnerInv'
  BY BeginStepInv DEF ValuesInv
<1>2. /\ phase = "idle"
      /\ UNCHANGED <<built, stages, sequence, generation, attrs, started, saved, completed>>
      /\ phase' = "stepping" => pos' = saved
  BY DEF BeginStep, pipelineVars, functionVars
<1>3. Loaded' => Loaded
  BY <1>2 DEF Loaded
<1>4. ASSUME Loaded PROVE InSequence'
  BY <1>2, <1>4 DEF ValuesInv, InSequence
<1>5. ASSUME Loaded, Fitting(built) PROVE ValuesKept'
  <2>1. ValuesKept
    BY <1>2, <1>5 DEF ValuesInv
  <2>2. NotAhead(saved, saved)
    BY DEF ValuesInv, RunnerInv, TypeOK, NotAhead
  <2>3. QED
    BY <1>2, <2>1, <2>2 DEF ValuesKept
<1>6. QED
  BY <1>1, <1>2, <1>3, <1>4, <1>5 DEF ValuesInv

LEMMA RunExecutorKeepsValues ==
  ASSUME ValuesInv, RunExecutor
  PROVE  ValuesInv'
<1>1. RunnerInv'
  BY RunExecutorInv DEF ValuesInv
<1>2. CASE phase' \notin {"idle", "stepping"}
  BY <1>1, <1>2 DEF ValuesInv
<1>3. CASE phase' \in {"idle", "stepping"}
  <2>1. phase = "stepping" /\ sequence[pos[1]][1] = generation /\ RunsExecutor(Transferred)
    BY <1>3 DEF RunExecutor, RunsExecutor
  <2>2. Running
    BY <2>1 DEF RunExecutor, Running, ValuesInv
  <2>3. /\ Loaded /\ InSequence
        /\ Fitting(built) => ValuesKept
    BY <2>1, <2>2, RunningStage DEF ValuesInv
  <2>4. UNCHANGED <<built, sequence, generation>>
    BY <2>2 DEF Running, pipelineVars
  <2>5. InSequence'
    BY <2>3, <2>4 DEF InSequence
  <2>6. ASSUME Fitting(built) PROVE ValuesKept'
    <3>1. ValuesKept
      BY <2>1, <2>2, <2>6, RunningStage DEF ValuesInv
    <3>2. Steady
      BY <2>1, <2>2, <2>3, <2>6, <3>1 DEF Steady, ValuesKept
    <3>3. QED
      BY <1>3, <2>1, <3>1, <3>2, RunKeepsValues
  <2>7. QED
    BY <1>1, <2>4, <2>5, <2>6 DEF ValuesInv
<1>4. QED
  BY <1>2, <1>3

LEMMA ValuesInit == Init => ValuesInv
<1> SUFFICES ASSUME Init PROVE ValuesInv
  OBVIOUS
<1>1. ~ Loaded
  BY DEF Init, Loaded
<1>2. QED
  BY <1>1, RunnerInit DEF ValuesInv

LEMMA ValuesNext == ValuesInv /\ [Next]_vars => ValuesInv'
<1> SUFFICES ASSUME ValuesInv, [Next]_vars PROVE ValuesInv'
  OBVIOUS
<1>1. RunnerInv'
  BY RunnerNext DEF ValuesInv
<1>2. CASE UNCHANGED <<built, stages, sequence, generation, attrs, started, saved, pos, completed, phase>>
  <2>1. Loaded' => Loaded
    BY <1>2 DEF Loaded
  <2>2. InSequence => InSequence'
    BY <1>2 DEF InSequence
  <2>3. ValuesKept => ValuesKept'
    BY <1>2 DEF ValuesKept
  <2>4. QED
    BY <1>1, <1>2, <2>1, <2>2, <2>3 DEF ValuesInv
<1>3. CASE UNCHANGED vars
  BY <1>2, <1>3 DEF vars, pipelineVars, functionVars
<1>4. ASSUME NEW t \in DOMAIN tasks, Fulfil(t) PROVE ValuesInv'
  BY <1>2, <1>4 DEF Fulfil, pipelineVars
<1>5. QED
  BY <1>3, <1>4, BuildKeepsValues, BeginStepKeepsValues, RunExecutorKeepsValues DEF Next

THEOREM ValuesInvariant == Spec => []ValuesInv
BY ValuesInit, ValuesNext, PTL DEF Spec

LEMMA LoadedFits ==
  ASSUME GraphsFit, Loaded, Ordered(built)
  PROVE  Fitting(built)
BY RunnerAssumption DEF GraphsFit, Loaded, Fitting, Built

\* What is recorded for a graph output is what the graph computes for it, over
\* awaits, errors, retries, repeated runs and builds of StepPipelineV2.
THEOREM OutputsAreRightAlways ==
  ASSUME GraphsFit
  PROVE  Spec => []OutputsAreRight
<1>1. ValuesInv => OutputsAreRight
  <2> SUFFICES ASSUME ValuesInv, built # NoGraph, phase \in {"idle", "stepping"}
               PROVE  /\ DOMAIN completed \subseteq GraphOutputs(built)
                      /\ Ordered(built) =>
                           \A n \in DOMAIN completed : completed[n] = Values(built)[<<n, "$in">>]
    BY DEF OutputsAreRight
  <2>1. Loaded /\ DOMAIN completed \subseteq GraphOutputs(built)
    BY DEF ValuesInv, RunnerInv, Unloaded
  <2>2. ASSUME Ordered(built) PROVE ValuesKept
    BY <2>1, <2>2, LoadedFits DEF ValuesInv
  <2>3. QED
    BY <2>1, <2>2 DEF ValuesKept
<1>2. QED
  BY <1>1, ValuesInvariant, PTL

\* Only the end of an encoder adds to the outputs.
LEMMA OutputsChange ==
  ASSUME RunExecutor
  PROVE  \/ UNCHANGED completed
         \/ /\ sequence[pos[1]][1] = generation
            /\ \E B : FinishExecutor(B)
<1>1. CASE UNCHANGED <<functionVars, saved, pos, completed, result>>
  BY <1>1
<1>2. CASE sequence[pos[1]][1] = generation /\ RunsExecutor(Transferred)
  BY <1>2 DEF RunsExecutor, Abort, RunSync, HandOver, Resume, Dispatch, Capture, Pause, Break
<1>3. QED
  BY <1>1, <1>2 DEF RunExecutor, RunsExecutor

\* Between two builds no output is withdrawn or changed, though the runner may
\* run the same executors again and again.
THEOREM OutputsAccumulateAlways ==
  ASSUME GraphsFit, GraphsOrdered
  PROVE  Spec => OutputsAccumulate
<1> DEFINE Kept == \A n \in DOMAIN completed : n \in DOMAIN completed' /\ completed'[n] = completed[n]
<1>1. ASSUME ValuesInv, ValuesInv', [Next]_vars, generation' = generation PROVE Kept
  <2>1. CASE UNCHANGED completed
    BY <2>1
  <2>2. ASSUME NEW g \in Graphs, Build(g) PROVE UNCHANGED completed
    <3>1. generation \in Nat
      BY <1>1 DEF ValuesInv, RunnerInv, TypeOK
    <3>2. generation' # generation + 1
      BY <1>1, <3>1
    <3>3. QED
      BY <2>2, <3>2 DEF Build
  <2>3. CASE RunExecutor
    <3>1. CASE \E B : FinishExecutor(B) /\ sequence[pos[1]][1] = generation
      <4>1. PICK B : FinishExecutor(B)
        BY <3>1
      <4>2. Running
        BY <1>1, <2>3, <3>1 DEF RunExecutor, Running, ValuesInv
      <4>3. Loaded /\ DOMAIN completed \subseteq GraphOutputs(built) /\ DOMAIN completed \subseteq DOMAIN completed'
        <5>1. completed' = Recorded(B)
          BY <4>1 DEF FinishExecutor
        <5>2. QED
          BY <4>2, <5>1, RunningStage, RecordedOutputs DEF Running, RunnerInv
      <4>4. SUFFICES ASSUME NEW n \in DOMAIN completed PROVE completed'[n] = completed[n]
        BY <4>3
      <4>5. Ordered(built)
        BY <4>3 DEF GraphsOrdered, Loaded
      <4>6. Fitting(built)
        BY <4>3, <4>5, LoadedFits
      <4>7. phase = "stepping" /\ phase' \in {"idle", "stepping"} /\ built' = built
        BY <4>1, <4>2 DEF Running, FinishExecutor, pipelineVars
      <4>8. ValuesKept
        BY <1>1, <4>3, <4>6, <4>7 DEF ValuesInv
      <4>9. ValuesKept'
        <5>1. Loaded'
          <6>1. generation' > 0
            BY <1>1, <4>3 DEF Loaded
          <6>2. ~ Unloaded'
            BY <6>1 DEF Unloaded
          <6>3. QED
            BY <1>1, <4>7, <6>2 DEF ValuesInv, RunnerInv
        <5>2. Fitting(built')
          BY <4>6, <4>7
        <5>3. QED
          BY <1>1, <4>7, <5>1, <5>2 DEF ValuesInv
      <4>10. completed[n] = Values(built)[<<n, "$in">>]
        BY <4>8 DEF ValuesKept
      <4>11. completed'[n] = Values(built')[<<n, "$in">>]
        BY <4>3, <4>9 DEF ValuesKept
      <4>12. QED
        BY <4>7, <4>10, <4>11
    <3>2. QED
      BY <2>1, <2>3, <3>1, OutputsChange
  <2>4. CASE BeginStep
    BY <2>1, <2>4 DEF BeginStep
  <2>5. ASSUME NEW t \in DOMAIN tasks, Fulfil(t) PROVE Kept
    BY <2>1, <2>5 DEF Fulfil
  <2>6. CASE UNCHANGED vars
    BY <2>1, <2>6 DEF vars
  <2>7. QED
    BY <1>1, <2>1, <2>2, <2>3, <2>4, <2>5, <2>6 DEF Next
<1>2. QED
  BY <1>1, ValuesInvariant, PTL DEF Spec, OutputsAccumulate

----------------------------------------------------------------------------
(***************************************************************************)
(* Complete graphs run                                                     *)
(***************************************************************************)

\* In a complete graph every function finds attributes of the types it takes.
LEMMA CompleteIsReadable ==
  ASSUME Steady, Complete(built)
  PROVE  Readable(Transferred)
<1> DEFINE n == StageNode
           g == built
<1>1. /\ Built(g) /\ IsWired(g) /\ n \in DOMAIN g.nodeInfos
      /\ Executor.type \in {"function", "encode", "decode"}
  BY RunningExecutor
<1>2. \A x \in Entries(g.nodeInfos[n].ins) :
        /\ EdgeFits(g, <<n, x>>)
        /\ EdgesInto(g, <<n, x>>) # {} \/ g.slotStates[<<n, x>>].encodedData # NoData
  BY <1>1 DEF Complete, Sound
<1>3. ASSUME NEW x \in Entries(g.nodeInfos[n].ins), IsLast
      PROVE  Transferred[Key(x)].dtype = g.slotInfos[<<n, x>>].dtype
  <2>1. x \in Entries(SlotNames(g, n)) /\ g.slotInfos[<<n, x>>].access # "O"
    BY <1>1, FunctionSlots
  <2>2. /\ EdgeFits(g, <<n, x>>)
        /\ EdgesInto(g, <<n, x>>) # {} \/ g.slotStates[<<n, x>>].encodedData # NoData
    BY <1>2
  <2>3. QED
    BY <1>3, <2>1, <2>2, TypeArrives
<1>4. CASE Executor.type = "function"
  <2>1. IsLast /\ IsFunction(g, n) /\ Executor = MainFunction(g, n)
    BY <1>4, RunningExecutor
  <2>2. ASSUME NEW x \in DOMAIN Executor.takes PROVE Transferred[Key(x)].dtype = Executor.takes[x]
    <3>1. x \in Entries(g.nodeInfos[n].ins) /\ Executor.takes[x] = g.slotInfos[<<n, x>>].dtype
      BY <2>1 DEF MainFunction
    <3>2. QED
      BY <1>3, <2>1, <3>1
  <2>3. QED
    BY <2>2 DEF Readable
<1>5. CASE Executor.type = "decode"
  <2>1. DOMAIN Executor.takes = {"$in"} /\ Executor.takes["$in"] = "$encoded"
    BY <1>5, RunningExecutor
  <2>2. Transferred[Key("$in")].dtype = "$encoded"
    BY <1>5, PayloadStays
  <2>3. QED
    BY <2>1, <2>2 DEF Readable
<1>6. CASE Executor.type = "encode"
  <2>1. /\ DOMAIN Executor.takes = {"$in"} /\ Executor.takes["$in"] = g.slotInfos[<<n, "$in">>].dtype
        /\ IsLast /\ g.nodeInfos[n].ntype = "OUT"
    BY <1>6, RunningExecutor
  <2>2. "$in" \in Entries(g.nodeInfos[n].ins)
    <3>1. g.nodeInfos[n].ins = <<"$in">>
      BY <1>1, <2>1 DEF IsWired
    <3>2. QED
      BY <3>1 DEF Entries
  <2>3. QED
    BY <1>3, <2>1, <2>2 DEF Readable
<1>7. QED
  BY <1>1, <1>4, <1>5, <1>6

\* What an executor finds in its inputs is what the graph gives it: no function
\* is run on a value of which only the wires or the data it has would be refused.
LEMMA AcceptedArrives ==
  ASSUME Steady, NothingRefused(built)
  PROVE  ~ Refused(Transferred)
<1> DEFINE n == StageNode
           g == built
<1>1. /\ Built(g) /\ IsWired(g) /\ n \in DOMAIN g.nodeInfos
      /\ Executor.type \in {"function", "encode", "decode"}
  BY RunningExecutor
<1>2. Executor \in Entries(Executors(g, n))
  BY RunningExecutor DEF Entries
<1>3. ASSUME NEW x \in DOMAIN Executor.takes
      PROVE  Transferred[Key(x)].value = Arrives(g, n, Executor, x)
  <2>1. CASE Executor.type = "function"
    <3>1. IsLast /\ Executor = MainFunction(g, n)
      BY <2>1, RunningExecutor
    <3>2. x \in Entries(g.nodeInfos[n].ins)
      BY <3>1 DEF MainFunction
    <3>3. x \in Entries(SlotNames(g, n)) /\ g.slotInfos[<<n, x>>].access # "O"
      BY <1>1, <3>2, FunctionSlots
    <3>4. Transferred[Key(x)].value = Values(g)[<<n, x>>]
      BY <3>1, <3>3, ValueArrives
    <3>5. QED
      BY <2>1, <3>4 DEF Arrives
  <2>2. CASE Executor.type = "decode"
    <3>1. x = "$in"
      BY <2>2, RunningExecutor
    <3>2. Transferred[Key("$in")].value = Executor.payload
      BY <2>2, PayloadStays
    <3>3. QED
      BY <2>2, <3>1, <3>2 DEF Arrives
  <2>3. CASE Executor.type = "encode"
    <3>1. x = "$in"
      BY <2>3, RunningExecutor
    <3>2. Transferred[Key("$in")].value = Values(g)[<<n, "$in">>]
      BY <2>3, InputArrives
    <3>3. QED
      BY <2>3, <3>1, <3>2 DEF Arrives
  <2>4. QED
    BY <1>1, <2>1, <2>2, <2>3
<1>4. ASSUME NEW x \in DOMAIN Executor.takes
      PROVE  <<Executor.uri, x, Transferred[Key(x)].value>> \notin Fatal
  <2>1. <<Executor.uri, x, Arrives(g, n, Executor, x)>> \notin Fatal
    BY <1>1, <1>2 DEF NothingRefused
  <2>2. QED
    BY <1>3, <2>1
<1>5. QED
  BY <1>4 DEF Refused

\* How a run may end the program.
LEMMA RunAborts ==
  ASSUME NEW A, RunsExecutor(A), phase = "stepping", phase' = "aborted", Gpu = {}
  PROVE  Executor.uri \notin Registered \/ ~ InputsOk(A)
<1>1. \A B : ~ FinishExecutor(B)
  BY DEF FinishExecutor
<1>2. (\A awaits : ~ Pause(awaits)) /\ ~ Break
  BY DEF Pause, Break
<1>3. QED
  BY <1>1, <1>2 DEF RunsExecutor, RunSync, HandOver, Resume

\* A graph that can be built, is complete and gives no function what it refuses
\* never ends the program, however it is stepped: the types and the values that
\* arrive at a function are those of the graph.
THEOREM CompleteGraphsRunAlways ==
  ASSUME GraphsFit, Gpu = {}
  PROVE  Spec => []CompleteGraphsRun
<1>1. Init => CompleteGraphsRun
  BY DEF Init, CompleteGraphsRun
<1>2. ASSUME ValuesInv, CompleteGraphsRun, [Next]_vars PROVE CompleteGraphsRun'
  <2>1. CASE UNCHANGED <<built, phase>>
    BY <1>2, <2>1 DEF CompleteGraphsRun
  <2>2. ASSUME NEW g \in Graphs, Build(g) PROVE CompleteGraphsRun'
    <3>1. phase = "idle" /\ built' = g /\ (phase' = "aborted" => ~ BuildOk(g))
      BY <2>2 DEF Build
    <3>2. QED
      BY <3>1 DEF CompleteGraphsRun
  <2>3. CASE BeginStep
    BY <2>3 DEF BeginStep, CompleteGraphsRun
  <2>4. CASE RunExecutor
    <3>1. SUFFICES ASSUME phase' = "aborted", BuildOk(built), Complete(built),
                          NothingRefused(built)
                   PROVE  FALSE
      BY <2>4 DEF RunExecutor, pipelineVars, CompleteGraphsRun
    <3>2. /\ phase = "stepping" /\ sequence[pos[1]][1] = generation
          /\ RunsExecutor(Transferred)
      BY <2>4, <3>1 DEF RunExecutor, RunsExecutor
    <3>3. Running
      BY <1>2, <2>4, <3>2 DEF RunExecutor, Running, ValuesInv
    <3>4. Loaded /\ Ordered(built)
      BY <3>1, <3>3, RunningStage DEF Complete, Sound
    <3>5. Fitting(built)
      BY <3>4, LoadedFits
    <3>6. InSequence /\ ValuesKept
      BY <1>2, <3>2, <3>4, <3>5 DEF ValuesInv
    <3>7. Steady
      BY <3>2, <3>3, <3>5, <3>6 DEF Steady, ValuesKept
    <3>8. InputsOk(Transferred)
      BY <3>1, <3>7, CompleteIsReadable, AcceptedArrives DEF InputsOk
    <3>9. Executor.uri \in Registered
      BY <3>1, <3>7, RunningExecutor DEF Complete, Sound
    <3>10. QED
      BY <3>1, <3>2, <3>8, <3>9, RunAborts
  <2>5. ASSUME NEW t \in DOMAIN tasks, Fulfil(t) PROVE CompleteGraphsRun'
    BY <2>1, <2>5 DEF Fulfil, pipelineVars
  <2>6. CASE UNCHANGED vars
    BY <2>1, <2>6 DEF vars, pipelineVars
  <2>7. QED
    BY <1>2, <2>2, <2>3, <2>4, <2>5, <2>6 DEF Next
<1>3. QED
  BY <1>1, <1>2, ValuesInvariant, PTL DEF Spec

----------------------------------------------------------------------------
(***************************************************************************)
(* The await pool.  What a task has become shows in the entry "$out" of    *)
(* the codec that handed it over, for which no transfer is meant.          *)
(***************************************************************************)

\* The executors of the last build that collect the result of a task.
Collectors ==
  UNION {{<<n, i>> : i \in {j \in DOMAIN Executors(built, n) : Executors(built, n)[j].uri \in Async}} :
           n \in DOMAIN built.nodeInfos}

HasResultOf(A, x) == A[<<x[1], x[2], "$out">>] # Unset

Precedes(x, p) ==
  \E a \in DOMAIN sequence :
    /\ sequence[a] = <<generation, x[1]>>
    /\ a < p[1] \/ (a = p[1] /\ x[2] < p[2])

\* Before position p all results were collected.
CollectedBefore(S, A, p) == \A x \in Collectors : Precedes(x, p) => x \in S /\ HasResultOf(A, x)

\* No pointer to a stage of the last build comes twice.
PointersDiffer ==
  \A a, b \in DOMAIN sequence : (sequence[a] = sequence[b] /\ sequence[a][1] = generation) => a = b

\* A task in the pool was handed over, and its result is not there.
TasksOpen(S, A, T) ==
  \A t \in T : t[1] = generation =>
    \E x \in S : t = <<generation, x[1], x[2]>> /\ ~ HasResultOf(A, x)

\* Nothing was handed over while something before it was not collected.
HandedOverInTurn(S, A) ==
  \A x \in S : \A a \in DOMAIN sequence :
    sequence[a] = <<generation, x[1]>> => CollectedBefore(S, A, <<a, x[2]>>)

PoolKept ==
  /\ PointersDiffer
  /\ DOMAIN started \subseteq Collectors
  /\ \A x \in Collectors \ DOMAIN started : ~ HasResultOf(attrs, x)
  /\ TasksOpen(DOMAIN started, attrs, DOMAIN tasks)
  /\ HandedOverInTurn(DOMAIN started, attrs)
  /\ CollectedBefore(DOMAIN started, attrs, saved)
  /\ phase = "stepping" => CollectedBefore(DOMAIN started, attrs, pos)

PoolInv ==
  /\ RunnerInv
  /\ \A t \in DOMAIN tasks : t[1] \in Nat /\ t[1] <= generation
  /\ phase \in {"idle", "stepping"} =>
       /\ Unloaded => started = EmptyMap
       /\ Loaded => PoolKept

LEMMA LoadedIsWired ==
  ASSUME GraphsFit, Loaded
  PROVE  Built(built) /\ IsWired(built) /\ TasksFit(built)
BY RunnerAssumption DEF GraphsFit, Loaded, Built

\* A collector is a codec.
LEMMA CollectorFacts ==
  ASSUME GraphsFit, Loaded, NEW x \in Collectors
  PROVE  /\ x = <<x[1], x[2]>> /\ x[1] \in DOMAIN built.nodeInfos /\ x[1] \in Nat
         /\ x[2] \in DOMAIN Executors(built, x[1]) /\ x[2] \in Nat /\ 1 <= x[2]
         /\ x[2] <= Len(Executors(built, x[1]))
         /\ Executors(built, x[1])[x[2]].uri \in Async
         /\ Executors(built, x[1])[x[2]].type # "function"
         /\ <<x[1], x[2], "$out">> \in DOMAIN FreshAttrs(built)
<1> DEFINE g == built
<1>0. PICK n \in DOMAIN g.nodeInfos :
        x \in {<<n, i>> : i \in {j \in DOMAIN Executors(g, n) : Executors(g, n)[j].uri \in Async}}
  BY DEF Collectors
<1>1. PICK i \in DOMAIN Executors(g, n) : x = <<n, i>> /\ Executors(g, n)[i].uri \in Async
  BY <1>0
<1>2. Built(g) /\ IsWired(g) /\ TasksFit(g)
  BY LoadedIsWired
<1> HIDE DEF g
<1>3. Executors(g, n)[i].type # "function"
  <2>1. SUFFICES ASSUME Executors(g, n)[i].type = "function" PROVE FALSE
    OBVIOUS
  <2>2. IsFunction(g, n) /\ Executors(g, n)[i] = MainFunction(g, n)
    BY <1>2, <2>1, ExecutorKinds
  <2>3. g.nodeInfos[n].uri \notin Async
    BY <1>2, <2>2 DEF TasksFit
  <2>4. QED
    BY <1>1, <2>2, <2>3 DEF MainFunction
<1>4. <<n, i, "$out">> \in DOMAIN FreshAttrs(g)
  BY <1>2, <1>3, CodecEntries
<1>5. n \in Nat /\ i \in 1 .. Len(Executors(g, n)) /\ Len(Executors(g, n)) \in Nat
  BY <1>2, ExecutorsLength, NodeTypes DEF Built
<1>6. x[1] = n /\ x[2] = i
  BY <1>1
<1>7. i \in Nat /\ 1 <= i /\ i <= Len(Executors(g, n))
  BY <1>5
<1>8. QED
  BY <1>1, <1>3, <1>4, <1>5, <1>6, <1>7 DEF g

\* Transfers to other entries leave an entry as it was.
LEMMA TransfersSpare ==
  ASSUME NEW f, NEW ts, Len(ts) \in Nat, NEW k \in DOMAIN f,
         \A i \in 1 .. Len(ts) : ts[i].dst # k
  PROVE  AfterTransfer(f, ts)[Len(ts)][k] = f[k]
<1> DEFINE after == AfterTransfer(f, ts)
           n == Len(ts)
           T == {j \in 0 .. n : DOMAIN after[j] = DOMAIN f /\ after[j][k] = f[k]}
<1>1. after[0] = f /\ \A j \in 1 .. n : after[j] = Transfer(after[j - 1], ts[j])
  BY AfterTransferSteps
<1>2. n \in Nat
  OBVIOUS
<1> HIDE DEF after
<1>3. 0 \in T
  BY <1>1
<1>4. ASSUME NEW j \in 0 .. n - 1, j \in T PROVE j + 1 \in T
  <2>1. /\ DOMAIN after[j] = DOMAIN f /\ after[j][k] = f[k]
        /\ j + 1 \in 1 .. n /\ (j + 1) - 1 = j
    BY <1>4
  <2>2. after[j + 1] = Transfer(after[j], ts[j + 1])
    BY <1>1, <2>1
  <2>3. ts[j + 1].dst # k
    BY <2>1
  <2>4. DOMAIN after[j + 1] = DOMAIN f /\ after[j + 1][k] = f[k]
    BY <2>1, <2>2, <2>3 DEF Transfer
  <2>5. QED
    BY <2>1, <2>4
<1>5. n \in T
  <2> HIDE DEF T, n
  <2>1. 0 .. n \subseteq T
    BY <1>2, <1>3, <1>4, BoundedInduction
  <2>2. QED
    BY <1>2, <2>1
<1>6. QED
  BY <1>5 DEF after

LEMMA EntriesSpared ==
  ASSUME Running, NEW k \in DOMAIN FreshAttrs(built),
         IsLast => \A i \in 1 .. Len(ThisStage.transfers) : ThisStage.transfers[i].dst # k
  PROVE  Transferred[k] = attrs[k]
<1> DEFINE ts == ThisStage.transfers
           B == AfterTransfer(attrs, ts)[Len(ts)]
<1>1. DOMAIN attrs = DOMAIN FreshAttrs(built)
  BY RunningStage DEF Loaded
<1>2. Len(ts) \in Nat
  BY RunningStage, StageTransfers
<1>3. Transferred = IF IsLast THEN B ELSE attrs
  BY DEF Transferred, Deliver
<1>4. k \in DOMAIN attrs
  BY <1>1
<1> HIDE DEF ts
<1>5. (\A i \in 1 .. Len(ts) : ts[i].dst # k) => B[k] = attrs[k]
  BY <1>2, <1>4, TransfersSpare
<1>6. IsLast => \A i \in 1 .. Len(ts) : ts[i].dst # k
  BY DEF ts
<1> HIDE DEF B
<1>7. QED
  BY <1>3, <1>5, <1>6

\* The transfers of a stage fill entries of its last executor, but not what a
\* codec gives there.
LEMMA ResultsSpared ==
  ASSUME GraphsFit, Running, NEW x \in Collectors
  PROVE  Transferred[<<x[1], x[2], "$out">>] = attrs[<<x[1], x[2], "$out">>]
<1> DEFINE g == built
           n == StageNode
           k == <<x[1], x[2], "$out">>
           ts == ThisStage.transfers
<1>1. /\ Loaded /\ Built(g) /\ n \in DOMAIN g.nodeInfos /\ ThisStage = Stage(g, n)
      /\ ThisStage.executors = Executors(g, n)
  BY RunningStage
<1>2. IsWired(g)
  BY <1>1, LoadedIsWired
<1>3. /\ k \in DOMAIN FreshAttrs(g)
      /\ x[1] \in DOMAIN g.nodeInfos /\ x[2] \in DOMAIN Executors(g, x[1])
      /\ Executors(g, x[1])[x[2]].type # "function"
  BY <1>1, CollectorFacts
<1>4. \A i \in 1 .. Len(ts) : ts[i].dst[1] = n /\ ts[i].dst[2] = Len(Executors(g, n))
  BY <1>1, StageTransfers DEF IsTransfer
<1>5. \A i \in 1 .. Len(ts) :
        \/ IsFunction(g, n) /\ \E j \in DOMAIN Manual(g, n) : ts[i] = ManualTransfer(g, n, j)
        \/ \E e \in DOMAIN g.edgeInfos : g.edgeInfos[e].node1 = n /\ ts[i] = EdgeTransfer(g, e)
  BY <1>1, StageTransferList
<1>6. k[1] = x[1] /\ k[2] = x[2] /\ k[3] = "$out"
  OBVIOUS
<1> HIDE DEF ts, g, n, k
<1>7. ASSUME NEW i \in 1 .. Len(ts), ts[i].dst = k PROVE FALSE
  <2>1. x[1] = n /\ x[2] = Len(Executors(g, n))
    BY <1>4, <1>6, <1>7
  <2>2. ~ IsFunction(g, n)
    <3>1. SUFFICES ASSUME IsFunction(g, n) PROVE FALSE
      OBVIOUS
    <3>2. x[2] \in DOMAIN Executors(g, n) /\ Executors(g, n)[x[2]].type # "function"
      BY <1>3, <2>1
    <3>3. Executors(g, n)[x[2]].type = "function"
      BY <1>1, <2>1, <3>1, <3>2, ExecutorTypes
    <3>4. QED
      BY <3>2, <3>3
  <2>3. PICK e \in DOMAIN g.edgeInfos : g.edgeInfos[e].node1 = n /\ ts[i] = EdgeTransfer(g, e)
    BY <1>5, <2>2
  <2> DEFINE to == To(g.edgeInfos[e])
  <2>4. to = <<n, g.edgeInfos[e].slot1>> /\ to \in DOMAIN g.slotStates /\ g.slotStates[to].inEdges = {e}
    BY <1>2, <2>3 DEF To, IsWired
  <2>5. g.edgeInfos[e].slot1 = "$out"
    BY <1>6, <1>7, <2>3, <2>4 DEF EdgeTransfer, MainEntry
  <2>6. "$out" \in Entries(SlotNames(g, n))
    BY <1>2, <2>4, <2>5, SlotOfNode
  <2>7. g.nodeInfos[n].ntype \in {"IN", "OUT"}
    BY <1>1, <2>2, NodeTypes DEF Built, IsFunction
  <2>8. CASE g.nodeInfos[n].ntype = "OUT"
    <3>1. SlotNames(g, n) = <<"$in">> \o << >> \o << >>
      BY <1>1, <1>2, <2>8 DEF SlotNames, IsWired
    <3>2. QED
      BY <2>6, <3>1 DEF Entries
  <2>9. CASE g.nodeInfos[n].ntype = "IN"
    <3>1. IoNames(g, n) = <<"$out">>
      BY <1>1, <1>2, <2>9 DEF IoNames, IsWired
    <3>2. g.slotStates[<<n, IoNames(g, n)[1]>>].inEdges = {}
      BY <1>1, <2>2, <2>9 DEF Built, BuildOk, IoNodeOk
    <3>3. QED
      BY <2>4, <2>5, <3>1, <3>2, SMTT(30)
  <2>10. QED
    BY <2>7, <2>8, <2>9
<1>8. Transferred[k] = attrs[k]
  BY <1>3, <1>7, EntriesSpared DEF ts, g
<1>9. QED
  BY <1>8 DEF k

LEMMA CodecGives ==
  ASSUME NEW g, Built(g), IsWired(g), NEW n \in DOMAIN g.nodeInfos, NEW i \in DOMAIN Executors(g, n),
         Executors(g, n)[i].type # "function"
  PROVE  "$out" \in DOMAIN Executors(g, n)[i].gives
<1> DEFINE x == Executors(g, n)[i]
<1>1. x.type # "function" => DOMAIN x.takes = {"$in"} /\ DOMAIN x.gives = {"$out"} /\ x.uri \notin Gpu
  BY ExecutorKinds
<1>2. QED
  BY <1>1

\* What a run leaves in the entries of collectors.
LEMMA ResultsGiven ==
  ASSUME GraphsFit, Running, NEW x \in Collectors
  PROVE  /\ HasResultOf(Transferred, x) <=> HasResultOf(attrs, x)
         /\ x # Self => /\ HasResultOf(Written(Transferred), x) <=> HasResultOf(attrs, x)
                        /\ HasResultOf(Collected(Transferred), x) <=> HasResultOf(attrs, x)
         /\ x = Self => HasResultOf(Collected(Transferred), x)
<1> DEFINE A == Transferred
           k == <<x[1], x[2], "$out">>
<1>1. A[k] = attrs[k] /\ DOMAIN A = DOMAIN FreshAttrs(built)
  BY ResultsSpared, TransferredEntries DEF SameEntries
<1>2. /\ Loaded /\ Built(built) /\ StageNode \in DOMAIN built.nodeInfos
      /\ pos[2] \in DOMAIN ThisStage.executors /\ ThisStage.executors = Executors(built, StageNode)
  BY RunningStage
<1>3. k \in DOMAIN A /\ x = <<x[1], x[2]>> /\ Executors(built, x[1])[x[2]].type # "function"
  BY <1>1, <1>2, CollectorFacts
<1>4. HasResultOf(A, x) <=> HasResultOf(attrs, x)
  BY <1>1 DEF HasResultOf
<1>5. ASSUME x # Self
      PROVE  Written(A)[k] = A[k] /\ Collected(A)[k] = A[k]
  <2>1. x[1] # StageNode \/ x[2] # pos[2]
    BY <1>3, <1>5 DEF Self
  <2>2. Written(A)[k] = A[k]
    BY <1>3, <2>1 DEF Written
  <2>3. Key("$out") # k
    BY <2>1 DEF Key
  <2>4. Collected(A)[k] = A[k]
    BY <1>3, <2>3 DEF Collected
  <2>5. QED
    BY <2>2, <2>4
<1>6. ASSUME x = Self PROVE Collected(A)[k] # Unset
  <2>1. x[1] = StageNode /\ x[2] = pos[2]
    BY <1>6 DEF Self
  <2>2. Key("$out") = k /\ Executor = Executors(built, x[1])[x[2]]
    BY <1>2, <2>1 DEF Key, Executor
  <2>3. Collected(A)[k] = [dtype |-> Executor.gives["$out"], value |-> started[Self]]
    BY <1>3, <2>2 DEF Collected
  <2>4. Executor.gives["$out"] \in KnownDtype \cup {"$encoded"}
    <3>1. pos[2] \in DOMAIN Executors(built, StageNode) /\ Executor = Executors(built, StageNode)[pos[2]]
      BY <1>2, <2>1, <2>2
    <3>2. "$out" \in DOMAIN Executor.gives
      <4>1. IsWired(built)
        BY <1>2, LoadedIsWired
      <4>2. Executors(built, StageNode)[pos[2]].type # "function"
        BY <1>3, <2>1
      <4>3. "$out" \in DOMAIN Executors(built, StageNode)[pos[2]].gives
        BY <1>2, <3>1, <4>1, <4>2, CodecGives
      <4>4. QED
        BY <3>1, <4>3
    <3>3. \A s \in DOMAIN Executor.gives : Executor.gives[s] \in KnownDtype \cup {"$encoded"}
      BY <1>2, <3>1, ExecutorTypes DEF IsFuncExecutor
    <3>4. QED
      BY <3>2, <3>3
  <2>5. Executor.gives["$out"] # "unknown"
    BY <2>4, NamesAssumption
  <2>6. Collected(A)[k].dtype # Unset.dtype
    BY <2>3, <2>5 DEF Unset
  <2>7. QED
    BY <2>6
<1> HIDE DEF A
<1>7. QED
  BY <1>4, <1>5, <1>6 DEF HasResultOf, A

\* What comes before the next position comes before this one, or runs here.
LEMMA BeforeNext ==
  ASSUME GraphsFit, Running, NEW x \in Collectors, NEW p,
         \/ p = <<pos[1], pos[2] + 1>>
         \/ IsLast /\ p = <<pos[1] + 1, 1>>,
         Precedes(x, p)
  PROVE  Precedes(x, pos) \/ x = Self
<1>1. /\ Loaded /\ pos[1] \in Nat /\ pos[2] \in Nat /\ ThisStage.executors = Executors(built, StageNode)
      /\ sequence \in Seq(Nat \X Nat) /\ sequence[pos[1]][1] = generation
  BY RunningStage DEF Running, RunnerInv
<1>2. PICK a \in DOMAIN sequence : /\ sequence[a] = <<generation, x[1]>>
                                   /\ a < p[1] \/ (a = p[1] /\ x[2] < p[2])
  BY DEF Precedes
<1>3. a \in Nat
  BY <1>1
<1>4. /\ x = <<x[1], x[2]>> /\ x[2] \in Nat /\ 1 <= x[2] /\ x[2] <= Len(Executors(built, x[1]))
  BY <1>1, CollectorFacts
<1>5. a = pos[1] => x[1] = StageNode
  BY <1>2 DEF StageNode
<1>6. a < pos[1] => Precedes(x, pos)
  BY <1>2 DEF Precedes
<1>7. (a = pos[1] /\ x[2] < pos[2]) => Precedes(x, pos)
  BY <1>2 DEF Precedes
<1>8. (a = pos[1] /\ x[2] = pos[2]) => x = Self
  BY <1>4, <1>5 DEF Self
<1>9. CASE p = <<pos[1], pos[2] + 1>>
  <2>1. p[1] = pos[1] /\ p[2] = pos[2] + 1
    BY <1>9
  <2>2. a < pos[1] \/ (a = pos[1] /\ (x[2] < pos[2] \/ x[2] = pos[2]))
    BY <1>1, <1>2, <1>3, <1>4, <2>1
  <2>3. QED
    BY <1>6, <1>7, <1>8, <2>2
<1>10. CASE IsLast /\ p = <<pos[1] + 1, 1>>
  <2>1. p[1] = pos[1] + 1 /\ p[2] = 1
    BY <1>10
  <2>2. a < pos[1] \/ a = pos[1]
    BY <1>1, <1>2, <1>3, <1>4, <2>1, SMTT(30)
  <2>3. a = pos[1] => x[2] <= pos[2]
    BY <1>1, <1>4, <1>5, <1>10 DEF IsLast
  <2>4. a = pos[1] => x[2] < pos[2] \/ x[2] = pos[2]
    BY <1>1, <1>4, <2>3
  <2>5. QED
    BY <1>6, <1>7, <1>8, <2>2, <2>4
<1>11. QED
  BY <1>9, <1>10

\* Nothing comes before the first executor.
LEMMA NothingBefore ==
  ASSUME GraphsFit, Loaded, sequence \in Seq(Nat \X Nat), NEW x \in Collectors
  PROVE  ~ Precedes(x, <<1, 1>>)
<1>1. x[2] \in Nat /\ 1 <= x[2]
  BY CollectorFacts
<1>2. \A a \in DOMAIN sequence : a \in Nat /\ 1 <= a
  OBVIOUS
<1>3. \A a \in DOMAIN sequence : ~ (a < 1 \/ (a = 1 /\ x[2] < 1))
  BY <1>1, <1>2
<1> DEFINE p == <<1, 1>>
<1>4. p[1] = 1 /\ p[2] = 1
  OBVIOUS
<1> HIDE DEF p
<1>5. ~ Precedes(x, p)
  BY <1>3, <1>4 DEF Precedes
<1>6. QED
  BY <1>5 DEF p

LEMMA StartsWithNothing ==
  ASSUME GraphsFit
  PROVE  (Loaded /\ RunnerInv)' => (\A x \in Collectors : ~ Precedes(x, <<1, 1>>))'
<1>1. Loaded /\ RunnerInv => \A x \in Collectors : ~ Precedes(x, <<1, 1>>)
  <2> SUFFICES ASSUME Loaded, RunnerInv, NEW x \in Collectors PROVE ~ Precedes(x, <<1, 1>>)
    OBVIOUS
  <2>1. sequence \in Seq(Nat \X Nat)
    BY DEF RunnerInv
  <2>2. QED
    BY <2>1, NothingBefore
<1>2. QED
  BY <1>1, PTL

\* Results once there stay there.
Grows(S, A, T, B) ==
  /\ S \subseteq T
  /\ \A x \in S : HasResultOf(A, x) => HasResultOf(B, x)

LEMMA PassedGrows ==
  ASSUME NEW S, NEW A, NEW T, NEW B, Grows(S, A, T, B), NEW p, CollectedBefore(S, A, p)
  PROVE  CollectedBefore(T, B, p)
BY DEF Grows, CollectedBefore

\* The executor that runs now is at its turn.
LEMMA TurnOfSelf ==
  ASSUME Running, PointersDiffer, NEW a \in DOMAIN sequence, sequence[a] = <<generation, StageNode>>
  PROVE  <<a, pos[2]>> = pos
<1>1. pos[1] \in DOMAIN sequence /\ pos \in Nat \X Nat /\ sequence \in Seq(Nat \X Nat)
      /\ sequence[pos[1]][1] = generation
  BY RunningStage DEF Running, RunnerInv, TypeOK
<1>2. sequence[pos[1]] \in Nat \X Nat
  BY <1>1
<1>3. sequence[pos[1]] = <<generation, StageNode>>
  BY <1>1, <1>2 DEF StageNode
<1>4. a = pos[1]
  BY <1>1, <1>3 DEF PointersDiffer
<1>5. QED
  BY <1>1, <1>4

\* What a run may do to the pool and to what was handed over.
RunsInTurn(T, B, P) ==
  /\ T \subseteq Collectors /\ DOMAIN started \subseteq T /\ T \subseteq DOMAIN started \cup {Self}
  /\ \A x \in Collectors : x # Self => (HasResultOf(B, x) <=> HasResultOf(attrs, x))
  /\ (Self \in Collectors /\ HasResultOf(attrs, Self)) => HasResultOf(B, Self)
  /\ (Self \in Collectors /\ Self \notin T) => ~ HasResultOf(B, Self)
  /\ TasksOpen(T, B, P)

LEMMA InTurn ==
  ASSUME GraphsFit, Running, PoolKept, CollectedBefore(DOMAIN started, attrs, pos),
         NEW T, NEW B, NEW P, RunsInTurn(T, B, P)
  PROVE  /\ Grows(DOMAIN started, attrs, T, B)
         /\ \A x \in Collectors \ T : ~ HasResultOf(B, x)
         /\ HandedOverInTurn(T, B)
         /\ CollectedBefore(T, B, saved) /\ CollectedBefore(T, B, pos) /\ CollectedBefore(T, B, <<1, 1>>)
         /\ (Self \in Collectors => Self \in T /\ HasResultOf(B, Self)) =>
              /\ CollectedBefore(T, B, <<pos[1], pos[2] + 1>>)
              /\ IsLast => CollectedBefore(T, B, <<pos[1] + 1, 1>>)
<1> DEFINE S == DOMAIN started
<1>1. Loaded /\ sequence \in Seq(Nat \X Nat)
  BY RunningStage DEF Running, RunnerInv
<1>2. S \subseteq Collectors /\ \A x \in Collectors \ S : ~ HasResultOf(attrs, x)
  BY DEF PoolKept
<1>3. Grows(S, attrs, T, B)
  BY <1>2 DEF Grows, RunsInTurn
<1>4. \A x \in Collectors \ T : ~ HasResultOf(B, x)
  BY <1>2 DEF RunsInTurn
<1>5. CollectedBefore(T, B, saved) /\ CollectedBefore(T, B, pos)
  BY <1>3, PassedGrows DEF PoolKept
<1>6. CollectedBefore(T, B, <<1, 1>>)
  BY <1>1, NothingBefore DEF CollectedBefore
<1>7. ASSUME NEW x \in T, NEW a \in DOMAIN sequence, sequence[a] = <<generation, x[1]>>
      PROVE  CollectedBefore(T, B, <<a, x[2]>>)
  <2>1. CASE x \in S
    <3>1. CollectedBefore(S, attrs, <<a, x[2]>>)
      BY <1>7, <2>1 DEF PoolKept, HandedOverInTurn
    <3>2. QED
      BY <1>3, <3>1, PassedGrows
  <2>2. CASE x = Self
    <3>1. x[1] = StageNode /\ x[2] = pos[2]
      BY <2>2 DEF Self
    <3>2. <<a, x[2]>> = pos
      BY <1>7, <3>1, TurnOfSelf DEF PoolKept
    <3>3. QED
      BY <1>5, <3>2
  <2>3. QED
    BY <2>1, <2>2 DEF RunsInTurn
<1>8. ASSUME Self \in Collectors => Self \in T /\ HasResultOf(B, Self)
      PROVE  /\ CollectedBefore(T, B, <<pos[1], pos[2] + 1>>)
             /\ IsLast => CollectedBefore(T, B, <<pos[1] + 1, 1>>)
  <2>1. ASSUME NEW p, p = <<pos[1], pos[2] + 1>> \/ (IsLast /\ p = <<pos[1] + 1, 1>>)
        PROVE  CollectedBefore(T, B, p)
    <3> SUFFICES ASSUME NEW x \in Collectors, Precedes(x, p)
                 PROVE  x \in T /\ HasResultOf(B, x)
      BY DEF CollectedBefore
    <3>1. Precedes(x, pos) \/ x = Self
      BY <2>1, BeforeNext
    <3>2. QED
      BY <1>5, <1>8, <3>1 DEF CollectedBefore
  <2>2. QED
    BY <2>1
<1>9. QED
  BY <1>3, <1>4, <1>5, <1>6, <1>7, <1>8 DEF HandedOverInTurn

LEMMA PoolMovesOn ==
  ASSUME GraphsFit, Running, PoolKept, CollectedBefore(DOMAIN started, attrs, pos),
         RunsInTurn(DOMAIN started', attrs', DOMAIN tasks'),
         NEW B, NEW awaits,
         \/ /\ FinishExecutor(B)
            /\ Self \in Collectors => Self \in DOMAIN started' /\ HasResultOf(attrs', Self)
         \/ Pause(awaits) \/ Break
  PROVE  PoolKept'
<1> DEFINE T == DOMAIN started'
<1>1. UNCHANGED <<built, sequence, generation>> /\ phase = "stepping"
  BY DEF Running, pipelineVars
<1>2. /\ \A x \in Collectors \ T : ~ HasResultOf(attrs', x)
      /\ HandedOverInTurn(T, attrs')
      /\ CollectedBefore(T, attrs', saved) /\ CollectedBefore(T, attrs', pos) /\ CollectedBefore(T, attrs', <<1, 1>>)
      /\ (Self \in Collectors => Self \in T /\ HasResultOf(attrs', Self)) =>
           /\ CollectedBefore(T, attrs', <<pos[1], pos[2] + 1>>)
           /\ IsLast => CollectedBefore(T, attrs', <<pos[1] + 1, 1>>)
  BY InTurn
<1>3. /\ CollectedBefore(T, attrs', saved')
      /\ phase' = "stepping" => CollectedBefore(T, attrs', pos')
  <2>1. CASE Pause(awaits) \/ Break
    BY <1>2, <2>1 DEF Pause, Break
  <2>2. CASE /\ FinishExecutor(B)
             /\ Self \in Collectors => Self \in T /\ HasResultOf(attrs', Self)
    <3>1. \/ ~ IsLast /\ pos' = <<pos[1], pos[2] + 1>> /\ saved' = saved
          \/ IsLast /\ pos' = <<pos[1] + 1, 1>> /\ saved' = saved
          \/ phase' = "idle" /\ saved' = <<1, 1>>
      BY <2>2 DEF FinishExecutor
    <3>2. /\ CollectedBefore(T, attrs', <<pos[1], pos[2] + 1>>)
          /\ IsLast => CollectedBefore(T, attrs', <<pos[1] + 1, 1>>)
      BY <1>2, <2>2
    <3>3. QED
      BY <1>2, <3>1, <3>2
  <2>3. QED
    BY <2>1, <2>2
<1>4. PointersDiffer /\ T \subseteq Collectors /\ TasksOpen(T, attrs', DOMAIN tasks')
  BY DEF PoolKept, RunsInTurn
<1>5. Collectors' = Collectors /\ PointersDiffer'
  BY <1>1, <1>4 DEF Collectors, PointersDiffer
<1>6. /\ \A x \in Collectors' \ T : ~ HasResultOf(attrs', x)
      /\ T \subseteq Collectors'
  BY <1>2, <1>4, <1>5
<1>7. TasksOpen(DOMAIN started, attrs, DOMAIN tasks)'
  BY <1>1, <1>4 DEF TasksOpen, HasResultOf
<1>8. /\ HandedOverInTurn(DOMAIN started, attrs)'
      /\ CollectedBefore(DOMAIN started, attrs, saved)'
      /\ phase' = "stepping" => CollectedBefore(DOMAIN started, attrs, pos)'
  BY <1>1, <1>2, <1>3, <1>5 DEF HandedOverInTurn, CollectedBefore, Precedes, HasResultOf
<1>9. (\A x \in Collectors \ DOMAIN started : ~ HasResultOf(attrs, x))'
  BY <1>6 DEF HasResultOf
<1>10. QED
  BY <1>5, <1>6, <1>7, <1>8, <1>9 DEF PoolKept

\* Whatever a run does that does not end the program.
LEMMA RunInTurn ==
  ASSUME GraphsFit, Gpu = {}, Running, PoolKept, RunsExecutor(Transferred), phase' # "aborted"
  PROVE  /\ RunsInTurn(DOMAIN started', attrs', DOMAIN tasks')
         /\ \E B, awaits :
              \/ /\ FinishExecutor(B)
                 /\ Self \in Collectors => Self \in DOMAIN started' /\ HasResultOf(attrs', Self)
              \/ Pause(awaits) \/ Break
<1> DEFINE A == Transferred
           S == DOMAIN started
<1>1. /\ ~ Abort /\ Loaded /\ StageNode \in DOMAIN built.nodeInfos
      /\ pos[2] \in DOMAIN Executors(built, StageNode)
      /\ Executor = Executors(built, StageNode)[pos[2]]
  BY RunningStage DEF Abort, Executor
<1>2. Self \in Collectors <=> Executor.uri \in Async
  <2>1. Executor.uri \in Async => Self \in Collectors
    BY <1>1 DEF Collectors, Self
  <2>2. Self[1] = StageNode /\ Self[2] = pos[2]
    BY DEF Self
  <2>3. Self \in Collectors => Executor.uri \in Async
    BY <1>1, <2>2, CollectorFacts
  <2>4. QED
    BY <2>1, <2>3
<1>3. /\ S \subseteq Collectors /\ TasksOpen(S, attrs, DOMAIN tasks)
      /\ \A x \in Collectors \ S : ~ HasResultOf(attrs, x)
  BY DEF PoolKept
<1>4. ASSUME NEW x \in Collectors
      PROVE  /\ HasResultOf(A, x) <=> HasResultOf(attrs, x)
             /\ x # Self => /\ HasResultOf(Written(A), x) <=> HasResultOf(attrs, x)
                            /\ HasResultOf(Collected(A), x) <=> HasResultOf(attrs, x)
             /\ x = Self => HasResultOf(Collected(A), x)
  BY ResultsGiven
<1> HIDE DEF A
<1>5. CASE Executor.uri \in DOMAIN Outcomes /\ RunSync(A)
  <2>1. UNCHANGED <<started, tasks>> /\ Self \notin Collectors
    BY <1>1, <1>2, <1>5, RunnerAssumption DEF RunSync
  <2>2. attrs' = A \/ attrs' = Written(A)
    BY <1>1, <1>5 DEF RunSync, FinishExecutor
  <2>3. \A x \in Collectors : HasResultOf(attrs', x) <=> HasResultOf(attrs, x)
    BY <1>4, <2>1, <2>2
  <2>4. TasksOpen(S, attrs', DOMAIN tasks)
    BY <1>3, <2>3 DEF TasksOpen
  <2>5. RunsInTurn(DOMAIN started', attrs', DOMAIN tasks')
    BY <1>3, <2>1, <2>3, <2>4 DEF RunsInTurn
  <2>6. FinishExecutor(Written(A)) \/ Pause({}) \/ Break
    BY <1>1, <1>5 DEF RunSync
  <2>7. QED
    BY <2>1, <2>5, <2>6
<1>6. CASE Executor.uri \in Async /\ Self \notin S /\ HandOver(A)
  <2>1. /\ attrs' = A /\ AddTask /\ Pause({StageNode})
        /\ started' = [k \in S \cup {Self} |-> IF k = Self THEN A[Key("$in")].value ELSE started[k]]
    BY <1>1, <1>6 DEF HandOver
  <2>2. DOMAIN started' = S \cup {Self} /\ DOMAIN tasks' = DOMAIN tasks \cup {Task}
    BY <2>1 DEF AddTask
  <2>3. \A x \in Collectors : HasResultOf(attrs', x) <=> HasResultOf(attrs, x)
    BY <1>4, <2>1
  <2>4. Self \in Collectors /\ ~ HasResultOf(attrs', Self)
    BY <1>2, <1>3, <1>6, <2>3
  <2>5. Task = <<generation, Self[1], Self[2]>>
    BY DEF Task, Self
  <2>6. TasksOpen(S \cup {Self}, attrs', DOMAIN tasks \cup {Task})
    BY <1>3, <2>3, <2>4, <2>5 DEF TasksOpen
  <2>7. RunsInTurn(DOMAIN started', attrs', DOMAIN tasks')
    BY <1>3, <2>2, <2>3, <2>4, <2>6 DEF RunsInTurn
  <2>8. QED
    BY <2>1, <2>7
<1>7. CASE Executor.uri \in Async /\ Self \in S /\ Resume(A)
  <2>1. ReleaseTask /\ UNCHANGED started /\ Self \in Collectors
    BY <1>2, <1>7 DEF Resume
  <2>2. DOMAIN tasks' = DOMAIN tasks \ {Task}
    BY <2>1 DEF ReleaseTask
  <2>3. FinishExecutor(Collected(A)) \/ (attrs' = A /\ Break)
    BY <1>7 DEF Resume
  <2>4. attrs' = Collected(A) \/ attrs' = A
    BY <2>3 DEF FinishExecutor
  <2>5. /\ \A x \in Collectors : x # Self => (HasResultOf(attrs', x) <=> HasResultOf(attrs, x))
        /\ HasResultOf(attrs, Self) => HasResultOf(attrs', Self)
    BY <1>4, <2>1, <2>4
  <2>6. FinishExecutor(Collected(A)) => HasResultOf(attrs', Self)
    BY <1>4, <2>1 DEF FinishExecutor
  <2>7. Task = <<generation, Self[1], Self[2]>>
    BY DEF Task, Self
  <2>8. TasksOpen(S, attrs', DOMAIN tasks \ {Task})
    BY <1>3, <2>5, <2>7 DEF TasksOpen
  <2>9. RunsInTurn(DOMAIN started', attrs', DOMAIN tasks')
    BY <1>3, <1>7, <2>1, <2>2, <2>5, <2>8 DEF RunsInTurn
  <2>10. QED
    BY <1>7, <2>1, <2>3, <2>6, <2>9
<1>8. Executor.uri \notin Gpu
  OBVIOUS
<1>9. RunsExecutor(A)
  BY DEF A
<1>10. QED
  BY <1>1, <1>5, <1>6, <1>7, <1>8, <1>9 DEF RunsExecutor

LEMMA BuildPool ==
  ASSUME GraphsFit, PoolInv, NEW g \in Graphs, Build(g)
  PROVE  PoolInv'
<1>1. RunnerInv'
  BY BuildInv DEF PoolInv
<1>2. CASE phase' \notin {"idle", "stepping"}
  <2>1. UNCHANGED <<tasks, generation>>
    BY <1>2 DEF Build, functionVars
  <2>2. QED
    BY <1>1, <1>2, <2>1 DEF PoolInv
<1>3. CASE phase' \in {"idle", "stepping"}
  <2>1. /\ phase' = "idle" /\ BuildOk(g) /\ built' = g /\ generation' = generation + 1
        /\ sequence' = sequence \o [i \in DOMAIN g.sortOrder |-> <<generation + 1, g.sortOrder[i]>>]
        /\ attrs' = FreshAttrs(g) /\ started' = EmptyMap /\ saved' = <<1, 1>> /\ UNCHANGED tasks
    BY <1>3 DEF Build
  <2>2. Built(g) /\ IsWired(g)
    BY <2>1, RunnerAssumption DEF GraphsFit, Built
  <2>3. generation \in Nat /\ \A i \in DOMAIN sequence : sequence[i][1] \in 1 .. generation
    BY DEF PoolInv, RunnerInv, TypeOK
  <2>4. PointersDiffer'
    <3> DEFINE new == [i \in DOMAIN g.sortOrder |-> <<generation + 1, g.sortOrder[i]>>]
               n == Len(sequence)
               m == Len(g.sortOrder)
    <3>1. sequence \in Seq(Nat \X Nat)
      BY DEF PoolInv, RunnerInv
    <3>2. new \in Seq(Nat \X Nat) /\ Len(new) = m /\ DOMAIN g.sortOrder = 1 .. m /\ m \in Nat
      <4>1. g.sortOrder \in Seq(Nat)
        BY RunnerAssumption DEF IsGraphState
      <4>2. DOMAIN g.sortOrder = 1 .. m /\ m \in Nat
        BY <4>1
      <4>3. \A i \in 1 .. m : <<generation + 1, g.sortOrder[i]>> \in Nat \X Nat
        BY <2>3, <4>1, <4>2
      <4>4. new \in Seq(Nat \X Nat) /\ Len(new) = m
        BY <4>2, <4>3
      <4>5. QED
        BY <4>2, <4>4
    <3>3. \A i \in 1 .. m : new[i] = <<generation + 1, g.sortOrder[i]>>
      BY <3>2
    <3> HIDE DEF new
    <3>4. /\ n \in Nat /\ DOMAIN sequence = 1 .. n /\ DOMAIN sequence' = 1 .. n + m
          /\ \A i \in 1 .. n : sequence'[i] = sequence[i]
          /\ \A i \in 1 .. m : sequence'[n + i] = <<generation + 1, g.sortOrder[i]>>
      BY <2>1, <3>1, <3>2, <3>3, Concatenation DEF new
    <3> HIDE DEF n, m
    <3>5. ASSUME NEW a \in DOMAIN sequence', sequence'[a][1] = generation + 1
          PROVE  \E i \in 1 .. m : a = n + i
      <4>1. a \notin 1 .. n
        <5>1. SUFFICES ASSUME a \in 1 .. n PROVE FALSE
          OBVIOUS
        <5>2. sequence[a][1] \in 1 .. generation /\ sequence'[a] = sequence[a]
          BY <2>3, <3>4, <5>1
        <5>3. QED
          BY <2>3, <3>5, <5>2
      <4>2. a \in 1 .. n + m /\ m \in Nat /\ n \in Nat
        BY <3>2, <3>4
      <4>3. a - n \in 1 .. m /\ a = n + (a - n)
        BY <4>1, <4>2
      <4>4. QED
        BY <4>3
    <3>6. ASSUME NEW a \in DOMAIN sequence', NEW b \in DOMAIN sequence',
                 sequence'[a] = sequence'[b], sequence'[a][1] = generation + 1
          PROVE  a = b
      <4>1. PICK i \in 1 .. m : a = n + i
        BY <3>5, <3>6
      <4>2. PICK j \in 1 .. m : b = n + j
        BY <3>5, <3>6
      <4>3. g.sortOrder[i] = g.sortOrder[j]
        BY <3>4, <3>6, <4>1, <4>2
      <4>4. i = j
        BY <2>2, <3>2, <4>3 DEF IsWired, m
      <4>5. QED
        BY <4>1, <4>2, <4>4
    <3>7. QED
      BY <2>1, <3>6 DEF PointersDiffer
  <2>5. DOMAIN started' = {}
    BY <2>1 DEF EmptyMap
  <2>6. Loaded' => \A x \in Collectors' : ~ HasResultOf(attrs', x)
    <3> DEFINE fresh(n, i) == FreshAttrs(g)[<<n, i, "$out">>]
    <3>1. ASSUME NEW n \in DOMAIN g.nodeInfos, NEW i \in DOMAIN Executors(g, n),
                 Executors(g, n)[i].uri \in Async
          PROVE  fresh(n, i) = Unset
      <4>1. Executors(g, n)[i].type # "function"
        <5>1. SUFFICES ASSUME Executors(g, n)[i].type = "function" PROVE FALSE
          OBVIOUS
        <5>2. IsFunction(g, n) /\ Executors(g, n)[i] = MainFunction(g, n)
          BY <2>2, <5>1, ExecutorKinds
        <5>3. g.nodeInfos[n].uri \notin Async
          BY <2>1, <5>2 DEF GraphsFit, TasksFit
        <5>4. QED
          BY <3>1, <5>2, <5>3 DEF MainFunction
      <4>2. <<n, i, "$out">> \in DOMAIN FreshAttrs(g)
        BY <2>2, <4>1, CodecEntries
      <4>3. QED
        BY <4>2 DEF FreshAttrs
    <3>2. ASSUME NEW x \in Collectors' PROVE ~ HasResultOf(attrs', x)
      <4>1. PICK n \in DOMAIN g.nodeInfos :
              x \in {<<n, i>> : i \in {j \in DOMAIN Executors(g, n) : Executors(g, n)[j].uri \in Async}}
        BY <2>1 DEF Collectors
      <4>2. PICK i \in DOMAIN Executors(g, n) : x = <<n, i>> /\ Executors(g, n)[i].uri \in Async
        BY <4>1
      <4>3. attrs'[<<x[1], x[2], "$out">>] = Unset
        BY <2>1, <3>1, <4>2
      <4>4. QED
        BY <4>3 DEF HasResultOf
    <3>3. QED
      BY <3>2
  <2>7. \A t \in DOMAIN tasks' : t[1] \in Nat /\ t[1] <= generation' /\ t[1] # generation'
    BY <2>1, <2>3 DEF PoolInv
  <2>8. ASSUME Loaded' PROVE (\A x \in Collectors : ~ Precedes(x, <<1, 1>>))'
    BY <1>1, <2>8, StartsWithNothing
  <2>9. ASSUME Loaded' PROVE PoolKept'
    <3>1. /\ (DOMAIN started \subseteq Collectors)'
          /\ (\A x \in Collectors \ DOMAIN started : ~ HasResultOf(attrs, x))'
      BY <2>5, <2>6, <2>9 DEF HasResultOf
    <3>2. TasksOpen(DOMAIN started, attrs, DOMAIN tasks)' /\ HandedOverInTurn(DOMAIN started, attrs)'
      BY <2>5, <2>7 DEF TasksOpen, HandedOverInTurn
    <3>3. CollectedBefore(DOMAIN started, attrs, saved)'
      BY <2>1, <2>8, <2>9 DEF CollectedBefore
    <3>4. QED
      BY <2>1, <2>4, <3>1, <3>2, <3>3 DEF PoolKept
  <2>10. Unloaded' => started' = EmptyMap
    BY <2>1
  <2>11. QED
    BY <1>1, <2>7, <2>9, <2>10 DEF PoolInv
<1>4. QED
  BY <1>2, <1>3

\* What else the state holds does not count.
LEMMA PoolStays ==
  ASSUME PoolInv, RunnerInv', DOMAIN tasks' = DOMAIN tasks,
         UNCHANGED <<built, stages, sequence, generation, attrs, started, saved, completed>>,
         phase' \in {"idle", "stepping"} => phase \in {"idle", "stepping"},
         phase' = "stepping" => pos' = saved \/ (phase = "stepping" /\ pos' = pos)
  PROVE  PoolInv'
<1>1. (Loaded' => Loaded) /\ (Unloaded' => Unloaded) /\ Collectors' = Collectors
  BY DEF Loaded, Unloaded, Collectors
<1>2. ASSUME PoolKept PROVE PoolKept'
  <2>1. /\ PointersDiffer' /\ (DOMAIN started \subseteq Collectors)'
        /\ (\A x \in Collectors \ DOMAIN started : ~ HasResultOf(attrs, x))'
    BY <1>1, <1>2 DEF PoolKept, PointersDiffer, HasResultOf
  <2>2. TasksOpen(DOMAIN started, attrs, DOMAIN tasks)'
    BY <1>2 DEF PoolKept, TasksOpen, HasResultOf
  <2>3. HandedOverInTurn(DOMAIN started, attrs)' /\ CollectedBefore(DOMAIN started, attrs, saved)'
    BY <1>1, <1>2 DEF PoolKept, HandedOverInTurn, CollectedBefore, Precedes, HasResultOf
  <2>4. phase' = "stepping" => CollectedBefore(DOMAIN started, attrs, pos)'
    BY <1>1, <1>2 DEF PoolKept, CollectedBefore, Precedes, HasResultOf
  <2>5. QED
    BY <2>1, <2>2, <2>3, <2>4 DEF PoolKept
<1>3. QED
  BY <1>1, <1>2 DEF PoolInv

LEMMA BeginStepPool ==
  ASSUME PoolInv, BeginStep
  PROVE  PoolInv'
<1>1. RunnerInv'
  BY BeginStepInv DEF PoolInv
<1>2. /\ phase = "idle"
      /\ UNCHANGED <<built, stages, sequence, generation, attrs, started, tasks, saved, completed>>
      /\ phase' = "stepping" => pos' = saved
  BY DEF BeginStep, pipelineVars, functionVars
<1>3. QED
  BY <1>1, <1>2, PoolStays

LEMMA RunExecutorPool ==
  ASSUME GraphsFit, Gpu = {}, PoolInv, RunExecutor
  PROVE  PoolInv'
<1>1. RunnerInv'
  BY RunExecutorInv DEF PoolInv
<1>2. phase = "stepping" /\ UNCHANGED <<built, stages, sequence, generation>>
  BY DEF RunExecutor, pipelineVars
<1>3. \A t \in DOMAIN tasks' : t[1] \in Nat /\ t[1] <= generation'
  <2>1. DOMAIN tasks' \subseteq DOMAIN tasks \cup {Task}
    BY DEF RunExecutor, RunSync, HandOver, Resume, Dispatch, Capture, Abort, functionVars, AddTask, ReleaseTask
  <2>2. Task[1] = generation /\ generation \in Nat
    BY DEF Task, PoolInv, RunnerInv, TypeOK
  <2>3. QED
    BY <1>2, <2>1, <2>2 DEF PoolInv
<1>4. CASE phase' \notin {"idle", "stepping"}
  BY <1>1, <1>3, <1>4 DEF PoolInv
<1>5. CASE phase' \in {"idle", "stepping"}
  <2>1. sequence[pos[1]][1] = generation /\ RunsExecutor(Transferred) /\ phase' # "aborted"
    BY <1>5 DEF RunExecutor, RunsExecutor
  <2>2. Running
    BY <2>1 DEF RunExecutor, Running, PoolInv
  <2>3. Loaded /\ PoolKept /\ CollectedBefore(DOMAIN started, attrs, pos)
    BY <1>2, <2>2, RunningStage DEF PoolInv, PoolKept
  <2>4. /\ RunsInTurn(DOMAIN started', attrs', DOMAIN tasks')
        /\ \E B, awaits :
             \/ /\ FinishExecutor(B)
                /\ Self \in Collectors => Self \in DOMAIN started' /\ HasResultOf(attrs', Self)
             \/ Pause(awaits) \/ Break
    BY <2>1, <2>2, <2>3, RunInTurn
  <2>5. PoolKept'
    BY <2>2, <2>3, <2>4, PoolMovesOn
  <2>6. ~ Unloaded'
    BY <1>2, <2>3, RunnerAssumption DEF Loaded, Unloaded
  <2>7. QED
    BY <1>1, <1>3, <2>5, <2>6 DEF PoolInv
<1>6. QED
  BY <1>4, <1>5

LEMMA FulfilPool ==
  ASSUME PoolInv, NEW t \in DOMAIN tasks, Fulfil(t)
  PROVE  PoolInv'
<1>1. RunnerInv'
  BY FulfilInv DEF PoolInv
<1>2. /\ UNCHANGED <<built, stages, sequence, generation, attrs, started, saved, pos, completed, phase>>
      /\ DOMAIN tasks' = DOMAIN tasks
  BY DEF Fulfil, pipelineVars
<1>3. QED
  BY <1>1, <1>2, PoolStays

LEMMA PoolInit == Init => PoolInv
<1> SUFFICES ASSUME Init PROVE PoolInv
  OBVIOUS
<1>1. RunnerInv
  BY RunnerInit
<1>2. started = EmptyMap /\ DOMAIN tasks = {} /\ generation = 0
  BY DEF Init, EmptyMap
<1>3. ~ Loaded
  BY <1>2 DEF Loaded
<1>4. QED
  BY <1>1, <1>2, <1>3 DEF PoolInv

LEMMA PoolNext ==
  ASSUME GraphsFit, Gpu = {}
  PROVE  PoolInv /\ [Next]_vars => PoolInv'
<1> SUFFICES ASSUME PoolInv, [Next]_vars PROVE PoolInv'
  OBVIOUS
<1>1. CASE UNCHANGED vars
  <2>1. RunnerInv'
    BY <1>1, RunnerNext DEF PoolInv
  <2>2. QED
    BY <1>1, <2>1, PoolStays DEF vars, pipelineVars, functionVars
<1>2. QED
  BY <1>1, BuildPool, BeginStepPool, RunExecutorPool, FulfilPool DEF Next

THEOREM PoolInvariant ==
  ASSUME GraphsFit, Gpu = {}
  PROVE  Spec => []PoolInv
BY PoolInit, PoolNext, PTL DEF Spec

\* PoolStatus, by the variables it depends on.
StatusOf(ts, S, gen, A) ==
  [t \in DOMAIN ts \cup {<<gen, x[1], x[2]>> : x \in S} |->
     IF t \in DOMAIN ts THEN ts[t]
     ELSE IF A[<<t[2], t[3], "$out">>] = Unset THEN "lost" ELSE "collected"]

LEMMA StatusGiven ==
  ASSUME GraphsFit
  PROVE  /\ (PoolInv /\ phase \in {"idle", "stepping"})
               => PoolStatus = StatusOf(tasks, DOMAIN started, generation, attrs)
         /\ (PoolInv /\ phase \in {"idle", "stepping"})'
               => PoolStatus' = StatusOf(tasks', DOMAIN started', generation', attrs')
<1>1. PoolInv /\ phase \in {"idle", "stepping"}
        => PoolStatus = StatusOf(tasks, DOMAIN started, generation, attrs)
  <2> SUFFICES ASSUME PoolInv, phase \in {"idle", "stepping"}
               PROVE  PoolStatus = StatusOf(tasks, DOMAIN started, generation, attrs)
    OBVIOUS
  <2>1. \A x \in DOMAIN started : stages[x[1]].executors[x[2]].uri \in Async
    <3>1. CASE Unloaded
      BY <3>1 DEF PoolInv, EmptyMap
    <3>2. CASE Loaded
      <4> SUFFICES ASSUME NEW x \in DOMAIN started PROVE stages[x[1]].executors[x[2]].uri \in Async
        OBVIOUS
      <4>1. x \in Collectors
        BY <3>2 DEF PoolInv, PoolKept
      <4>2. /\ x[1] \in DOMAIN built.nodeInfos
            /\ Executors(built, x[1])[x[2]].uri \in Async
        BY <3>2, <4>1, CollectorFacts
      <4>3. stages[x[1]].executors = Executors(built, x[1])
        <5>1. PICK i \in DOMAIN sequence : sequence[i] = <<generation, x[1]>>
          BY <3>2, <4>2 DEF Loaded
        <5>2. sequence[i][1] = generation /\ sequence[i][2] = x[1]
          BY <5>1
        <5>3. stages[sequence[i][2]].executors = Executors(built, sequence[i][2])
          BY <3>2, <5>2, StageAt DEF PoolInv
        <5>4. QED
          BY <5>2, <5>3
      <4>4. QED
        BY <4>2, <4>3
    <3>3. QED
      BY <3>1, <3>2 DEF PoolInv, RunnerInv
  <2>2. {x \in DOMAIN started : stages[x[1]].executors[x[2]].uri \in Async} = DOMAIN started
    BY <2>1
  <2>3. QED
    BY <2>2 DEF PoolStatus, StatusOf
<1>2. (PoolInv /\ phase \in {"idle", "stepping"}
         => PoolStatus = StatusOf(tasks, DOMAIN started, generation, attrs))'
  BY <1>1, PTL
<1>3. QED
  BY <1>1, <1>2

\* The status of one request moves, and nothing else.
LEMMA StatusMoves ==
  ASSUME NEW ts, NEW us, NEW S, NEW gen, NEW A, NEW B, NEW x \in S,
         NEW r, r = <<gen, x[1], x[2]>>,
         DOMAIN us \cup {r} = DOMAIN ts \cup {r},
         \A t \in DOMAIN ts : t # r => us[t] = ts[t],
         \A y \in S : <<gen, y[1], y[2]>> # r => (HasResultOf(B, y) <=> HasResultOf(A, y))
  PROVE  /\ r \in DOMAIN StatusOf(ts, S, gen, A)
         /\ StatusOf(ts, S, gen, A)[r] =
              IF r \in DOMAIN ts THEN ts[r] ELSE IF HasResultOf(A, x) THEN "collected" ELSE "lost"
         /\ StatusOf(us, S, gen, B)[r] =
              IF r \in DOMAIN us THEN us[r] ELSE IF HasResultOf(B, x) THEN "collected" ELSE "lost"
         /\ DOMAIN StatusOf(us, S, gen, B) = DOMAIN StatusOf(ts, S, gen, A)
         /\ \A t \in DOMAIN StatusOf(ts, S, gen, A) :
              t # r => StatusOf(us, S, gen, B)[t] = StatusOf(ts, S, gen, A)[t]
<1> DEFINE f == StatusOf(ts, S, gen, A)
           h == StatusOf(us, S, gen, B)
           D == {<<gen, y[1], y[2]>> : y \in S}
<1>1. /\ r \in D /\ r[2] = x[1] /\ r[3] = x[2]
  OBVIOUS
<1>2. DOMAIN f = DOMAIN ts \cup D /\ DOMAIN h = DOMAIN us \cup D
  BY DEF StatusOf
<1>3. DOMAIN f = DOMAIN h /\ r \in DOMAIN f
  BY <1>1, <1>2
<1>4. \A t \in DOMAIN f : f[t] = IF t \in DOMAIN ts THEN ts[t]
                                ELSE IF A[<<t[2], t[3], "$out">>] = Unset THEN "lost" ELSE "collected"
  BY DEF StatusOf
<1>5. \A t \in DOMAIN h : h[t] = IF t \in DOMAIN us THEN us[t]
                                ELSE IF B[<<t[2], t[3], "$out">>] = Unset THEN "lost" ELSE "collected"
  BY DEF StatusOf
<1> HIDE DEF f, h
<1>7. ASSUME NEW t \in DOMAIN f, t # r PROVE h[t] = f[t]
  <2>1. CASE t \in DOMAIN ts
    BY <1>3, <1>4, <1>5, <1>7, <2>1
  <2>2. CASE t \notin DOMAIN ts
    <3>1. t \notin DOMAIN us /\ t \in D
      BY <1>2, <1>7, <2>2
    <3>2. PICK y \in S : t = <<gen, y[1], y[2]>>
      BY <3>1
    <3>3. (B[<<t[2], t[3], "$out">>] = Unset) <=> (A[<<t[2], t[3], "$out">>] = Unset)
      BY <1>7, <3>2 DEF HasResultOf
    <3>4. QED
      BY <1>3, <1>4, <1>5, <2>2, <3>1, <3>3
  <2>3. QED
    BY <2>1, <2>2
<1>8. /\ f[r] = IF r \in DOMAIN ts THEN ts[r] ELSE IF HasResultOf(A, x) THEN "collected" ELSE "lost"
      /\ h[r] = IF r \in DOMAIN us THEN us[r] ELSE IF HasResultOf(B, x) THEN "collected" ELSE "lost"
  BY <1>1, <1>3, <1>4, <1>5 DEF HasResultOf
<1>9. QED
  BY <1>3, <1>7, <1>8 DEF f, h

\* What was handed over before the executor that hands over now is collected.
LEMMA AllCollected ==
  ASSUME GraphsFit, Running, PoolKept, CollectedBefore(DOMAIN started, attrs, pos),
         Self \in Collectors, Self \notin DOMAIN started
  PROVE  /\ \A x \in DOMAIN started : HasResultOf(attrs, x)
         /\ \A t \in DOMAIN tasks : t[1] # generation
<1>1. ASSUME NEW x \in DOMAIN started PROVE HasResultOf(attrs, x)
  <2>1. /\ Loaded /\ pos[1] \in DOMAIN sequence /\ pos[1] \in Nat /\ pos[2] \in Nat
        /\ sequence[pos[1]][1] = generation /\ sequence \in Seq(Nat \X Nat)
    BY RunningStage DEF Running, RunnerInv
  <2>2. x \in Collectors
    BY DEF PoolKept
  <2>3. x = <<x[1], x[2]>> /\ x[1] \in DOMAIN built.nodeInfos /\ x[2] \in Nat
    BY <2>1, <2>2, CollectorFacts
  <2>4. PICK a \in DOMAIN sequence : sequence[a] = <<generation, x[1]>>
    BY <2>1, <2>3 DEF Loaded
  <2>5. a \in Nat
    BY <2>1
  <2>6. sequence[pos[1]] = <<generation, StageNode>>
    BY <2>1 DEF StageNode
  <2>7. CASE a < pos[1] \/ (a = pos[1] /\ x[2] < pos[2])
    BY <2>2, <2>4, <2>7 DEF CollectedBefore, Precedes
  <2>8. CASE pos[1] < a \/ (pos[1] = a /\ pos[2] < x[2])
    <3> DEFINE p == <<a, x[2]>>
    <3>1. p[1] = a /\ p[2] = x[2] /\ Self[1] = StageNode /\ Self[2] = pos[2]
      BY DEF Self
    <3>2. CollectedBefore(DOMAIN started, attrs, p)
      BY <2>4 DEF PoolKept, HandedOverInTurn
    <3> HIDE DEF p
    <3>3. Precedes(Self, p)
      BY <2>1, <2>6, <2>8, <3>1 DEF Precedes
    <3>4. QED
      BY <3>2, <3>3 DEF CollectedBefore
  <2>9. CASE a = pos[1] /\ x[2] = pos[2]
    <3>1. x[1] = StageNode
      BY <2>4, <2>6, <2>9
    <3>2. x = Self
      BY <2>3, <2>9, <3>1 DEF Self
    <3>3. QED
      BY <3>2
  <2>10. QED
    BY <2>1, <2>3, <2>5, <2>7, <2>8, <2>9
<1>2. QED
  BY <1>1 DEF PoolKept, TasksOpen

LEMMA StatusSame ==
  ASSUME NEW ts, NEW S, NEW gen, NEW A, NEW B, \A x \in S : HasResultOf(B, x) <=> HasResultOf(A, x)
  PROVE  StatusOf(ts, S, gen, B) = StatusOf(ts, S, gen, A)
<1> DEFINE lost(E, t) == IF E[<<t[2], t[3], "$out">>] = Unset THEN "lost" ELSE "collected"
           D == {<<gen, x[1], x[2]>> : x \in S}
<1>1. ASSUME NEW t \in D PROVE lost(A, t) = lost(B, t)
  <2>1. PICK x \in S : t = <<gen, x[1], x[2]>>
    OBVIOUS
  <2>2. QED
    BY <2>1 DEF HasResultOf
<1>2. \A E \in {A, B} : StatusOf(ts, S, gen, E) = [t \in DOMAIN ts \cup D |-> IF t \in DOMAIN ts THEN ts[t] ELSE lost(E, t)]
  BY DEF StatusOf
<1> HIDE DEF lost, D
<1>3. QED
  BY <1>1, <1>2

\* A run that does not end the program, in terms of what was handed over.
LEMMA RunStep ==
  ASSUME GraphsFit, Gpu = {}, Running, PoolKept, CollectedBefore(DOMAIN started, attrs, pos),
         RunsExecutor(Transferred), phase' # "aborted"
  PROVE  LET f == StatusOf(tasks, DOMAIN started, generation, attrs)
             h == StatusOf(tasks', DOMAIN started', generation, attrs')
         IN  \/ h = f
             \/ /\ \A t \in DOMAIN f : t[1] = generation => f[t] = "collected"
                /\ Task \in DOMAIN h \ DOMAIN f
                /\ h = [t \in DOMAIN f \cup {Task} |-> IF t = Task THEN "pending" ELSE f[t]]
             \/ Task \in DOMAIN f /\ f[Task] = "fulfilled" /\ h = [f EXCEPT ![Task] = "collected"]
             \/ Task \in DOMAIN f /\ f[Task] = "pending" /\ h = [f EXCEPT ![Task] = "lost"]
<1> DEFINE A == Transferred
           S == DOMAIN started
           f == StatusOf(tasks, S, generation, attrs)
           h == StatusOf(tasks', DOMAIN started', generation, attrs')
<1>1. /\ ~ Abort /\ Loaded /\ StageNode \in DOMAIN built.nodeInfos
      /\ pos[2] \in DOMAIN Executors(built, StageNode)
      /\ Executor = Executors(built, StageNode)[pos[2]]
  BY RunningStage DEF Abort, Executor
<1>2. /\ Self \in Collectors <=> Executor.uri \in Async
      /\ Self = <<Self[1], Self[2]>> /\ Self[1] = StageNode /\ Self[2] = pos[2]
      /\ Task = <<generation, Self[1], Self[2]>>
  <2>1. Executor.uri \in Async => Self \in Collectors
    BY <1>1 DEF Collectors, Self
  <2>2. Self[1] = StageNode /\ Self[2] = pos[2]
    BY DEF Self
  <2>3. Self \in Collectors => Executor.uri \in Async
    BY <1>1, <2>2, CollectorFacts
  <2>4. QED
    BY <2>1, <2>2, <2>3 DEF Self, Task
<1>3. S \subseteq Collectors /\ \A x \in S : x = <<x[1], x[2]>>
  BY <1>1, CollectorFacts DEF PoolKept
<1>4. ASSUME NEW x \in Collectors
      PROVE  /\ HasResultOf(A, x) <=> HasResultOf(attrs, x)
             /\ x # Self => /\ HasResultOf(Written(A), x) <=> HasResultOf(attrs, x)
                            /\ HasResultOf(Collected(A), x) <=> HasResultOf(attrs, x)
             /\ x = Self => HasResultOf(Collected(A), x)
  BY ResultsGiven
<1> HIDE DEF A
<1>5. CASE Executor.uri \in DOMAIN Outcomes /\ RunSync(A)
  <2>1. UNCHANGED <<started, tasks>> /\ Self \notin Collectors
    BY <1>1, <1>2, <1>5, RunnerAssumption DEF RunSync
  <2>2. attrs' = A \/ attrs' = Written(A)
    BY <1>1, <1>5 DEF RunSync, FinishExecutor
  <2>3. \A x \in S : HasResultOf(attrs', x) <=> HasResultOf(attrs, x)
    BY <1>3, <1>4, <2>1, <2>2
  <2>4. h = f
    BY <2>1, <2>3, StatusSame
  <2>5. QED
    BY <2>4
<1>6. CASE Executor.uri \in Async /\ Self \notin S /\ HandOver(A)
  <2>1. /\ attrs' = A /\ AddTask
        /\ started' = [k \in S \cup {Self} |-> IF k = Self THEN A[Key("$in")].value ELSE started[k]]
    BY <1>1, <1>6 DEF HandOver
  <2>2. /\ DOMAIN started' = S \cup {Self}
        /\ tasks' = [t \in DOMAIN tasks \cup {Task} |-> IF t = Task THEN "pending" ELSE tasks[t]]
    BY <2>1 DEF AddTask
  <2>3. /\ \A x \in S : HasResultOf(attrs, x)
        /\ \A t \in DOMAIN tasks : t[1] # generation
    BY <1>2, <1>6, AllCollected
  <2>4. \A x \in S : HasResultOf(attrs, x) /\ HasResultOf(attrs', x)
    BY <1>3, <1>4, <2>1, <2>3
  <2>6. /\ \A t \in DOMAIN f : t[1] = generation => f[t] = "collected"
        /\ Task \notin DOMAIN f /\ DOMAIN h = DOMAIN f \cup {Task}
        /\ h[Task] = "pending" /\ \A t \in DOMAIN f : h[t] = f[t]
    <3>1. /\ DOMAIN tasks' = DOMAIN tasks \cup {Task} /\ tasks'[Task] = "pending"
          /\ \A t \in DOMAIN tasks : t # Task /\ tasks'[t] = tasks[t]
      BY <1>2, <2>2, <2>3
    <3>2. DOMAIN f = DOMAIN tasks \cup {<<generation, y[1], y[2]>> : y \in S}
      BY DEF StatusOf
    <3>3. DOMAIN h = DOMAIN tasks' \cup {<<generation, y[1], y[2]>> : y \in S \cup {Self}}
      BY <2>2 DEF StatusOf
    <3>4. \A t \in DOMAIN f : f[t] = IF t \in DOMAIN tasks THEN tasks[t]
                                  ELSE IF attrs[<<t[2], t[3], "$out">>] = Unset THEN "lost" ELSE "collected"
      BY DEF StatusOf
    <3>5. \A t \in DOMAIN h : h[t] = IF t \in DOMAIN tasks' THEN tasks'[t]
                                  ELSE IF attrs'[<<t[2], t[3], "$out">>] = Unset THEN "lost" ELSE "collected"
      BY DEF StatusOf
    <3> HIDE DEF f, h
    <3>6. ASSUME NEW t \in DOMAIN f
          PROVE  /\ t # Task /\ h[t] = f[t] /\ t \in DOMAIN h
                 /\ t \notin DOMAIN tasks => f[t] = "collected"
      <4>1. CASE t \in DOMAIN tasks
        BY <3>1, <3>3, <3>4, <3>5, <4>1
      <4>2. CASE t \notin DOMAIN tasks
        <5>1. PICK y \in S : t = <<generation, y[1], y[2]>>
          BY <3>2, <4>2
        <5>2. y # Self /\ y = <<y[1], y[2]>>
          BY <1>3, <1>6, <5>1
        <5>3. t # Task
          BY <1>2, <5>1, <5>2
        <5>4. attrs[<<t[2], t[3], "$out">>] # Unset /\ attrs'[<<t[2], t[3], "$out">>] # Unset
          BY <2>4, <5>1 DEF HasResultOf
        <5>5. t \in DOMAIN h /\ t \notin DOMAIN tasks'
          BY <3>1, <3>3, <4>2, <5>1, <5>3
        <5>6. QED
          BY <3>4, <3>5, <4>2, <5>3, <5>4, <5>5
      <4>3. QED
        BY <4>1, <4>2
    <3>7. Task \in DOMAIN h /\ h[Task] = "pending"
      BY <3>1, <3>3, <3>5
    <3>8. DOMAIN h \subseteq DOMAIN f \cup {Task}
      BY <1>2, <3>1, <3>2, <3>3
    <3>9. \A t \in DOMAIN f : t[1] = generation => f[t] = "collected"
      BY <2>3, <3>6
    <3>10. QED
      BY <3>6, <3>7, <3>8, <3>9
  <2>7. h = [t \in DOMAIN h |-> h[t]]
    BY DEF StatusOf
  <2> HIDE DEF f, h, S
  <2>8. h = [t \in DOMAIN f \cup {Task} |-> IF t = Task THEN "pending" ELSE f[t]]
    BY <2>6, <2>7
  <2>9. QED
    BY <2>6, <2>8 DEF f, h, S
<1>7. CASE Executor.uri \in Async /\ Self \in S /\ Resume(A)
  <2>1. /\ UNCHANGED started /\ Self \in Collectors
        /\ tasks' = [t \in DOMAIN tasks \ {Task} |-> tasks[t]]
    BY <1>2, <1>7 DEF Resume, ReleaseTask
  <2>2. /\ HasResult => attrs' = Collected(A)
        /\ ~ HasResult => attrs' = A
    BY <1>7 DEF Resume, FinishExecutor
  <2>3. \A y \in S : <<generation, y[1], y[2]>> # Task => (HasResultOf(attrs', y) <=> HasResultOf(attrs, y))
    <3> SUFFICES ASSUME NEW y \in S, <<generation, y[1], y[2]>> # Task
                 PROVE  HasResultOf(attrs', y) <=> HasResultOf(attrs, y)
      OBVIOUS
    <3>1. y # Self /\ y \in Collectors
      BY <1>2, <1>3
    <3>2. QED
      BY <1>4, <2>2, <3>1
  <2> DEFINE after == IF HasResultOf(attrs', Self) THEN "collected" ELSE "lost"
  <2>4. /\ Task \in DOMAIN f
        /\ f[Task] = IF Task \in DOMAIN tasks THEN tasks[Task]
                     ELSE IF HasResultOf(attrs, Self) THEN "collected" ELSE "lost"
        /\ h = [f EXCEPT ![Task] = after]
    <3>1. /\ DOMAIN tasks' = DOMAIN tasks \ {Task}
          /\ \A t \in DOMAIN tasks : t # Task => tasks'[t] = tasks[t]
          /\ DOMAIN tasks' \cup {Task} = DOMAIN tasks \cup {Task}
          /\ Task \notin DOMAIN tasks'
      BY <2>1
    <3>2. h = StatusOf(tasks', S, generation, attrs')
      BY <2>1
    <3> HIDE DEF S, f, h, after
    <3>3. /\ Task \in DOMAIN f
          /\ f[Task] = IF Task \in DOMAIN tasks THEN tasks[Task]
                       ELSE IF HasResultOf(attrs, Self) THEN "collected" ELSE "lost"
          /\ h[Task] = IF Task \in DOMAIN tasks' THEN tasks'[Task]
                       ELSE IF HasResultOf(attrs', Self) THEN "collected" ELSE "lost"
          /\ DOMAIN h = DOMAIN f /\ \A t \in DOMAIN f : t # Task => h[t] = f[t]
      <4>1. Self \in S /\ Task = <<generation, Self[1], Self[2]>>
        BY <1>2, <1>7
      <4>2. QED
        BY <2>3, <3>1, <3>2, <4>1, StatusMoves DEF f
    <3>4. f = [t \in DOMAIN f |-> f[t]] /\ h = [t \in DOMAIN h |-> h[t]]
      BY DEF StatusOf, f, h
    <3>5. h[Task] = after
      BY <3>1, <3>3 DEF after
    <3>6. h = [f EXCEPT ![Task] = after]
      BY <3>3, <3>4, <3>5
    <3>7. QED
      BY <3>3, <3>6
  <2> HIDE DEF h
  <2>5. CASE HasResult
    <3>1. Task \in DOMAIN tasks /\ tasks[Task] = "fulfilled" /\ HasResultOf(attrs', Self)
      BY <1>4, <2>1, <2>2, <2>5 DEF HasResult
    <3> HIDE DEF f, S
    <3>2. Task \in DOMAIN f /\ f[Task] = "fulfilled" /\ h = [f EXCEPT ![Task] = "collected"]
      BY <2>4, <3>1
    <3>3. QED
      BY <3>2 DEF f, h, S
  <2>6. CASE ~ HasResult /\ Task \in DOMAIN tasks
    <3>1. tasks[Task] = "pending"
      BY <2>6 DEF HasResult, Running, RunnerInv, TypeOK
    <3>2. ~ HasResultOf(attrs', Self)
      <4>1. PICK x \in S : Task = <<generation, x[1], x[2]>> /\ ~ HasResultOf(attrs, x)
        BY <2>6 DEF PoolKept, TasksOpen, Task
      <4>2. x = Self
        BY <1>2, <1>3, <4>1
      <4>3. QED
        BY <1>4, <2>1, <2>2, <2>6, <4>1, <4>2
    <3> HIDE DEF f, S
    <3>3. Task \in DOMAIN f /\ f[Task] = "pending" /\ h = [f EXCEPT ![Task] = "lost"]
      BY <2>4, <2>6, <3>1, <3>2
    <3>4. QED
      BY <3>3 DEF f, h, S
  <2>7. CASE ~ HasResult /\ Task \notin DOMAIN tasks
    <3>1. HasResultOf(attrs', Self) <=> HasResultOf(attrs, Self)
      BY <1>4, <2>1, <2>2, <2>7
    <3>2. f[Task] = after
      BY <2>4, <2>7, <3>1
    <3>3. f = [t \in DOMAIN f |-> f[t]]
      BY DEF StatusOf
    <3> HIDE DEF f, S, after
    <3>4. h = f
      BY <2>4, <3>2, <3>3
    <3>5. QED
      BY <3>4 DEF f, h, S
  <2>8. QED
    BY <2>5, <2>6, <2>7
<1>8. Executor.uri \notin Gpu
  OBVIOUS
<1>9. RunsExecutor(A)
  BY DEF A
<1> HIDE DEF f, h, S
<1>10. QED
  BY <1>1, <1>5, <1>6, <1>7, <1>8, <1>9 DEF RunsExecutor, S

LEMMA AwaitsStep ==
  ASSUME GraphsFit, Gpu = {}
  PROVE  PoolInv /\ PoolInv' /\ [Next]_vars => [Awaits!Next]_(Awaits!vars)
<1> SUFFICES ASSUME PoolInv, PoolInv', [Next]_vars
             PROVE  [Awaits!Next]_(Awaits!vars)
  OBVIOUS
<1> DEFINE f == StatusOf(tasks, DOMAIN started, generation, attrs)
           h == StatusOf(tasks', DOMAIN started', generation', attrs')
<1>1. /\ phase \in {"idle", "stepping"} => PoolStatus = f
      /\ phase' \in {"idle", "stepping"} => PoolStatus' = h
  BY StatusGiven
<1>2. ASSUME UNCHANGED <<stages, generation, attrs, started, tasks>>
      PROVE  UNCHANGED Awaits!vars
  BY <1>2 DEF PoolStatus, Awaits!vars
<1>3. ASSUME NEW g \in Graphs, Build(g) PROVE [Awaits!Next]_(Awaits!vars)
  <2>1. CASE ~ BuildOk(g)
    BY <1>2, <1>3, <2>1 DEF Build, functionVars
  <2>2. CASE BuildOk(g)
    <3>1. /\ phase = "idle" /\ phase' = "idle" /\ generation' = generation + 1
          /\ started' = EmptyMap /\ tasks' = tasks
      BY <1>3, <2>2 DEF Build
    <3>2. DOMAIN started' = {} /\ \A t \in DOMAIN tasks : tasks[t] \in {"pending", "fulfilled"}
      BY <3>1 DEF EmptyMap, PoolInv, RunnerInv, TypeOK
    <3>3. /\ DOMAIN h = DOMAIN tasks
          /\ \A t \in DOMAIN tasks : h[t] = tasks[t] /\ t \in DOMAIN f /\ f[t] = tasks[t]
          /\ \A t \in DOMAIN f : f[t] \in {"pending", "fulfilled"} => t \in DOMAIN tasks
          /\ h = [t \in DOMAIN h |-> h[t]]
      <4>1. h = [t \in DOMAIN h |-> h[t]]
        BY DEF StatusOf
      <4>2. DOMAIN h = DOMAIN tasks /\ \A t \in DOMAIN tasks : h[t] = tasks[t]
        BY <3>1, <3>2 DEF StatusOf
      <4>3. \A t \in DOMAIN tasks : t \in DOMAIN f /\ f[t] = tasks[t]
        BY DEF StatusOf
      <4>4. \A t \in DOMAIN f : f[t] \in {"pending", "fulfilled"} => t \in DOMAIN tasks
        BY DEF StatusOf
      <4>5. QED
        BY <4>1, <4>2, <4>3, <4>4
    <3> HIDE DEF f, h
    <3>4. Awaits!NewBuild
      <4>1. PoolStatus = f /\ PoolStatus' = h
        BY <1>1, <3>1
      <4>2. {x \in DOMAIN f : Awaits!Open(x)} = DOMAIN tasks
        BY <3>2, <3>3, <4>1 DEF Awaits!Open
      <4>3. PoolStatus' = [t \in {x \in DOMAIN PoolStatus : Awaits!Open(x)} |-> PoolStatus[t]]
        BY <3>3, <4>1, <4>2
      <4>4. QED
        BY <3>1, <4>3 DEF Awaits!NewBuild
    <3>5. QED
      BY <3>4 DEF Awaits!Next
  <2>3. QED
    BY <2>1, <2>2
<1>4. CASE BeginStep
  BY <1>2, <1>4 DEF BeginStep, pipelineVars, functionVars
<1>5. CASE RunExecutor
  <2>1. UNCHANGED <<stages, generation>>
    BY <1>5 DEF RunExecutor, pipelineVars
  <2>2. CASE phase' \notin {"idle", "stepping"}
    <3>1. UNCHANGED functionVars
      BY <1>5, <2>2 DEF RunExecutor, RunSync, HandOver, Resume, Dispatch, Capture, Abort, FinishExecutor,
                       Pause, Break
    <3>2. QED
      BY <1>2, <2>1, <3>1 DEF functionVars
  <2>3. CASE phase' \in {"idle", "stepping"}
    <3>1. /\ phase = "stepping" /\ sequence[pos[1]][1] = generation
          /\ RunsExecutor(Transferred) /\ phase' # "aborted"
      BY <1>5, <2>3 DEF RunExecutor, RunsExecutor
    <3>2. Running
      BY <1>5, <3>1 DEF RunExecutor, Running, PoolInv
    <3>3. PoolKept /\ CollectedBefore(DOMAIN started, attrs, pos)
      BY <3>1, <3>2, RunningStage DEF PoolInv, PoolKept
    <3>4. \/ h = f
          \/ /\ \A t \in DOMAIN f : t[1] = generation => f[t] = "collected"
             /\ Task \in DOMAIN h \ DOMAIN f
             /\ h = [t \in DOMAIN f \cup {Task} |-> IF t = Task THEN "pending" ELSE f[t]]
          \/ Task \in DOMAIN f /\ f[Task] = "fulfilled" /\ h = [f EXCEPT ![Task] = "collected"]
          \/ Task \in DOMAIN f /\ f[Task] = "pending" /\ h = [f EXCEPT ![Task] = "lost"]
      BY <2>1, <3>1, <3>2, <3>3, RunStep
    <3>5. Task[1] = generation
      BY DEF Task
    <3> HIDE DEF f, h
    <3>6. PoolStatus = f /\ PoolStatus' = h
      BY <1>1, <2>3, <3>1
    <3>7. CASE h = f
      BY <2>1, <3>6, <3>7 DEF Awaits!vars
    <3>8. CASE /\ \A t \in DOMAIN f : t[1] = generation => f[t] = "collected"
               /\ Task \in DOMAIN h \ DOMAIN f
               /\ h = [t \in DOMAIN f \cup {Task} |-> IF t = Task THEN "pending" ELSE f[t]]
      <4>1. Awaits!Ask
        BY <2>1, <3>5, <3>6, <3>8 DEF Awaits!Ask
      <4>2. QED
        BY <4>1 DEF Awaits!Next
    <3>9. CASE Task \in DOMAIN f /\ f[Task] = "fulfilled" /\ h = [f EXCEPT ![Task] = "collected"]
      <4>1. Awaits!Becomes("fulfilled", "collected")
        BY <2>1, <3>5, <3>6, <3>9 DEF Awaits!Becomes
      <4>2. QED
        BY <4>1 DEF Awaits!Next
    <3>10. CASE Task \in DOMAIN f /\ f[Task] = "pending" /\ h = [f EXCEPT ![Task] = "lost"]
      <4>1. Awaits!Becomes("pending", "lost")
        BY <2>1, <3>5, <3>6, <3>10 DEF Awaits!Becomes
      <4>2. QED
        BY <4>1 DEF Awaits!Next
    <3>11. QED
      BY <3>4, <3>7, <3>8, <3>9, <3>10
  <2>4. QED
    BY <2>2, <2>3
<1>6. ASSUME NEW t \in DOMAIN tasks, Fulfil(t) PROVE [Awaits!Next]_(Awaits!vars)
  <2>1. /\ UNCHANGED <<generation, attrs, started>> /\ phase = "idle" /\ phase' = "idle"
        /\ tasks[t] = "pending" /\ tasks' = [tasks EXCEPT ![t] = "fulfilled"]
    BY <1>6 DEF Fulfil, pipelineVars
  <2>2. DOMAIN tasks' = DOMAIN tasks /\ tasks'[t] = "fulfilled"
        /\ \A u \in DOMAIN tasks : u # t => tasks'[u] = tasks[u]
    BY <2>1
  <2>3. /\ DOMAIN h = DOMAIN f /\ t \in DOMAIN f /\ f[t] = "pending" /\ h[t] = "fulfilled"
        /\ \A u \in DOMAIN f : u # t => h[u] = f[u]
    BY <2>1, <2>2 DEF StatusOf
  <2>4. f = [u \in DOMAIN f |-> f[u]] /\ h = [u \in DOMAIN h |-> h[u]]
    BY DEF StatusOf
  <2> HIDE DEF f, h
  <2>5. h = [f EXCEPT ![t] = "fulfilled"]
    BY <2>3, <2>4
  <2>6. PoolStatus = f /\ PoolStatus' = h
    BY <1>1, <2>1
  <2>7. Awaits!Becomes("pending", "fulfilled")
    BY <2>1, <2>3, <2>5, <2>6 DEF Awaits!Becomes
  <2>8. QED
    BY <2>7 DEF Awaits!Next
<1>7. CASE UNCHANGED vars
  BY <1>2, <1>7 DEF vars, pipelineVars, functionVars
<1>8. QED
  BY <1>3, <1>4, <1>5, <1>6, <1>7 DEF Next

LEMMA AwaitsInit == Init => Awaits!Init
<1> SUFFICES ASSUME Init PROVE Awaits!Init
  OBVIOUS
<1>1. generation = 0 /\ DOMAIN tasks = {} /\ DOMAIN started = {}
  BY DEF Init, EmptyMap
<1>2. PoolStatus = [r \in {} |-> "pending"]
  BY <1>1 DEF PoolStatus
<1>3. QED
  BY <1>1, <1>2 DEF Awaits!Init

\* The tasks whose result is collected keep to the agreement of AwaitPool: asked
\* once, collected once and only when fulfilled, and after one that was called
\* for too early nothing is asked again in that build.
THEOREM ImplementsAwaitPoolAlways ==
  ASSUME GraphsFit, Gpu = {}
  PROVE  Spec => ImplementsAwaitPool
<1>1. Init => Awaits!Init
  BY AwaitsInit
<1>2. PoolInv /\ PoolInv' /\ [Next]_vars => [Awaits!Next]_(Awaits!vars)
  BY AwaitsStep
<1>3. Spec => []PoolInv
  BY PoolInvariant
<1>4. QED
  BY <1>1, <1>2, <1>3, PTL DEF Spec, ImplementsAwaitPool, Awaits!Spec
=============================================================================
