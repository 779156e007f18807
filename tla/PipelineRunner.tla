--------------------------- MODULE PipelineRunner ---------------------------
(***************************************************************************)
(* Class PipelineRunner (pipeline/PipelineRunner.cpp) behind the Flow API  *)
(* (api_backends/FlowApiBackend.cpp), with the functions it runs and the   *)
(* tasks they leave in the await pool of the JavaScript side.              *)
(*                                                                         *)
(* The program has one thread: between BeginStep and the end of the step   *)
(* nothing else runs, and each turn of the loop of StepPipelineV2 is one   *)
(* RunExecutor.  A function either answers at once or, like the decoding   *)
(* and the encoding of bitmaps (wasm/BitmapEncoding.cpp), hands a task to  *)
(* JavaScript, answers AWAIT, and collects the result when it is run       *)
(* again.  The WebGPU functions answer AWAIT too, and do not ask for their *)
(* result.  An error status of the API is a LOG(FATAL): the program ends.  *)
(***************************************************************************)
EXTENDS PipelineBuilder

CONSTANTS
  Graphs,      \* the graph states a pipeline may be built from
  MaxBuilds,   \* bound on the number of builds
  Outcomes,    \* uri of a registered function -> what it may return at once
  Async,       \* those that leave a task in the await pool and collect its result
  Gpu,         \* those that leave a task there and do not come back for it
  Fatal,       \* <<uri, input, value>>: what a function ends the program over
  NoResult, NoGraph

\* FunctionReturn: how a run of a function ends.
ReturnCode == {"DONE", "NO_DATA", "AWAIT", "ERROR"}

Registered == DOMAIN Outcomes \cup Async \cup Gpu

ASSUME RunnerAssumption ==
  /\ MaxBuilds \in Nat
  /\ Gpu \cap ({"$IN", "$OUT"} \X KnownDtype) = {}
  /\ Async \cap Gpu = {} /\ DOMAIN Outcomes \cap (Async \cup Gpu) = {}
  /\ \A uri \in DOMAIN Outcomes : Outcomes[uri] \subseteq ReturnCode \ {"AWAIT"}
  /\ \A g \in Graphs : IsGraphState(g)

VARIABLES
  built,       \* the graph of the last build
  stages,      \* nodeOpsStages: node -> executors and transfers
  sequence,    \* stageSequence: pointers, as <<build, node>>
  generation,  \* number of builds; the stages of earlier builds are freed
  attrs,       \* <<node, executor, slot>> -> data type and value
  started,     \* executors whose function has handed over a task -> the value it took
  tasks,       \* the await pool: <<build, node, executor>> -> "pending" or "fulfilled"
  saved,       \* nextStageExecutorIndex_, counted from 1
  pos,         \* stageIndex and executorIndex of the running step
  completed,   \* completedOutputs_
  phase,       \* "idle", "stepping", "aborted" or "undefined"
  result       \* the FlowStepResult of the last step

pipelineVars == <<built, stages, sequence, generation>>
functionVars == <<attrs, started, tasks>>
vars == <<pipelineVars, functionVars, saved, pos, completed, phase, result>>

Init ==
  /\ built = NoGraph
  /\ stages = EmptyMap /\ sequence = << >> /\ generation = 0
  /\ attrs = EmptyMap /\ started = EmptyMap /\ tasks = EmptyMap
  /\ saved = <<1, 1>> /\ pos = <<1, 1>>
  /\ completed = EmptyMap
  /\ phase = "idle" /\ result = NoResult

----------------------------------------------------------------------------
(***************************************************************************)
(* Building                                                                *)
(***************************************************************************)

\* buildPipeline.  The stages are cleared, their sequence is not.
Build(g) ==
  /\ phase = "idle" /\ generation < MaxBuilds
  /\ built' = g
  /\ \/ /\ ~ BuildOk(g)
        /\ phase' = "aborted"
        /\ UNCHANGED <<stages, sequence, generation, functionVars, saved, pos, completed, result>>
     \/ /\ BuildOk(g)
        /\ generation' = generation + 1
        /\ stages' = [n \in DOMAIN g.nodeInfos |-> Stage(g, n)]
        /\ sequence' = sequence \o [i \in DOMAIN g.sortOrder |-> <<generation + 1, g.sortOrder[i]>>]
        /\ attrs' = FreshAttrs(g)
        /\ started' = EmptyMap
        /\ saved' = <<1, 1>>
        /\ completed' = EmptyMap
        /\ result' = NoResult
        /\ UNCHANGED <<tasks, pos, phase>>

----------------------------------------------------------------------------
(***************************************************************************)
(* Stepping                                                                *)
(***************************************************************************)

Report(status, outputs, awaits) == [status |-> status, outputs |-> outputs, awaits |-> awaits]

\* Mutant: a step that starts from the beginning drops the outputs.
BeginStep_ClearOutputs ==
  /\ phase = "idle"
  /\ \/ /\ saved[1] > Len(sequence)
        /\ result' = Report("SUCCESS", EmptyMap, {})
        /\ UNCHANGED <<pos, phase, completed>>
     \/ /\ saved[1] <= Len(sequence)
        /\ phase' = "stepping"
        /\ pos' = saved
        /\ completed' = IF saved = <<1, 1>> THEN EmptyMap ELSE completed
        /\ UNCHANGED result
  /\ UNCHANGED <<pipelineVars, functionVars, saved>>

\* stepPipeline up to the loop.
BeginStep ==
  /\ phase = "idle"
  /\ \/ /\ saved[1] > Len(sequence)
        /\ result' = Report("SUCCESS", EmptyMap, {})
        /\ UNCHANGED <<pos, phase>>
     \/ /\ saved[1] <= Len(sequence)
        /\ phase' = "stepping"
        /\ pos' = saved
        /\ UNCHANGED result
  /\ UNCHANGED <<pipelineVars, functionVars, saved, completed>>

\* The executor at pos, and its stage, if the pointer to it is good.
StageNode == sequence[pos[1]][2]
ThisStage == stages[StageNode]
Executor == ThisStage.executors[pos[2]]
IsLast == pos[2] = Len(ThisStage.executors)
Key(name) == <<StageNode, pos[2], name>>
Self == <<StageNode, pos[2]>>
Task == <<generation, StageNode, pos[2]>>

\* DoAttrTransfers: one after the other; the order counts when two deliver to
\* the same entry.
Transfer(entries, t) == [entries EXCEPT ![t.dst] = entries[t.src]]

AfterTransfer(entries, transfers) ==
  LET after[i \in 0 .. Len(transfers)] ==
        IF i = 0 THEN entries ELSE Transfer(after[i - 1], transfers[i])
  IN  after

\* The last executor of a stage has the transfers made before it runs.
Deliver(entries) ==
  IF IsLast THEN AfterTransfer(entries, ThisStage.transfers)[Len(ThisStage.transfers)] ELSE entries

Transferred == Deliver(attrs)

\* What the executor computes of the attributes A.  Decoding and encoding keep
\* the value; a function's result is named by the node, the slot and the
\* arguments.
Output(A, name) ==
  IF Executor.type = "function"
  THEN [node |-> StageNode, slot |-> name,
        args |-> [x \in DOMAIN Executor.takes |-> A[Key(x)].value]]
  ELSE A[Key("$in")].value

Written(A) ==
  [k \in DOMAIN A |->
     IF k[1] = StageNode /\ k[2] = pos[2] /\ k[3] \in DOMAIN Executor.gives
     THEN [dtype |-> Executor.gives[k[3]], value |-> Output(A, k[3])] ELSE A[k]]

\* GetInParam aborts the program when the attribute has another type.
Readable(A) == \A x \in DOMAIN Executor.takes : A[Key(x)].dtype = Executor.takes[x]

\* A decoder ends it over a payload that it cannot parse or that is not of the
\* form it checks for, the drawing of bands over a palette without colors.
Refused(A) == \E x \in DOMAIN Executor.takes : <<Executor.uri, x, A[Key(x)].value>> \in Fatal

InputsOk(A) == Readable(A) /\ ~ Refused(A)

Abort == phase' = "aborted" /\ UNCHANGED <<functionVars, saved, pos, completed, result>>

\* HandleEncodeOutput
Recorded(A) ==
  IF Executor.type = "encode"
  THEN [n \in DOMAIN completed \cup {StageNode} |->
          IF n = StageNode THEN A[Key("$out")].value ELSE completed[n]]
  ELSE completed

\* Mutant: after the last stage the position stays behind the end.
FinishExecutor_StayAtEnd(A) ==
  LET outputs == Recorded(A)
  IN  /\ attrs' = A
      /\ completed' = outputs
      /\ \/ /\ ~ IsLast
            /\ pos' = <<pos[1], pos[2] + 1>>
            /\ UNCHANGED <<saved, phase, result>>
         \/ /\ IsLast /\ pos[1] < Len(sequence)
            /\ pos' = <<pos[1] + 1, 1>>
            /\ UNCHANGED <<saved, phase, result>>
         \/ /\ IsLast /\ pos[1] = Len(sequence)
            /\ saved' = <<pos[1] + 1, 1>>
            /\ phase' = "idle"
            /\ result' = Report("SUCCESS", outputs, {})
            /\ UNCHANGED pos

\* DONE: an encoder's result is recorded, and the loop goes on with the next
\* executor, the next stage, or ends the step at the last one.
FinishExecutor(A) ==
  LET outputs == Recorded(A)
  IN  /\ attrs' = A
      /\ completed' = outputs
      /\ \/ /\ ~ IsLast
            /\ pos' = <<pos[1], pos[2] + 1>>
            /\ UNCHANGED <<saved, phase, result>>
         \/ /\ IsLast /\ pos[1] < Len(sequence)
            /\ pos' = <<pos[1] + 1, 1>>
            /\ UNCHANGED <<saved, phase, result>>
         \/ /\ IsLast /\ pos[1] = Len(sequence)
            /\ saved' = <<1, 1>>
            /\ phase' = "idle"
            /\ result' = Report("SUCCESS", outputs, {})
            /\ UNCHANGED pos

\* Mutant: the position is not saved.
Pause_NotSaved(awaits) ==
  /\ phase' = "idle"
  /\ result' = Report("PARTIAL", completed, awaits)
  /\ UNCHANGED <<saved, pos, completed>>

\* AWAIT and NO_DATA: the position is saved.
Pause(awaits) ==
  /\ saved' = pos
  /\ phase' = "idle"
  /\ result' = Report("PARTIAL", completed, awaits)
  /\ UNCHANGED <<pos, completed>>

\* ERROR: the position is not saved.
Break ==
  /\ phase' = "idle"
  /\ result' = Report("ERROR", completed, {})
  /\ UNCHANGED <<saved, pos, completed>>

\* A function that answers at once.
RunSync(A) ==
  \/ ~ InputsOk(A) /\ Abort
  \/ /\ InputsOk(A)
     /\ UNCHANGED <<started, tasks>>
     /\ \/ "DONE" \in Outcomes[Executor.uri] /\ FinishExecutor(Written(A))
        \/ "NO_DATA" \in Outcomes[Executor.uri] /\ attrs' = A /\ Pause({})
        \/ "ERROR" \in Outcomes[Executor.uri] /\ attrs' = A /\ Break

\* Module.awaitPool
AddTask == tasks' = [t \in DOMAIN tasks \cup {Task} |-> IF t = Task THEN "pending" ELSE tasks[t]]

\* Mutant: the result of a task is cleared, and its entry stays.
ReleaseTask_Clear == tasks' = [t \in DOMAIN tasks |-> IF t = Task THEN "pending" ELSE tasks[t]]

ReleaseTask == tasks' = [t \in DOMAIN tasks \ {Task} |-> tasks[t]]

\* Mutant: a task that is in the pool is taken for fulfilled.
HasResult_Present == Task \in DOMAIN tasks

HasResult == Task \in DOMAIN tasks /\ tasks[Task] = "fulfilled"

\* The first run of a function that works through the await pool.
HandOver(A) ==
  \/ ~ InputsOk(A) /\ Abort
  \/ /\ InputsOk(A)
     /\ attrs' = A
     /\ started' = [k \in DOMAIN started \cup {Self} |->
                      IF k = Self THEN A[Key("$in")].value ELSE started[k]]
     /\ AddTask
     /\ Pause({StageNode})

\* The result is that of the value the task was given.
Collected(A) ==
  [A EXCEPT ![Key("$out")] = [dtype |-> Executor.gives["$out"], value |-> started[Self]]]

\* Mutant: a result is collected without releasing the task.
Resume_KeepTask(A) ==
  /\ UNCHANGED <<started, tasks>>
  /\ \/ /\ HasResult
        /\ FinishExecutor(Collected(A))
     \/ /\ ~ HasResult
        /\ attrs' = A
        /\ Break

\* Mutant: the task is only marked as released.
Resume_MarkTask(A) ==
  /\ tasks' = [t \in DOMAIN tasks |-> IF t = Task THEN "released" ELSE tasks[t]]
  /\ UNCHANGED started
  /\ \/ /\ HasResult
        /\ FinishExecutor(Collected(A))
     \/ /\ ~ HasResult
        /\ attrs' = A
        /\ Break

\* The later runs: the task is released, whether it was fulfilled or not.
Resume(A) ==
  /\ ReleaseTask
  /\ UNCHANGED started
  /\ \/ /\ HasResult
        /\ FinishExecutor(Collected(A))
     \/ /\ ~ HasResult
        /\ attrs' = A
        /\ Break

\* The first run of a WebGPU function: its bitmap is there, but not painted.
Dispatch(A) ==
  \/ ~ InputsOk(A) /\ Abort
  \/ /\ InputsOk(A)
     /\ attrs' = Written(A)
     /\ started' = [k \in DOMAIN started \cup {Self} |-> IF k = Self THEN NoData ELSE started[k]]
     /\ AddTask
     /\ Pause({StageNode})

\* The later runs, whatever became of the task: the bitmap is taken as it is.
\* Capturing it fails when the memory under its image has moved.
Capture(A) ==
  \/ FinishExecutor(A) /\ UNCHANGED <<started, tasks>>
  \/ Abort

\* One turn of the loop.  A pointer to a stage of an earlier build dangles.
RunExecutor ==
  /\ phase = "stepping"
  /\ UNCHANGED pipelineVars
  /\ \/ /\ sequence[pos[1]][1] # generation
        /\ phase' = "undefined"
        /\ UNCHANGED <<functionVars, saved, pos, completed, result>>
     \/ /\ sequence[pos[1]][1] = generation
        /\ \/ Executor.uri \notin Registered /\ Abort
           \/ Executor.uri \in DOMAIN Outcomes /\ RunSync(Transferred)
           \/ Executor.uri \in Async /\ Self \notin DOMAIN started /\ HandOver(Transferred)
           \/ Executor.uri \in Async /\ Self \in DOMAIN started /\ Resume(Transferred)
           \/ Executor.uri \in Gpu /\ Self \notin DOMAIN started /\ Dispatch(Transferred)
           \/ Executor.uri \in Gpu /\ Self \in DOMAIN started /\ Capture(Transferred)

\* JavaScript fulfils a task of the await pool, between two calls.
Fulfil(t) ==
  /\ phase = "idle"
  /\ t \in DOMAIN tasks /\ tasks[t] = "pending"
  /\ tasks' = [tasks EXCEPT ![t] = "fulfilled"]
  /\ UNCHANGED <<pipelineVars, attrs, started, saved, pos, completed, phase, result>>

Next ==
  \/ \E g \in Graphs : Build(g)
  \/ BeginStep
  \/ RunExecutor
  \/ \E t \in DOMAIN tasks : Fulfil(t)

Spec == Init /\ [][Next]_vars

----------------------------------------------------------------------------
(***************************************************************************)
(* What a graph computes, read off its edges and its data alone            *)
(***************************************************************************)

EdgesInto(g, slot) == {e \in DOMAIN g.edgeInfos : To(g.edgeInfos[e]) = slot}

Source(g, slot) == From(g.edgeInfos[CHOOSE e \in EdgesInto(g, slot) : TRUE])

\* A slot whose value its function computes, whatever edge or data it has.
IsComputed(g, slot) == g.slotInfos[slot].access = "O" /\ IsFunction(g, slot[1])

\* The value of every slot of a graph without cycles.
Values(g) ==
  LET v[slot \in DOMAIN g.slotStates] ==
        IF IsComputed(g, slot)
        THEN [node |-> slot[1], slot |-> slot[2],
              args |-> [x \in Entries(g.nodeInfos[slot[1]].ins) |-> v[<<slot[1], x>>]]]
        ELSE IF EdgesInto(g, slot) # {} THEN v[Source(g, slot)]
        ELSE g.slotStates[slot].encodedData
  IN  v

\* A slot that has an edge gets a value of its type.
EdgeFits(g, slot) ==
  EdgesInto(g, slot) # {} =>
    /\ g.slotInfos[Source(g, slot)].access = "O"
    /\ g.slotInfos[Source(g, slot)].dtype = g.slotInfos[slot].dtype

\* Every function is registered, and what edges deliver fits.
Sound(g) ==
  /\ Ordered(g)
  /\ \A n \in DOMAIN g.nodeInfos :
       /\ \A i \in DOMAIN Executors(g, n) : Executors(g, n)[i].uri \in Registered
       /\ \A x \in Entries(g.nodeInfos[n].ins) : EdgeFits(g, <<n, x>>)

\* Besides, every slot that a function reads has an edge or data of its own.
Complete(g) ==
  /\ Sound(g)
  /\ \A n \in DOMAIN g.nodeInfos : \A x \in Entries(g.nodeInfos[n].ins) :
       EdgesInto(g, <<n, x>>) # {} \/ g.slotStates[<<n, x>>].encodedData # NoData

\* The value that reaches an input of an executor: data that was entered is
\* decoded even where an edge delivers something else to its slot.
Arrives(g, n, executor, x) ==
  IF executor.type = "decode" THEN executor.payload ELSE Values(g)[<<n, x>>]

\* No function ends the program over what the graph gives it.
NothingRefused(g) ==
  \A n \in DOMAIN g.nodeInfos : \A executor \in Entries(Executors(g, n)) :
    \A x \in DOMAIN executor.takes :
      <<executor.uri, x, Arrives(g, n, executor, x)>> \notin Fatal

GraphOutputs(g) == {n \in DOMAIN g.nodeInfos : g.nodeInfos[n].ntype = "OUT"}

\* No function of a node collects the result of a task, as codecs do, and
\* nothing is delivered to what a WebGPU function paints.
TasksFit(g) ==
  \A n \in DOMAIN g.nodeInfos : IsFunction(g, n) =>
    /\ g.nodeInfos[n].uri \notin Async
    /\ g.nodeInfos[n].uri \in Gpu =>
         \A y \in Entries(g.nodeInfos[n].outs) :
           EdgesInto(g, <<n, y>>) = {} /\ g.slotStates[<<n, y>>].encodedData = NoData

\* What the graphs are like from which a pipeline is built; those without an
\* output may have cycles.
GraphsFit == \A g \in Graphs : BuildOk(g) => IsWired(g) /\ TasksFit(g)

GraphsOrdered == \A g \in Graphs : BuildOk(g) /\ GraphOutputs(g) # {} => Ordered(g)

----------------------------------------------------------------------------
(***************************************************************************)
(* Properties                                                              *)
(***************************************************************************)

EntryKey == Nat \X Nat \X STRING

\* The type invariant.
TypeOK ==
  /\ built \in Graphs \cup {NoGraph}
  /\ generation \in 0 .. MaxBuilds
  /\ \A n \in DOMAIN stages : IsNodeOpsStage(n, stages[n])
  /\ \A k \in DOMAIN attrs : k \in EntryKey /\ DOMAIN attrs[k] = {"dtype", "value"}
  /\ \A i \in DOMAIN sequence : sequence[i][1] \in 1 .. generation
  /\ DOMAIN started \subseteq Nat \X Nat
  /\ \A t \in DOMAIN tasks : tasks[t] \in {"pending", "fulfilled"}
  /\ {saved, pos} \subseteq Nat \X Nat
  /\ phase \in {"idle", "stepping", "aborted", "undefined"}
  /\ result # NoResult => result.status \in {"SUCCESS", "PARTIAL", "ERROR"}

\* A recorded output is what the graph of the last build computes for it,
\* whatever awaits, errors, retries and repeated runs came before: no stale
\* attribute, no transfer out of order, no output of an earlier build.
OutputsAreRight ==
  (built # NoGraph /\ phase \in {"idle", "stepping"}) =>
    /\ DOMAIN completed \subseteq GraphOutputs(built)
    /\ Ordered(built) => \A n \in DOMAIN completed : completed[n] = Values(built)[<<n, "$in">>]

\* SUCCESS reports every graph output.
SuccessIsComplete ==
  (phase = "idle" /\ built # NoGraph /\ result # NoResult) =>
    (result.status = "SUCCESS" => DOMAIN result.outputs = GraphOutputs(built))

\* A graph whose build succeeds, in which every slot a function reads is
\* supplied, and of whose data and computed values no function refuses what it
\* gets never ends the program, however it is stepped: no function meets an
\* input that is unset, of another type or not the one the graph gives it.
CompleteGraphsRun ==
  phase = "aborted" => ~ (BuildOk(built) /\ Complete(built) /\ NothingRefused(built))

\* The await pool holds at most one task of the present build whose result is
\* to be collected, that of the executor at which the next step goes on or of
\* one an error kept from saving the position; none of these leaves its task
\* behind.
OneTaskAwaited ==
  phase = "idle" =>
    LET mine == {t \in DOMAIN tasks : t[1] = generation
                                      /\ stages[t[2]].executors[t[3]].uri \in Async}
    IN  /\ Cardinality(mine) <= 1
        /\ \A t \in mine : saved[1] <= Len(sequence) =>
             (sequence[saved[1]][1] = generation =>
                t[2] = sequence[saved[1]][2] /\ t[3] = saved[2])

\* Between two builds no output is withdrawn or changed.
OutputsAccumulate ==
  [][generation' = generation =>
       \A n \in DOMAIN completed : n \in DOMAIN completed' /\ completed'[n] = completed[n]]_vars

\* What became of the tasks that were handed over in this build, and of those
\* of earlier builds that are still in the pool.
PoolStatus ==
  LET executor(k) == stages[k[1]].executors[k[2]]
      asked == {<<generation, k[1], k[2]>> : k \in {x \in DOMAIN started : executor(x).uri \in Async}}
  IN  [t \in DOMAIN tasks \cup asked |->
         IF t \in DOMAIN tasks THEN tasks[t]
         ELSE IF attrs[<<t[2], t[3], "$out">>] = Unset THEN "lost" ELSE "collected"]

\* The tasks whose result is collected keep to the agreement of AwaitPool: what
\* an executor passes on was fulfilled, and a task released too early is never
\* asked for again, however often the step is retried.
Awaits == INSTANCE AwaitPool WITH epoch <- generation, status <- PoolStatus

ImplementsAwaitPool == Awaits!Spec

----------------------------------------------------------------------------
(***************************************************************************)
(* What the documentation says and the code does not do                    *)
(***************************************************************************)

\* "Clear any previously built state" (PipelineBuilder.h): the stages to run
\* are those of the last build.
SequenceIsOfLastBuild == \A i \in DOMAIN sequence : sequence[i][1] = generation
=============================================================================
