# cc-core: models, checks and proofs

cc-core is the engine of a visual node editor. It is written in C++, compiled to
WebAssembly and runs in a web worker. JavaScript calls its API to edit a graph
of function nodes, to build a pipeline from the graph and to step that pipeline.
This directory holds TLA+ modules that model the engine, TLC configurations that
check them on small instances, and proofs checked by TLAPS. `PROJECT.json` maps
every definition to the lines it models, and lists the runs, the mutants that
show each property can fail, the hazards and the theorems.

    tlc -config MCTopoSorter.cfg MCTopoSorter.tla      # one run
    tlapm TopoSorter_proofs.tla                        # proofs

## 1. Inventory

Paths are relative to `src/ujcore`. The program has one thread; an API call runs
to its end before the next begins. What interleaves are whole calls, the turns
of JavaScript between them, and the fulfilment of tasks handed to JavaScript.
What is hard is therefore not locking but sequences of calls: errors in the
middle of a batch that leave half of it done, redundant state kept in step by
hand, and a pipeline that is left and entered again in the middle of a stage.

| component | state | operations | talks to |
|---|---|---|---|
| **TopoSorter** `graph/TopoSorter.*` | `sortOrder`, `pos`, `inAdj`, `outAdj` | AddNode, RemoveNode, AddEdge, RemoveEdge | called by GraphBuilder; `sortOrder` is part of the graph state |
| **GraphBuilder** `graph/GraphBuilder.*`, `GraphUtils.cpp` | node, slot and edge infos and states, id counters | AddFuncNode, AddIONode, AddEdges, DeleteElements, ClearGraph, SetNodeEncodedData, SetSlotEncodedData, SetGraphInputs, ClearGraphInputs, ValidateEdge | FunctionRegistry, TopoSorter |
| **PipelineBuilder** `pipeline/PipelineBuilder.*` | none (fills a `GraphPipeline`) | RebuildV2 | reads the graph state, FunctionRegistry |
| **PipelineRunner** `pipeline/PipelineRunner.*`, `FuncExecutor.*` | the pipeline, the saved position, completed outputs | RebuildFromState, StepPipelineV2 | PipelineBuilder, the functions |
| **Function protocol** `function/` | the attributes of the slots | OnRun, GetInParam, GetOutParam; DONE, NO_DATA, AWAIT, ERROR | called by the runner |
| **Bitmap codec and await pool** `wasm/BitmapEncoding.cpp`, `wasm/pre_steps.js` | whether a function has a task out; the pool of tasks | decode, encode; addTask, releaseResult | JavaScript channels |
| **WebGPU functions** `wasm/wgpu/` | as above, and the parameters they hold | OnRun, capture | JavaScript channel, bitmaps |
| **Bitmap memory** `functions/attributes/BitmapAttr.h`, `wasm/JsBitmapPool.*` | bitmaps on the wasm heap, counted by references; an ImageData for each | create, take over, capture, free | the functions; JavaScript works on views of it |
| **API backends** `api_backends/` | SharedStore: one graph, one runner | the API calls; an error status is LOG(FATAL) | all of the above |
| **FunctionRegistry, AttributeTypeRegistry** | maps filled by static constructors | register, look up | constant once `main` runs |
| **FunctionLookup** | none | Fetch with filters and pages | FunctionRegistry |
| **IdUtils, IdGenerator** | none, a counter | EncodeStringId, DecodeStringId | ids shown to JavaScript |
| **Attribute codecs, basic and bitmap functions** `functions/` | none | encode and decode colors, floats and points; displace a point; draw and invert bitmaps | run by the runner |

What makes each one correct:

- TopoSorter: `pos` inverts `sortOrder`; the two adjacency maps agree; the order
  is topological; AddEdge refuses exactly the edges that close a cycle.
- GraphBuilder: nodes, slots and edges refer only to each other's living members;
  ids keep their meaning; the order covers the nodes and respects the edges;
  entered data is not lost; a validated edge can be added.
- PipelineBuilder and PipelineRunner: what is recorded as an output is what the
  graph computes; SUCCESS is complete; a complete graph of which no function
  refuses an input never ends the program and, with a cooperating coordinator and
  functions that do not fail, reaches SUCCESS; every task handed out is
  taken back, and no result is passed on that did not arrive.
- Bitmap memory: what JavaScript works on is alive, nothing is freed too early or
  too late, and the pictures that leave the pipeline are those that the graph
  computes, though JavaScript paints some of them between two steps and the heap
  may move under every view.
- Codecs and drawing: what comes out can be entered again; no pixel is written
  outside the bitmap or left out.

The hazards, each at the line where it bites, are in `PROJECT.json`.

## 2. The modules

| module | what it is | models |
|---|---|---|
| `TopoSortOps` | the sorter as a record, its operations as pure operators | `TopoSorter.cpp` |
| `TopoSorter` | one action per call, in any order | the class |
| `DagOrder` | abstract: nodes, acyclic edges, some order that respects them | what the class promises |
| `LinearExtension` | two definitions that both abstract modules share | |
| `GraphBuilder` | one action per operation, by any client, with the sorter inside | `GraphBuilder.cpp`, `GraphUtils.cpp`, setGraphMeta |
| `CarefulEditing` | the same actions for a client that avoids four gaps (section 4) | |
| `Wiring` | abstract: nodes, target slot -> source slot, an order | what an editor of graphs expects |
| `PipelineBuilder` | which graphs can be built, and the stages, as operators on a graph | `PipelineBuilder.cpp` |
| `PipelineRunner` | build, begin a step, one turn of the loop, fulfil a task | `PipelineRunner.cpp`, `FlowApiBackend.cpp`, `ParamAccessors.h`, `BitmapEncoding.cpp` |
| `AwaitPool` | abstract: a task is given, fulfilled or not, and collected or lost, once | what the runner and the pool owe each other |
| `BitmapRunner` | the runner with the memory of its bitmaps, the views and the work of JavaScript | `BitmapAttr.h`, `JsBitmapPool.cpp`, `WebGpuFunctions.cpp`, `BitmapEncoding.cpp` |
| `PipelineDriver` | that under the coordinator that `.github/fn-return.md` describes, and under two less patient ones | (external) |
| `GraphFamilies` | the graphs on which the pipeline runs are made | |
| `System` | the Graph API and the Flow API on one graph, with an editor that heeds their answers; instances of `CarefulEditing` and `PipelineRunner` that share the graph | `GraphApiBackend.cpp`, `FlowApiBackend.cpp`, `SharedStore` |
| `FunctionLookup` | registration before `main`, queries, pages read through getAvailableFuncs | `FunctionRegistry.cpp`, `FunctionLookup.cpp` |
| `IdUtils` | the codec of ids, for any word size and round function | `IdUtils.cpp` |
| `AttrCodecs` | the codecs of colors, floats and points, the displaced point | `ColorsAttr.cpp`, `FloatListAttr.cpp`, `Points2DAttr.cpp`, `BasicFunctions.cpp` |
| `Drawing` | what the bitmap functions write where, for any size | `BitmapFunctions.cpp` |
| `TopoSortLemmas`, `TopoSorter_proofs` | lemmas on the sorter's operators; its invariants, `DagOrder`, the moves that are made | |
| `GraphBuilder_proofs` | the invariants for any client and for a careful one, `Wiring`, and that the graphs built from are wired and ordered | |
| `PipelineRunner_proofs` | types and positions, the values of the attributes, complete graphs, `AwaitPool` | |
| `PipelineDriver_proofs` | the memory of bitmaps, and that the driver is a runner | |
| `System_proofs` | that the client of `System` is a careful one and its pipeline a runner, and what follows | |
| `FunctionLookup_proofs` | one place per uri, the filters, the pages | |
| `PureFunctions_proofs` | ids come back from their strings, drawing, the codecs of attributes | |
| `MC*` | constants for TLC | |

How state corresponds:

- **Sorter.** `sorter` is a record with the fields of the class. `pos` and the
  adjacency maps are functions whose domain is the set of known nodes. The two
  depth-first searches, which stop at the position of the other end, are least
  closures over the bounded adjacency (`ForwardDelta`, `BackwardDelta`); the
  order in which a search visits does not matter since `reorder` sorts both
  results by position.
- **Graph.** Each `std::map` is a function. A slot id is a pair of node and name.
  `ok` is the status of the last call. AddEdges is a fold of `AddEntry` over the
  batch, so an error leaves the entries before it in place. Left out: labels,
  alphanumeric ids (a function of the id), and the generation counters, which no
  code changes.
- **Pipeline.** A stage is a sequence of executors, the node's own one last, and
  the attribute transfers made just before that one. The pointers in
  `stageSequence` are pairs of build number and node; a pointer of an earlier
  build dangles. The code holds pointers to the attributes of slot entries, the
  model names them `<<node, executor, slot>>`. Values are symbolic: a function's
  result is a record of the node, the slot and the arguments, so two values are
  equal only if they were computed in the same way. `saved` and `pos` count from
  1, the code from 0. The step is not one action: BeginStep sets `phase` to
  `"stepping"`, each turn of the loop is one `RunExecutor`, and no other action
  is enabled until the step ends. `"aborted"` is LOG(FATAL), `"undefined"` is a
  read of freed memory; both end the behaviour, which is why these runs do not
  check for deadlock.
- **Refused inputs.** The constant `Fatal` says over which value in which input a
  function ends the program: a payload that its decoder cannot parse or that fails
  one of its CHECKs (`ColorsAttr.cpp:99`, `FloatListAttr.cpp:45`, `Points2DAttr.cpp:42`,
  `BitmapEncoding.cpp:120`), and the palette without colors over which
  `draw-color-bands` divides by zero (`BitmapFunctions.cpp:127`). Which texts these
  are for colors, floats and points is the matter of `AttrCodecs`. An executor that
  finds such an input aborts, in its first run, as one that finds an attribute of
  another type does (`InputsOk`). A failed CHECK aborts and a division by zero traps;
  `json::parse` throws, which no caller in the repository catches, and is taken
  for the end of the program too. `NothingRefused` says of a graph that its data and
  the values it computes give no function such an input. Data that was entered for a
  slot is decoded, and may be refused, even where an edge delivers another value.
- **Failing functions.** A function that answers NO_DATA or ERROR leaves its
  attributes as they were, though some call GetOutParam before they fail. None that
  is registered gets that far: they fail only on a bitmap that is missing, and
  bitmaps arrive (`BitmapsArrive`).

- **Await pool.** `tasks` maps a task, named by the build, the node and the
  executor that asked, to `"pending"` or `"fulfilled"`. The refinement to
  `AwaitPool` maps a task that an executor has given and that is no longer in the
  pool to `"collected"` or `"lost"`, by whether the executor has its result.
- **Bitmaps.** `ref` says to which bitmap the storage of an attribute refers,
  `held` which ones the parameters kept by a waiting function refer to. `mem` is
  the bitmaps alive, each with its picture (a symbolic value, `Blank`, or
  `Spoiled`) and the heap its ImageData is a view of. `heap` counts how often the
  heap has grown; growing detaches every view made before, since emscripten
  replaces the buffer (`ALLOW_MEMORY_GROWTH`, `wasm/BUILD.bazel:77`). The heap may
  grow whenever a bitmap is allocated, and between two calls if the coordinator
  calls other functions of the program; other allocations inside a step are left
  out. `jobs` is what JavaScript is at work on: it takes the pixels it was lent
  (`JsTake`) and later writes its own or stores what it took (`JsFinish`), both
  only while no call is running. `assets` is what it has stored. A function makes
  one bitmap at most, as all in the code do. Memory that a job still views is not
  given out again, so a view of freed memory is seen as such (`ViewsAreLive`).
- **Codecs.** A JSON value is a record with its kind; a text is a sequence of
  digits. Floats are integers up to `FloatMax`, with one value that is not finite.
- **Drawing.** A bitmap is a function from offsets to the value of one channel, or
  `Garbage` where nothing was written. Writing outside the bitmap adds an offset to
  its domain.
- **System.** The variables are those of the two instances. A call of the Graph
  API is the action of GraphBuilder followed by `Answer`: if the status is not
  ok, `phase` becomes `"aborted"`, since the backend turns it into LOG(FATAL),
  and what the builder did before it failed stays done. Calls that only read are
  predicates that say whether they end the program. A build reads `Graph`, the
  maps as they are at the call; the pipeline keeps its copy in `built`.
- **Catalogue.** A uri is a sequence of numbers, ordered as a string is. `linked`
  is the set of registrations of the program, `pending` those whose constructor
  has not run. A page is a pair of offset and size; the sum of the two wraps at
  twice `HalfRange`, as a `size_t` of wasm does at 2^32, while the API takes `int32_t`,
  whose values go from `-HalfRange` to `HalfRange - 1`. A list of uris is given by the
  ranks of its members (`InOrder`), as the keys of the `std::map` are.
- **Ids.** A character is its position in the array of characters. `XorHalf`, the
  round function `F` and the round keys are constants.

## 3. The passing runs

| run | shows | size |
|---|---|---|
| `topo_sorter` | the sorter's invariants, that a call moves no node it need not move, and that the class implements `DagOrder` | 5 nodes, symmetric |
| `graph_any_client` | what holds for every client: slots match nodes, slots list only their own edges and at most one inwards, every living node has a place in the order, ids keep their meaning | 2 nodes, 2 edges, one function with an input, an output and a mutable slot |
| `graph_data` | with graph inputs and outputs and data: ValidateEdge foretells AddEdges; no edit loses data | 2 nodes, 1 edge |
| `careful_editing` | edges have their ends, the sorter mirrors the edges, the order respects them, and the state implements `Wiring` | 3 nodes, 2 edges |
| `pipeline` | outputs are what the graph computes, SUCCESS is complete, outputs only accumulate, complete graphs whose inputs no function refuses never abort, one task of the codec at most is out, and the runner with its pool implements `AwaitPool` | 2 builds of 180 graphs of up to 4 nodes, some with inputs that are refused |
| `pipeline_driver` | memory of bitmaps: no leak, no dangling view, a bitmap in every attribute of that type; the stored pictures are the right ones; if no function refuses what it gets, early and repeated steps end the program only when all outputs are there and, liveness, a complete graph reaches SUCCESS | the complete ones of the same graphs and 6 with WebGPU functions, 1 build, 3 coordinators, the heap grows twice |
| `system` | no call of a careful editor ends the program, what getGraph lists can be asked for, complete graphs build, only an input that is missing or refused ends the program in a step, and outputs are those of the last build however the graph was edited since | 7 edits, 3 nodes, 2 edges, 3 payloads, 1 build |
| `catalogue` | the catalogue does not depend on the order of registration, clashes are always found, filters are ANDed, pages tile the list | 5 registrations, with and without a clash; 4 bit integers |
| `pure_functions` | every id comes back from its string; what a graph output encodes is read back as it was, unless it is not finite; digits are channels; drawing stays inside the bitmap, bands cover it, inverting twice is the identity | 8 bit ids in base 3; all texts of colors in binary digits; lists of up to 2 floats or 1 point; bitmaps up to 4 x 4, 6 colors |

Why the bounds are enough to be interesting. Five nodes are the fewest for which
an affected region of `reorder` holds, besides the two ends of the new edge, a
node of each of the two searches and one of neither. Two nodes and two edge ids
give parallel edges, self loops, cycles, reuse of an id after deletion and after
ClearGraph, override ids behind and ahead of the counters, and batches that fail
in the first or the second entry. Three nodes give orders that must change.
The graphs of the pipeline runs are families: a chain of two functions in which
every second argument comes from an edge, from data, from both or from nowhere,
for each of 64 choices; drawings whose types fit or not, or that read an input
or a mutable slot; a drawing whose colors, whose own data for them, overridden by
the edge, or whose mutable slot is refused by a decoder (`bad`) or, decoded, by the
drawing (`empty`), in every combination; cycles, and an edge whose node is gone. Two
builds are needed
for anything that is left over from the first.

The three coordinators of `pipeline_driver` are chosen once, at the start. The
patient one steps when nothing is pending; the hasty one steps whenever it may,
so early steps, steps after SUCCESS and steps after an error are all there; the
busy one also makes the heap grow between steps. Two growths are the fewest with
which a view can be made between them. What is claimed differs: memory is sound
(`MemoryTypeOK`, `ViewsAreLive`, `BitmapsArrive`) for all three; the stored
pictures are right for the patient one and, in graphs without WebGPU functions,
for the hasty one, because a WebGPU function resumed early hands on what is not
painted yet; and a busy one may see the program end at a capture, since the
ImageData was detached (section 4). With two hexadecimal digits instead of
sixteen a channel has four values and every text of the length of a color can be
tried.

Seven edits are what it takes to connect an input to an output through a
function, enter data, build, and edit the graph again while the pipeline waits.
That a second build meets what the first left behind is the matter of `pipeline`
and `stale_sequence`; in `system` one build is enough, and a second would only
end in the undefined state of `stale_sequence`. A `HalfRange` of 8, four bits, holds
every offset and page size that matters for a list of five. In base 3 six digits
hold 729 values, the least power of 3 with six factors and enough for 256 ids as
62^6 is for 2^32.

The client of `System` is an assumption, stated in the module: it names only what
getGraph lists; it gives an id again only if that id is free and not above the
counter; it draws an edge only from an output, where validateEdge answers VALID
or WARN_DATA and no circle is closed; with a node it deletes the edges at it; it
does not call clearGraph. Each clause keeps it off a divergence of section 4 or
off an argument the API rejects by ending the program.

Each bound is a constant: `MaxNodeId` and `MaxEdgeId` bound the ids a call may
give out or take (32 bits in the code), `MaxBuilds` the number of builds,
`MaxEdits` the number of editing calls in `system`,
`Batches`, `Graphs`, `Metas`, `Requests` and `Queries` are finite sets of inputs.
`Fatal` is no bound but a set of inputs too: one payload that every decoder refuses
(`bad`) and one that makes an empty palette (`empty`), beside one or two good ones.

`MaxGrowths` bounds how often the heap grows, `MaxSize`, `MaxColors` and
`ChannelMax` the bitmaps, `HexBase` and `FloatMax` the codecs, `Documents` is the
finite set of data entered.

**Fairness.** Only `PipelineDriver` assumes any. Weak fairness of `RunLoop`: it is
the loop of a running call. Weak fairness of `JsWork`: JavaScript works off the
tasks of the await pool; this is the contract of a channel, outside this
repository. Weak fairness of `DriverStep`: the coordinator steps again when
the awaited task is done, as `.github/fn-return.md` describes ("re-invoke the same
function instance to let it continue and complete"). `Finishes` is claimed for the
patient coordinator and complete graphs whose functions neither fail nor refuse
what they get; with functions that answer NO_DATA or ERROR forever, or that end the
program, nothing of the kind holds.

## 4. What the code does not keep

Three runs look for, and find, a short behaviour in which the code does something
else than its comments say. The findings in `PROJECT.json` quote the lines.

| run | property | what happens |
|---|---|---|
| `order_after_clear` | OrderListsNodes | ClearGraph leaves the nodes in the sort order; the next build fails, and the API ends the program |
| `order_after_refusal` | OrderRespectsEdges | an edge refused by the sorter stays in the graph; after the cycle is opened the order ignores it |
| `stale_sequence` | SequenceIsOfLastBuild | a rebuild keeps the pointers to the freed stages |

The models follow the code in these points too, which no run is spent on:

- DeleteElements deletes a node and leaves its edges (`GraphBuilder.cpp:86`);
- after ERROR the position is not saved, and the next step repeats what is done
  (`PipelineRunner.cpp:125`);
- an unconnected input ends the program (`ParamAccessors.h:46`), where
  `.github/fn-return.md:16` has the function answer NO_DATA;
- a step after SUCCESS starts over with functions that think they are resumed: a
  bitmap codec asks for a task that is gone and answers ERROR
  (`BitmapEncoding.cpp:133`), a WebGPU function captures again;
- the WebGPU functions leave their task in the pool (`WebGpuFunctions.cpp:81`, a
  TODO) and are resumed whether it is fulfilled or not; they add it on the channel
  `"wgpu"` (line 37) and name the channel `"webgpu"` to the runner (line 79);
- `EmitBitmapFn` and `WebGpuDemoFn` write a rectangle and leave the rest of a new
  bitmap as the allocation found it (`BitmapFunctions.cpp:54`), though the first is
  described as "Emit a fixed bitmap value.";
- `draw-color-bands` divides by the number of colors (`BitmapFunctions.cpp:127`),
  which is 0 for an empty palette; wasm traps there;
- a color may end in characters that are no digits (`ColorsAttr.cpp:54`); an
  integer is refused where a float is expected (`FloatListAttr.cpp:56`), and a
  float that is not finite is written as null, which is refused too; what is
  refused ends the program, in the step that decodes it;
- a rebuild frees the bitmaps on which JavaScript is still at work
  (`WebGpuFunctions.cpp:29`); `ViewsAreLive` speaks of the tasks of the present
  build only;
- the id that is enciphered to zero is written as the empty string, not with six
  characters (`IdUtils.cpp:14`); it decodes all the same;
- the end of a page is `begin + pageSize` (`FunctionLookup.cpp:114`), which wraps
  for a page of the largest size; only a direct C++ caller can ask for one.

`CarefulEditing` is GraphBuilder for a client that keeps clear of the first two
runs and of dangling edges: it deletes the edges of the nodes it deletes, closes
no cycle, starts edges at slots that give a value, and does not clear the graph.
For that client `OrderRespectsEdges` and `EdgesAreMirrored` hold, and the order lists
exactly the nodes (part of `ImplementsWiring`), so nothing else is in the way.

## 5. What is proved

The theorems hold for every value of the constants that their assumptions allow:
any number of nodes, edges, builds and tasks, any registry, any graph. Each
invariant below is the inductive one of its module; what the runs check follows
from it.

**The sorter** (`TopoSortLemmas`, `TopoSorter_proofs`), for every set of nodes and
every sequence of calls: the sorter is well formed (`TypeCorrect`), `pos` and
`sortOrder` are inverse to each other (`PosInvertsOrderAlways`), the adjacency maps
agree (`AdjacencySymmetricAlways`), the order is topological
(`OrderIsTopologicalAlways`). `SorterInv` is the conjunction of the four, and none is
inductive alone: `reorder` keeps `pos` an inverse only if the positions it deals out
are those of the nodes it moves, which needs the searches to yield known nodes,
which needs the adjacency maps to be typed; RemoveNode keeps the maps typed only
because they are symmetric; the order stays topological only because the bounded
searches see every node they must, which needs the order to have been topological
before. For AddEdge: closures are least (`ClosureIsLeast`), and the search forward
from `v` bounded by the position of `u` finds all that `v` leads to in the affected
region (`ForwardDeltaFacts`, likewise backward). It meets the bound iff the new edge
closes a cycle (`SearchDecidesCycle`), and then taking the edge out again restores
the sorter (`RemoveUndoesInsert`). Otherwise the nodes found, those behind `u` first,
are dealt the same positions in ascending order (`MergeMoves`, `RepositionPermutes`).
A node found backward moves only towards the front, one found forward only towards
the end (`ShiftRegionMoves`), so no edge is turned around. Two more theorems rest on
this: the class implements `DagOrder` (`ImplementsDagOrderAlways`), and a node changes
its index only when the new edge forces it (`MovesAreForcedAlways`).

**The graph, for any client** (`GraphBuilder_proofs`): `GraphInv` is `TypeOK`,
`SlotsMatchNodes`, `SlotIndexSound` and `SorterInv`. Slots list only their own edges because
slots that are missing are never written to, which is `SlotsMatchNodes`; that in turn
needs the ids that are given out to be new. Each action also keeps the meaning of ids
and the data of slots, so the two action properties come with the invariant. AddEdges
is a recursion over the batch; the invariant of the loop, `BatchInv`, is shown by
induction over the entries done. `ValidateForetellsAlways` needs no more than `GraphInv`.

**The graph, for a careful client**: `CarefulInv` adds `EdgesAreMirrored` and `SourcesGive`
(edges leave output or mutable slots). The sorter forgets a pair when the slots of its
source list no other edge to the same node; that these are the right edges
(`DownstreamIsExact`) needs both. It yields `EdgesAreMirroredAlways`,
`OrderRespectsEdgesAlways` and the refinement `ImplementsWiringAlways`. The last section
carries the result to the pipeline: with the shapes of graph inputs and outputs and of
parameter lists (`IoShapes`) added, every graph such a client can hand to a build is
well formed, wired and ordered (`GraphIsWiredAlways`).

**The runner** (`PipelineRunner_proofs`), for every set `Graphs` of graph states, in the
sense of `IsGraphState`, and every assignment of outcomes, `Async` and `Gpu` functions:

- `OneTaskAwaitedAlways`, from `AwaitInv`: a task of this build is that of the saved
  position between two steps and of the present one during a step. It holds although
  an error does not save the position, because the task is released first.
- `RunnerTypeCorrect` and `SuccessIsCompleteAlways`, from `RunnerInv`. Besides types: nothing
  is built, or stages and attributes are those of `built` (`Loaded`); what lies before a
  position that was reached is of this build and recorded (`Reached`). After a rebuild
  the sequence still begins with dangling pointers; nothing behind the first of
  them is ever reached.
- `OutputsAreRightAlways`, from `ValuesInv`. `Values` is a recursion over the graph; it is
  unfolded by approximations that are exact up to a rank in the order (`ValuesUnfold`).
  What was run before the saved and the running position left the values of the graph
  in the attributes (`RanBefore`), the saved position is not ahead (`NotAhead`), payloads of
  decoders stay (`Preloaded`), nothing gets into a slot without supply (`Unsupplied`), and a
  function that waits goes on with the right value (`Resumable`). All are needed: after an
  error the stages between the saved position and the failure are run again on
  attributes that are already filled, and give the same values only since what they
  read was already right.
- `OutputsAccumulateAlways` (outputs are recorded again, with the same value), and
  `CompleteGraphsRunAlways` for pipelines without WebGPU functions (with one, a
  capture may fail, section 4): a stage finds all it reads, of the right type
  (`CompleteIsReadable`), and with the value that the graph gives it
  (`AcceptedArrives`, again from `ValuesInv`), so that a graph of which nothing is
  refused by its values is not refused anything when it runs, over any retries.
- `ImplementsAwaitPoolAlways`, without WebGPU functions: `PoolInv` says that nothing is
  handed over while something before it is not collected (`HandedOverInTurn`), that
  a task in the pool was handed over and has no result yet (`TasksOpen`), and that no
  stage of this build comes twice in the sequence (`PointersDiffer`).

The theorems on values and on the pool assume `GraphsFit`, those on accumulation
`GraphsOrdered` too: a graph that can be built is wired, no task-giving function is a
function node (`TasksFit`), and the graph is ordered if it has an output.
`GraphIsWiredAlways` shows the first and the last for what a careful client makes, the
proofs on the program all of it for an editor, and `MCPipelineRunner` has TLC check both on the families (`FamiliesFit`). `TasksFit` speaks of the
registered functions: in the program the functions that collect a result are the codecs of
graph inputs and outputs. `NamesAssumption`
says that `"unknown"`, the type of an attribute never set, is not a known type:
`AttributeDataTypeFromStr` has no such name.

**Bitmaps and coordinators** (`PipelineDriver_proofs`): every behaviour with bitmaps,
JavaScript and a coordinator is one of the runner (`DriverImplementsRunner`), so the
theorems on the runner hold there. `MemoryInv` adds to `RunnerInv` that what a task of this
build works on is held by the function that gave it (`Lent`), and that what has started
holds something. From it `MemoryTypeCorrect`: the bitmaps there are are exactly those
referred to, no leak and no dangling reference; and `ViewsAreLiveAlways`.

- `BitmapsArriveAlways`, from `ArrivesInv`: a transfer moves the type of an attribute and its
  reference together, and a function that gives a bitmap gives a new one. That the
  address of a new bitmap is in fact unused (`Fresh`) needs the references to be finitely
  many, so the invariant carries the finiteness of the attributes.
- `AbortsOnlyAfterAllAlways`, from `AbortInv`. Of what a complete graph can run, if no function
  refuses what it gets, only a capture ends the program, when the image of the bitmap is older than the heap. While a WebGPU
  function waits, a step goes on with it and nothing before it runs that could make the
  heap grow, so the image of its bitmap is up to date (`ImagesFresh`), provided that nothing
  was asked for ahead of the saved position (`NoneAhead`). The invariant claims both until
  every output is recorded; then the position is rewound and they may fail.
- `StoredIsRightAlways`, from `StoredInv`, speaks of coordinators under which the pictures are
  right (`Watched`): a patient one, and a hasty one without WebGPU functions. Tasks in the
  hands of JavaScript are those of the executor at which the next step goes on, and they
  see and make what they should (`JobsInTurn`, `JobIsRight`). Every bitmap shows the value of
  the attributes that refer to it (`PicturesRight`), except the one a WebGPU function is
  waiting for, to which only its own output refers and which will show that output
  (`PaintingRight`). Fulfilled encoders and recorded outputs have been stored (`AssetsRight`),
  and the coordinator never asks for anything ahead of its turn (`WayIsKept`). That
  attributes hold the values of the graph comes from `ValuesInv`; this invariant relates the
  pixels to them. Of an error of the patient coordinator nothing is said after it gave up
  (`StepsOn`), since it takes no further step.

The three assume `GraphsFit`. The last also assumes `BitmapsFit`, that no function gives two bitmaps
and that the only encoders to wait for JavaScript are those of bitmaps, which is so for all
that are registered (`BitmapEncoding.cpp`, `WebGpuFunctions.cpp`), and `NoResultIsNone`, that
`NoResult`, a model value in the runs, is no report of a step. `MCPipelineDriver` has TLC
check the first two on the families (`BitmapFamiliesFit`).

**The program as a whole** (`System_proofs`, with the last section of
`GraphBuilder_proofs`), for every registry, every bound and every set of stored counters:

- The client of `System` is an editor in the sense of `EditorNext`: each of its calls is one
  of a careful client, with an id that is new and within the counters and an edge that
  is accepted. `EditingInv` adds to `CarefulInv` what an editor also gives: no id is above its
  counter (`IdsCounted`), edges run from an output to another slot of its type
  (`EdgesFit`), functions are registered and hold no data at their outputs (`FunctionsFit`),
  and slots have the types of inputs, outputs and parameters. No call of an editor is
  refused (`EditorStep`), hence `EditsNeverAbortAlways`. The counters are needed: an override id
  above them would be given out again later, and that call would fail.
- `ListedIsAnsweredAlways`, from the equal domains of the maps, and
  `CompleteGraphsBuildAlways`: the slots exist with known types, the order lists the nodes
  there are, and the indexes of a slot are the edges at it.
- `EditorGraphs` are the graph states with all this; every graph the client can build is one
  (`GraphIsEditors`), and they fit what the runner's theorems suppose (`EditorGraphsFit`). An edit
  leaves the pipeline alone and a refusal would end the program, so the program is a runner
  on these graphs (`ImplementsRunner`): nothing the client does to the graph after a build
  reaches the pipeline.
- `OutputsOfTheBuildAlways` and `OnlyMissingInputsAbortAlways` follow from `ValuesInv` and
  `CompleteGraphsRunAlways`; a payload that is refused may be entered at any time, and
  the theorem says that a step ends the program over nothing but that, what a function
  refuses of the values computed, and inputs left without wire and data. It supposes no
  WebGPU functions, and both codecs for each
  type in use (`AllRegistered`), which `ColorsAttr.cpp`, `FloatListAttr.cpp`,
  `Points2DAttr.cpp` and `BitmapEncoding.cpp` register for every type that a parameter has of a
  function that is no codec.
- `Registry` stands here for the functions the client makes nodes of. `SystemAssumption` says
  that none of them collects a task: codecs are run for graph inputs and outputs and for
  entered data, and the client makes no function node of a codec. TLC evaluates
  `SystemAssumption`, and the hypotheses of the theorems (`TheoremsApply`), for the constants of
  the run.

**The catalogue** (`FunctionLookup_proofs`): `OnePlacePerUriAlways`, since what was
registered is in the registry with the place it came from first, while the program
runs (`CatalogueInv`). The other theorems need the order of uris: `Before` is a strict
total order (`BeforeTransitive`, `BeforeTotal`, by the first place where two strings
differ), so the ranks of the members of a finite set go from 0 up without a gap and
`InOrder` lists each member once, in order (`InOrderLists`). `MatchesAreWanted` says that the
tests of the loop, made one after the other on what the registry holds, keep the uris that
`Wanted` asks for by the registrations alone; it rests on the assumption that one place in the
code registers one spec under a uri (`IsProgram`), without which an ignored registration could be
missed. `NoWrap` shows that two numbers of the API never add up to more than a `size_t` holds, and
`FetchCuts` what a page is of the list of matches. `LookupInv` adds to `CatalogueInv` that the
last answer is that to the last query (`AnswerInv`), which is why the registry must not change
after `main` is entered, and that what the client put together is a cut of the list of matches
that ends where the last page ends (`PagesInv`). From it follow `LookupTypeCorrect`,
`FiltersAreAndedAlways` and, since a cut of a list in order leaves what comes before it and
what comes after it (`CutLeaves`), `PagesAreTheListAlways`.

**Ids** (`PureFunctions_proofs`): `RoundTripAlways`, every id decodes from its string, for every
word size, base, round keys and round function. The assumptions (`IdAssumption`) are
that six digits of the base are enough for a word and that `XorHalf` and `F` yield halves,
`XorHalf` cancelling itself. A round is undone by its inverse round whatever `F` is
(`RoundInverts`), so decryption undoes encryption (`DecryptInverts`). A word is the
sum of its six digits (`QuotientSteps`, `QuotientEnds`), so reading the digits
gives back the word, zero included, which has none (`CharsRoundTrip`).

**Drawing** (`PureFunctions_proofs`): `DrawingIsSoundAlways`, for every size of bitmaps, every
number of colors and every range of a channel. Places and offsets of a bitmap correspond one
to one (`OffsetOfPlace`, `PlaceOfOffset`), so a function that paints places inside the
rectangle writes inside the memory, each pixel from one place only (`FillWrites`). The
rectangle in the middle is inside (`RectInside`), each column is in exactly one band, also if
there are more bands than columns (`BandsPartColumns`), and a painting of all places leaves
nothing as the allocation found it (`FillCovers`). The invariant `DrawingInv` adds to the
property that the canvas is a bitmap whose pixels hold values of a channel or `Garbage`; without
that range the complement of the complement need not be the pixel (`InvertedTwice`).
`DrawingAssumption` says that `Garbage` is no value of a channel.

**Codecs** (`PureFunctions_proofs`): `CodecsAreSoundAlways`, for every base of the digits,
every greatest float and every set of documents. A digit is found by dividing by the base
again and again (`Shifted`), as the shifts of the code do, and no more than eight digits are ever
read, so all inductions are over a bounded index (`EightSteps`). The numbers before and after a
cut make up the number (`SumShifts`), what `std::from_chars` reads of well-formed digits is
their number (`ReadDigits`), so the digits of a color are read as that color
(`DigitsReadBack`), the short form being used exactly if the alpha is the greatest
(`ColorReadsBack`), and each pair of digits read is a channel (`ChannelsRead`). Floats and
points come back unless they hold what is not finite (`ItemReadsBack`). `CodecInv`: the
slot holds data that the decoders can look into, and what came out was written from
values of the type of the slot. It needs that what is decoded are values of that type
(`DecodedValues`): an accepted text of the length of a color is within 32 bits, however it ends.
`CodecAssumption` says that the client enters lists of JSON values (`IsDocument`) and that
`Refused`, a model value in the runs, is no value of an attribute.

The three specifications here, of ids, drawing and codecs, are the parts of the
specification of the run `pure_functions`, which lets one of them move at a time.

Recursive functions (`AfterEntry`, `AfterRemoval`, `AfterTransfer`, `Values`) are CHOOSE
expressions; that they satisfy their equations is shown each time by an induction over
a bounded index (`BoundedInduction`, from the well-ordering of the naturals), with functions
that agree with them up to that index.

**Only model-checked**: `Finishes`, since liveness under fairness and ENABLED are beyond the
proof system. What the theorems say of a recursion over data holds since these recursions
are over an index that is bounded by the data, as said above.

## 6. What is not modelled

- In the pipeline the values of slots are symbols; what the functions compute of
  them is modelled by itself, in `AttrCodecs` and `Drawing`. `EmitFloatFn` and
  `EmitPoint2DFn` return a constant. Bitmaps whose size in bytes exceeds an
  `int32_t` are left out, and so is a failed `_malloc`.
- The channels of the await pool and the coordinator are JavaScript outside this
  repository; `WebGpuTaskPoolInterface.ts` is an interface nothing here uses.
- The pool of native builds (`base/BitmapPool.cpp`) and `BackendRegistry`, which
  chooses between it and `JsBitmapPool` once, at the start. The map
  `activeBitmaps_` of JsBitmapPool, which is never filled.
- clearGraph in `System`: it is modelled and its effect found in `GraphBuilder`;
  after it neither a build nor getSlotStates may be called (section 4).
- IdGenerator, which no code of the program calls, and AttributeTypeRegistry,
  whose encoders and decoders none reads.
- Labels and descriptions of functions, beyond whether a text occurs in them.
- The first version of the pipeline (`PipelineFnNode`, `PipelineIONode`), which
  nothing calls, the API schemas, the entry point, build files and scripts.
- `.github/incremental-pipeline-plan.md` is a plan for code that does not exist.

## 7. Plan

In the order in which the pieces matter; all are done.

1. The sorter with its abstract specification, and its invariants proved.
2. GraphBuilder for any client and for a careful one, with `Wiring`.
3. PipelineBuilder as operators, PipelineRunner as a state machine.
4. The coordinator and liveness.
5. `System`: GraphBuilder and PipelineRunner composed through SharedStore, with
   the error policy of the API.
6. `FunctionLookup` with the registry, `IdUtils` and its proof.
7. `AwaitPool`, and the runner with its pool shown to implement it; `BitmapRunner`
   and `PipelineDriver` for bitmaps, WebGPU functions and the coordinators.
8. `AttrCodecs` and `Drawing` for the algorithms on plain data.
9. The proofs of section 5.
10. `System_proofs`: the theorems on both halves carried over to their composition.
11. The proofs about the catalogue and about plain data, and those about pictures,
    arrivals and early steps of the coordinators.

Left to a further step: a failed `_malloc`, and AttributeTypeRegistry once something
reads it.
