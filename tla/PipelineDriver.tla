--------------------------- MODULE PipelineDriver ---------------------------
(***************************************************************************)
(* BitmapRunner in the hands of its coordinator, JavaScript outside this   *)
(* repository.  The one the code is written for (.github/fn-return.md) is  *)
(* patient: it builds the pipeline of a graph once, steps it, waits for    *)
(* the awaited task after a PARTIAL result and steps again.  A hasty one   *)
(* steps whenever it can, and a busy one also calls other functions of the *)
(* program in between, which allocate memory.                              *)
(***************************************************************************)
EXTENDS BitmapRunner

VARIABLE coordinator

driverVars == <<allVars, coordinator>>

DriverInit == BitmapInit /\ coordinator \in {"patient", "hasty", "busy"}

DriverBuild ==
  /\ generation = 0 /\ \E g \in Graphs : Complete(g) /\ BuildPipeline(g)
  /\ UNCHANGED coordinator

\* A first step, and one after every pause once nothing is pending.
MayStep ==
  /\ result # NoResult => result.status = "PARTIAL"
  /\ \A t \in DOMAIN tasks : tasks[t] = "fulfilled"

DriverStep ==
  /\ generation = 1
  /\ coordinator = "patient" => MayStep
  /\ BeginStep /\ UNCHANGED <<bitmapVars, coordinator>>

RunLoop == RunOnBitmaps /\ UNCHANGED coordinator

JsWork == (\E t \in DOMAIN jobs : JsTake(t) \/ JsFinish(t)) /\ UNCHANGED coordinator

\* Another call of the program makes the heap grow.
OtherCall ==
  /\ coordinator = "busy" /\ phase = "idle" /\ heap < MaxGrowths
  /\ heap' = heap + 1
  /\ UNCHANGED <<vars, ref, held, mem, jobs, assets, coordinator>>

DriverNext == DriverBuild \/ DriverStep \/ RunLoop \/ JsWork \/ OtherCall

\* The loop of a step runs on, JavaScript works off its tasks, and the
\* coordinator comes back.
DriverSpec ==
  /\ DriverInit /\ [][DriverNext]_driverVars
  /\ WF_driverVars(RunLoop) /\ WF_driverVars(JsWork) /\ WF_driverVars(DriverStep)

UsesGpu(g) == \E n \in DOMAIN g.nodeInfos : g.nodeInfos[n].uri \in Gpu

\* What the functions are like: none gives two bitmaps, and the encoders that
\* wait for JavaScript are those of bitmaps.
BitmapsFit ==
  /\ \A g \in Graphs : \A n \in DOMAIN g.nodeInfos : \A y, z \in Entries(g.nodeInfos[n].outs) :
       (g.slotInfos[<<n, y>>].dtype = "bitmap" /\ g.slotInfos[<<n, z>>].dtype = "bitmap") => y = z
  /\ \A dtype \in KnownDtype : <<"$OUT", dtype>> \in Async => dtype = "bitmap"

\* For a reported output of bitmaps JavaScript has stored the picture that the
\* graph computes: for a patient coordinator always, for a hasty one in graphs
\* without WebGPU functions, whose bitmaps may be read before they are painted.
StoredIsRight ==
  (generation = 1 /\ (coordinator = "patient" \/ (coordinator = "hasty" /\ ~ UsesGpu(built)))) =>
    \A n \in DOMAIN completed :
      (stages[n].executors[1].uri \in Async /\ phase \in {"idle", "stepping"}) =>
        n \in DOMAIN assets /\ assets[n] = Values(built)[<<n, "$in">>]

\* Stepping too early, or once more after the end, ends the program only when
\* there is nothing left to report, in a complete graph of which no function
\* refuses what it gets.
AbortsOnlyAfterAll ==
  (generation = 1 /\ phase = "aborted" /\ coordinator # "busy") =>
    (NothingRefused(built) => DOMAIN completed = GraphOutputs(built))

\* The pipeline of a complete graph whose functions neither fail nor refuse
\* what they get reaches the end for a patient coordinator, WebGPU functions or
\* not: no position is lost over a pause, no resumed function asks twice, no
\* captured image is stale.
Finishes ==
  (generation = 1 /\ coordinator = "patient" /\ NothingRefused(built)) ~>
     (phase = "idle" /\ result # NoResult /\ result.status = "SUCCESS")
=============================================================================
