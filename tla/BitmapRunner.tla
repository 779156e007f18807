---------------------------- MODULE BitmapRunner ----------------------------
(***************************************************************************)
(* PipelineRunner with the memory of the bitmaps it passes around          *)
(* (attributes/BitmapAttr.h, wasm/JsBitmapPool.cpp, BitmapFunctions.cpp)   *)
(* and with what JavaScript does to it between two calls of the program    *)
(* (BitmapEncoding.cpp, wgpu/WebGpuFunctions.cpp).                         *)
(*                                                                         *)
(* A bitmap is memory of the wasm heap, counted by the references that the *)
(* attributes and the parameters kept by a function have to it.  A task of *)
(* the await pool works on views of that memory, which keep nothing alive  *)
(* and are empty once the heap has grown, for the heap is built to grow    *)
(* (ALLOW_MEMORY_GROWTH) and takes a new buffer when it does.              *)
(***************************************************************************)
EXTENDS PipelineRunner

CONSTANTS
  Overdraw,      \* the members of Gpu that draw over their bitmap when resumed
  MaxGrowths,    \* bound on how often the heap grows
  Null,
  Blank, Spoiled   \* the picture of new memory, and one that is not what was asked for

ASSUME BitmapAssumption ==
  /\ Null \notin Nat
  /\ Overdraw \subseteq Gpu /\ MaxGrowths \in Nat
  /\ \A uri \in DOMAIN Outcomes : Outcomes[uri] = {"DONE"}

VARIABLES
  ref,      \* Storage::bitmap: attribute -> the bitmap it refers to, or Null
  held,     \* executor -> the bitmaps its InParam and OutParam refer to
  mem,      \* bitmap -> its picture, and the heap its ImageData is a view of
  heap,     \* how often the heap has grown
  jobs,     \* task that JavaScript works on -> what it was given
  assets    \* node of a graph output -> the picture JavaScript stored for it

bitmapVars == <<ref, held, mem, heap, jobs, assets>>
allVars == <<vars, bitmapVars>>

BitmapInit ==
  /\ Init
  /\ ref = EmptyMap /\ held = EmptyMap /\ mem = EmptyMap
  /\ heap = 0 /\ jobs = EmptyMap /\ assets = EmptyMap

\* The attributes, the functions and with them the bitmaps of the last build
\* are gone; JavaScript is not told.
BuildPipeline(g) ==
  /\ Build(g)
  /\ ref' = [k \in DOMAIN attrs' |-> Null]
  /\ held' = EmptyMap /\ mem' = EmptyMap
  /\ UNCHANGED <<heap, jobs, assets>>

----------------------------------------------------------------------------
(***************************************************************************)
(* The references of the running executor                                  *)
(***************************************************************************)

Bitmaps(slots) == {Key(x) : x \in {y \in DOMAIN slots : slots[y] = "bitmap"}}
Sources == Bitmaps(Executor.takes)
Products == Bitmaps(Executor.gives)    \* at most one

Passed == Deliver(ref)

\* GetOutParam gives each output a Storage of its own, whatever was in it.
Renewed ==
  [k \in DOMAIN ref |-> IF k \in {Key(x) : x \in DOMAIN Executor.gives} THEN Null ELSE Passed[k]]

\* The bitmaps kept alive by the references r and the parameters h.
Kept(r, h) ==
  (Entries(r) \cup UNION {{h[x].src, h[x].dst} : x \in DOMAIN h}) \ {Null}

Viewed == UNION {{jobs[t].src, jobs[t].dst} : t \in DOMAIN jobs} \ {Null}

\* createBitmap fills the Storage of a product.  Memory that is viewed is not
\* given out, so that a view of freed memory stays one.
Fresh ==
  LET taken == Kept(Renewed, held) \cup Viewed
  IN  CHOOSE a \in 1 .. Cardinality(taken) + 1 : a \notin taken

Produced == [k \in DOMAIN ref |-> IF k \in Products THEN Fresh ELSE Renewed[k]]

Painted(a, picture, image) ==
  [b \in DOMAIN mem \cup {a} |-> IF b = a THEN [picture |-> picture, image |-> image] ELSE mem[b]]

\* A new bitmap with an ImageData that is a view of the present heap, and one
\* without an ImageData that takes over memory already filled.
CreateNewBitmap(picture) == Painted(Fresh, picture, heap')
CreateAllocated(picture) == Painted(Fresh, picture, Null)

\* Mutant: the memory of a bitmap is never freed.
Settle_Leak(r, h, m) == ref' = r /\ held' = h /\ mem' = m

\* ~JsHeapBackedBitmap: what nothing refers to is freed.
Settle(r, h, m) ==
  /\ ref' = r /\ held' = h
  /\ mem' = [a \in Kept(r, h) |-> m[a]]

\* _malloc may let the heap grow.
Malloc == heap' \in heap .. (IF heap < MaxGrowths THEN heap + 1 ELSE heap)

\* The bitmap that is read, what it should show, and what does show.
Read == IF Sources = {} THEN Null ELSE Passed[CHOOSE k \in Sources : TRUE]
Expected == IF Sources = {} THEN Blank ELSE Transferred[CHOOSE k \in Sources : TRUE].value
SourcesAreRight == \A k \in Sources : mem[Passed[k]].picture = Transferred[k].value

Result == Written(Transferred)[CHOOSE k \in Products : TRUE].value

----------------------------------------------------------------------------
(***************************************************************************)
(* What a run of an executor does to the bitmaps                           *)
(***************************************************************************)

\* A function that computes at once, on a new bitmap.
ComputeAtOnce ==
  /\ Executor.uri \in DOMAIN Outcomes
  /\ \/ Products = {} /\ Settle(Renewed, held, mem) /\ UNCHANGED heap
     \/ /\ Products # {}
        /\ Malloc
        /\ Settle(Produced, held, CreateNewBitmap(IF SourcesAreRight THEN Result ELSE Spoiled))
  /\ UNCHANGED <<jobs, assets>>

Job(mode, src, dst, makes) ==
  [mode |-> mode, src |-> src, dst |-> dst, heap |-> heap', wants |-> Expected,
   makes |-> makes, seen |-> Null]

\* Mutant: a function keeps pointers to the pixels alone.
Hold_Output(src, dst) ==
  [x \in DOMAIN held \cup {Self} |-> IF x = Self THEN [src |-> Null, dst |-> dst] ELSE held[x]]

Hold(src, dst) ==
  [x \in DOMAIN held \cup {Self} |-> IF x = Self THEN [src |-> src, dst |-> dst] ELSE held[x]]

GiveJob(job) == jobs' = [t \in DOMAIN jobs \cup {Task} |-> IF t = Task THEN job ELSE jobs[t]]

\* A decoder has a picture loaded, an encoder lends its pixels to be stored.
StartCodec ==
  /\ Executor.uri \in Async /\ Self \notin DOMAIN started
  /\ UNCHANGED <<heap, assets>>
  /\ Settle(Passed, Hold(Read, Null), mem)
  /\ GiveJob(Job(IF Executor.type = "decode" THEN "load" ELSE "store", Read, Null, Blank))

\* Mutant: the decoder hands its pixels on but does not store the bitmap.
ResumeCodec_NoStore ==
  /\ Executor.uri \in Async /\ Self \in DOMAIN started
  /\ UNCHANGED <<jobs, assets, heap>> /\ Settle(Passed, held, mem)

\* Mutant: the pixels are copied through a view made before the allocation.
ResumeCodec_ViewFirst ==
  /\ Executor.uri \in Async /\ Self \in DOMAIN started
  /\ UNCHANGED <<jobs, assets>>
  /\ \/ /\ HasResult /\ Executor.type = "decode"
        /\ Malloc
        /\ Settle(Produced, held,
                  CreateAllocated(IF heap' = heap THEN started[Self] ELSE Blank))
     \/ /\ ~ (HasResult /\ Executor.type = "decode")
        /\ UNCHANGED heap /\ Settle(Passed, held, mem)

\* The loaded picture is copied into new memory.
ResumeCodec ==
  /\ Executor.uri \in Async /\ Self \in DOMAIN started
  /\ UNCHANGED <<jobs, assets>>
  /\ \/ /\ HasResult /\ Executor.type = "decode"
        /\ Malloc
        /\ Settle(Produced, held, CreateAllocated(started[Self]))
     \/ /\ ~ (HasResult /\ Executor.type = "decode")
        /\ UNCHANGED heap
        /\ Settle(IF HasResult THEN Renewed ELSE Passed, held, mem)

Unfinished(picture) == [unfinished |-> picture]

\* Mutant: the ImageData is made of the heap as it was before the allocation.
DispatchWork_ImageFirst ==
  /\ Executor.uri \in Gpu /\ Self \notin DOMAIN started
  /\ Malloc /\ UNCHANGED assets
  /\ Settle(Produced, Hold(Read, Fresh), Painted(Fresh, Blank, heap))
  /\ GiveJob(Job("paint", Read, Fresh,
                 IF Executor.uri \in Overdraw THEN Unfinished(Result) ELSE Result))

\* A WebGPU function lends the pixels it reads and those to be painted.
DispatchWork ==
  /\ Executor.uri \in Gpu /\ Self \notin DOMAIN started
  /\ Malloc /\ UNCHANGED assets
  /\ Settle(Produced, Hold(Read, Fresh), CreateNewBitmap(Blank))
  /\ GiveJob(Job("paint", Read, Fresh,
                 IF Executor.uri \in Overdraw THEN Unfinished(Result) ELSE Result))

Own == held[Self].dst

\* The rectangle drawn on the picture that JavaScript has painted.
DrawnOver(picture) ==
  IF Executor.uri \notin Overdraw \/ picture = Result THEN picture
  ELSE IF picture = Unfinished(Result) THEN Result ELSE Spoiled

IsCapture == Executor.uri \in Gpu /\ Self \in DOMAIN started

\* onCapture reads the ImageData made with the bitmap.
CanCapture == mem[Own].image = heap

CaptureWork ==
  /\ IsCapture
  /\ UNCHANGED <<heap, jobs, assets>>
  /\ Settle(Passed, held, Painted(Own, DrawnOver(mem[Own].picture), mem[Own].image))

RunOnBitmaps ==
  /\ RunExecutor
  /\ \/ phase' = "undefined" /\ UNCHANGED bitmapVars
     \/ phase' = "aborted" /\ (IsCapture => ~ CanCapture) /\ UNCHANGED bitmapVars
     \/ /\ phase' \notin {"aborted", "undefined"}
        /\ IsCapture => CanCapture
        /\ ComputeAtOnce \/ StartCodec \/ ResumeCodec \/ DispatchWork \/ CaptureWork

----------------------------------------------------------------------------
(***************************************************************************)
(* JavaScript, between two calls of the program                            *)
(***************************************************************************)

CanSee(a, job) == job.heap = heap /\ a \in DOMAIN mem

\* A job reads the pixels it was lent.
JsTake(t) ==
  /\ phase = "idle" /\ jobs[t].seen = Null
  /\ jobs' = [jobs EXCEPT ![t].seen =
                LET src == jobs[t].src
                IN  IF src = Null THEN jobs[t].wants
                    ELSE IF CanSee(src, jobs[t]) THEN mem[src].picture ELSE Spoiled]
  /\ UNCHANGED <<vars, ref, held, mem, heap, assets>>

\* It ends: pixels are painted or a picture is stored, and the task, if it is
\* still in the pool, is fulfilled.
JsFinish(t) ==
  LET job == jobs[t]
      paints == job.mode = "paint" /\ CanSee(job.dst, job)
  IN  /\ phase = "idle" /\ job.seen # Null
      /\ IF t \in DOMAIN tasks THEN Fulfil(t) ELSE UNCHANGED vars
      /\ mem' = [a \in DOMAIN mem |->
                   IF paints /\ a = job.dst
                   THEN [mem[a] EXCEPT !.picture = IF job.seen = job.wants THEN job.makes ELSE Spoiled]
                   ELSE mem[a]]
      /\ assets' = [n \in DOMAIN assets \cup (IF job.mode = "store" THEN {t[2]} ELSE {}) |->
                      IF job.mode = "store" /\ n = t[2] THEN job.seen ELSE assets[n]]
      /\ jobs' = [u \in DOMAIN jobs \ {t} |-> jobs[u]]
      /\ UNCHANGED <<ref, held, heap>>

----------------------------------------------------------------------------
(***************************************************************************)
(* Properties                                                              *)
(***************************************************************************)

\* The type invariant of the memory.
MemoryTypeOK ==
  /\ DOMAIN ref = DOMAIN attrs
  /\ Kept(ref, held) = DOMAIN mem
  /\ DOMAIN held \subseteq DOMAIN started
  /\ heap \in 0 .. MaxGrowths
  /\ \A a \in DOMAIN mem : mem[a].image \in 0 .. heap \cup {Null}
  /\ \A t \in DOMAIN jobs :
       /\ jobs[t].mode \in {"load", "store", "paint"}
       /\ jobs[t].heap \in 0 .. heap
  /\ DOMAIN assets \subseteq Nat

\* No task of the present build views memory that has been freed, whenever the
\* pipeline is stepped: what a function lends to JavaScript it keeps itself.
ViewsAreLive ==
  \A t \in DOMAIN jobs : t[1] = generation => {jobs[t].src, jobs[t].dst} \ {Null} \subseteq DOMAIN mem

\* Whoever finds an attribute of type bitmap finds a bitmap in it: the checks
\* hasBitmap and readBitmap of the functions never fail, however the pipeline
\* is stepped.
BitmapsArrive ==
  \A k \in DOMAIN attrs : attrs[k].dtype = "bitmap" <=> ref[k] # Null
=============================================================================
