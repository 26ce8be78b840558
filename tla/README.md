# lw.PPOCR.Inference in TLA+

A verification development for the native OCR SDK `lw.PPOCR.Inference`: TLA+ models of the
parts where threads, failures and lifetimes meet, TLC configurations that check them on small
instances, and TLAPS proofs about the core for every instance. File names below are relative to
the repository (`src/...` there), module names to this directory.

Contents: [the system](#1-the-system), [the models](#2-the-models),
[the runs](#3-the-runs), [fairness](#4-fairness), [the proofs](#5-the-proofs),
[disagreements found](#6-disagreements-found), [what is left out](#7-what-is-left-out),
[the plan](#8-the-plan), [how to run](#9-how-to-run).

## 1. The system

An application holds an `lw_ppocr_handle` through the C ABI of `ppocr_api.h`. A small **Loader**
(`src/loader/loader.cpp`) maps one **Runtime** library per engine (OpenCV DNN, ONNX Runtime /
DirectML, OpenVINO, TensorRT, or a stub), obtains its function table and forwards calls. A
Runtime holds one **engine**: detector, optional classifier, recogniser, each over inference
**sessions**. An **HTTP service** wraps one engine with cpp-httplib, in a console, under systemd
or under the Windows service manager; .NET and Python **bindings** wrap the C ABI.

| Component | State | Operations | Talks to | What is hard | What makes it correct |
|---|---|---|---|---|---|
| Engine: `*_engine.cpp`, `runtime_entry.cpp`, `runtime_result.hpp` | `run_mutex`; nets with their input buffers; per call: crops, regions, order of recognition, an atomic batch counter, one `std::future` per worker, the result | `run`, `run_json`, `recognize_batch`, free; inside them detect, crop, classify, recognise in batches | called by the Loader from any thread; starts `std::async` workers that write the caller's locals without a lock | callers against each other; workers against each other; an exception in any stage, any worker, or `std::async` itself; batches that do not divide the crops | no net used twice at once; no two tasks on one region; no task outlives the frame it captures; answers are complete and paired with their crop, or errors |
| Sessions: `*_session.cpp` | host and device buffers with their capacities, a CUDA stream; the provider flag `use_gpu` all ONNX Runtime sessions share; compiled models cached by path | open with fallback from GPU to CPU, run, grow buffers, destroy | vendor libraries; the constructor and destructor of the engine | a failing CUDA call half-way through a growth or a run; work an earlier run left on the stream; a fallback between the creation of two sessions; a constructor that throws in the middle | capacity describes the pointer; queued work stays inside its memory; a run's output is its own; the device is the one asked for, and the log says so; nothing outlives its environment |
| Loader: `loader.cpp` | `lw_ppocr_engine` (module, table, runtime handle); one thread-local error text; the system's reference count of each library | create, run, run_json, recognize, recognize_batch, capabilities, free, get_last_error, destroy | Runtime libraries through a table of functions | destroy on one thread while another runs code of the same library; failures at each step of a creation; two layers of error texts | library mapped while used; references balanced; each failure reported with its own text; no exception through the ABI |
| Runtime API table, stub Runtime | constant tables with sizes and versions; what the Runtime has allocated for the client | get_api, and each call and release through the table | Loader | an older or newer Runtime, a library that is none; a call that fails half-way; a release the table has no function for | only fields inside the table are read; published releases are accepted; what is allocated is what the client holds |
| HTTP service: `http_service.cpp` | the engine and `httplib::Server` as locals of `RunHttpServer`; `g_active_server`; service status; the pool's queue | start, listen, answer, stop, report; install and uninstall | Loader; cpp-httplib; signal, console and service-control handlers on other threads | stop requests at any instant; start-up and accept failures; kept-alive connections; the order of destruction | engine outlives its requests; STOPPED means released; a stop stops; results freed on each path |
| HTTP input: `base64.cpp`, `image_decoder.cpp`, the handlers | configuration with its limits | load configuration, read a request, decode Base64, decode the file, hand over | HTTP service, Loader | limits checked in several places in several integer types | what was accepted here is never refused further on; images arrive in order and at their size |
| Core helpers: `config_validation.cpp`, `image_ops.cpp`, `db_postprocessor.cpp` | none | validate, resize, order corners, sort in reading order, decode CTC | engine | overflow, rounding, a comparator that is not transitive | what is accepted is addressable; shapes fit the models; boxes clockwise, pages in reading order |
| Model manifest: `model_manifest.cpp` | none | parse, validate | engine creation | combinations of fields, two stages that name one file | engines are built from what is complete only |
| .NET binding: `OcrEngine.cs`, `NativeMethods.cs` | field `handle`, `SafeHandle`'s reference count | construct, Run, RecognizeBatch, Dispose | Loader | Dispose against Run, Dispose against Dispose, exceptions between acquiring and releasing | destroy once, alone, and in the end |
| Python binding, samples, scripts, CI | a handle | sequential wrappers | Loader | — | — |
| Vendored libraries | cpp-httplib's `Server`, `ThreadPool` | listen, stop, keep-alive | HTTP service | see HTTP service | see HTTP service |

How they interact: calls down the chain binding → Loader → Runtime entry → engine are
synchronous on the caller's thread. Concurrency comes from the caller's threads (the API
allows concurrent calls on one handle, and documents that destroy is not concurrent:
`ppocr_api.h:37`), from the recogniser's `std::async` workers, from the HTTP worker pool, and
from stop handlers. Shared state is what the table lists; callbacks are the log callback of
the engine and the start handler of the server. Nothing is persisted and there is no
messaging, so crash recovery and lost messages do not arise; what can be lost is a stop request.

`PROJECT.json` lists each hazard at its line with the properties that catch it.

## 2. The models

### OcrEngine — calls on one engine

The core. Every caller runs through the stages of `pc`:
`idle → lock → detect → crop → classify → split → launch → join → unlock → convert → returned`,
with `unwind` for the exceptional way out of `Recognizer::Run`.
The lines mapped are those of the OpenCV DNN engine; the control of the other engines has the
same shape (mutex, stages, batches, counter, futures).

| Model | Code |
|---|---|
| `Call`, `Native`, `Convert`, `Unwind`, `Free` | `runtime_entry.cpp`: Guard's try block, `ToNativeResult`, its `catch`, and the free functions |
| `run_mutex`, `Lock`, `Unlock` | the `lock_guard` of `OpenCvOcrEngine::Run` and `RecognizeBatch` |
| `Detect`, `CropRegion`, `CropDone` | the detector's result; the loop that drops a region with its empty crop |
| `ClassifyBatch`, `ClassifyDone` | `Classifier::Run`, one batch of `cls_batch_size` per step, turning images in place |
| `Split`, `Launch`, `LaunchDone` | sorting by aspect ratio (any order: the ratios are data), batches, `std::async` per worker |
| `Fetch`, `RunBatch`, `RunBatchThrows` | the worker's loop: `next_batch.fetch_add(1)`, inference, write-back through `indices` |
| `Join`, `JoinDone` | `worker.get()`, which rethrows |
| `LeaveRecognizer` | the destructors of the futures, which wait for their tasks |
| `Throw` | any other statement under the lock that may throw |

A crop is abstracted to the box it was cut from and whether it has been turned; a text is the
crop it was read from. That is exactly what a pairing error changes. `ShortOutput` is the case
of a model that returns fewer rows than it was given images, which the code tolerates. `due` is
a history variable, which no guard reads: the positions of the caller's images, or the boxes a
crop was cut of. `ResultFaithful` holds an answer against it, so that an item which is missing,
added or moved is seen even where the vectors of the engine agree with each other.

### OcrService — what an engine promises

The abstract specification: a call is pending, then answered at one instant with an error or
with an ordered result, which has one item for each image that was asked about in a batch, at its
position; answers stay until they are freed; while calls wait, some call is answered. How many
regions a page has is the engine's to find out. `OcrEngine!ImplementsService` instantiates it with
`phase` as a function of `pc` (`idle`, `pending`, `answered`), `asked` as the images of a batch
(from `kind` and `due`), and `status`, `result` themselves.

### RuntimeLoader — libraries and error texts

Each entry point is split where another thread can matter: opening, reading the table,
entering and leaving the Runtime, reading the Runtime's error, closing, reporting. `refs` is
the operating system's count for each library. An error text is abstracted to *who wrote it in
which call of the thread*; that is enough to tell the right text from a stale one, from another
thread's, and from the general text the Loader uses when the Runtime left none. Unmapping a
library may or may not destroy its thread-local strings: both outcomes are in `Unmap`.
The clients keep the documented contract: an engine is destroyed when no call uses it and its
results are freed.

### HttpService — from start to stop

Three groups of actions: the thread in `RunHttpServer` (`MainStep`), the workers
(`WorkerStep`), and the stop handlers (`StopStep`). `server` and `engine` are its two locals,
destroyed in reverse order by `Destroy`. The parts of cpp-httplib that decide the shutdown are
modelled from its vendored source: `is_running_`, `svr_sock_`, the accept loop, the pool's queue
and join, keep-alive with its count. Whether the process runs in a console or under the service
manager is settled in `Init` (`ServiceMode`): console handlers may run concurrently, the manager
delivers one control at a time and only while the service accepts it. A stop handler that uses
the server after its destruction is undefined behaviour (`TouchDeadServer`): it returns with
whatever it read, or the process dies.

### ServiceControl — installing and uninstalling

Extends `HttpService` by the process of `--install` or `--uninstall` at the other end of the
service manager. `CreateService` and `StartService` are `InstallService`; `OpenService`,
`QueryStatus`, `SendStop`, `StopSent`, `Poll` and `DeleteService` are `UninstallService` with
`StopServiceIfRunning`. The 120 polls are `MaxPolls`. A service that starts or stops refuses the
control (`SendStopFails`), one that takes longer to drain than the polls makes the command fail.

### HttpInput — from a request to the Loader

Composes `ApiValidation` and `Base64`. `LoadConfig` sets the limits; `Post` is the whole handler:
the body's size, the key, the JSON, the members, `DecodeBase64`, `DecodeImage`, the conversion to
`int32_t` (`ToInt32`, `Told`) and the Loader's own checks (`ApiValidation!Read`), with the HTTP
status of every early return (`Verdict`) and of every exception. `Answer` is the way back. The
library that reads an image file is external: `FileOf` says which file some bytes are. Clients of
the Loader that are no HTTP service take their steps of `ApiValidation` as before.

The exceptions of a handler, and what they are answered with:

| Exception | Answer |
|---|---|
| `json::parse` refuses the body | 400; but 500, from cpp-httplib and without a JSON body, when the message cites bytes that are no UTF-8: `dump()` of the answer throws inside the `catch` (`json = "unprintable"`) |
| `cv::imdecode` throws, which it does for headers that announce more than OpenCV takes, before `DecodeImage` counts pixels (`file.throws`; not on Windows) | 500 |
| an allocation fails: parsing, decoding, building the call or the answer | 500, at any request that reaches a handler and after any result |
| the engine's call failed | 500 |
| the result holds a text that is no UTF-8 | 400 |

### Base64 and OcrAlgorithms — pure definitions

`DecodeBase64` character by character (64 letters, padding, white space, anything else), with
its accumulator, its two limits and its checks at the end. `OcrAlgorithms` has the shapes given
to the models (`DetectionShape`, `RequiredWidth`, `BucketWidth`, `ProfileWidth`, `ScaledWidth`),
the corners of boxes (`OrderClockwise`, `BoxesOf`), the reading order (`Before`,
`SortReadingOrder`) and `CtcDecode`. Where the C++ standard leaves a result open (equal keys in
`std::sort`, a comparator that is no order in `std::stable_sort`) the definition is the set of
results. Ratios are rational, not floats. Behind the code's definitions both modules have what
they are measured by: `Encodes` (the encoding of RFC 4648, letter by letter, with white space put
in), `ReadInOrder` (row by row, and from left to right), `Collapse` and `IsSelection` (runs of a
label as one, then the labels that have an entry). `MCOcrAlgorithms` is a bench: it gives the
code's definitions inputs one at a time, and its invariants compare the results with these.

### EngineSetup — building and destroying an engine

One action per step of `Impl`'s constructor for DirectML, ONNX Runtime, OpenVINO and TensorRT:
`CreateEnvironment` (with `SelectProvider`), `LoadManifest`, one `Open...` per session, the
check of the TensorRT profile, the log line. Any step may throw; `unwind` then destroys what
exists in the reverse of the members' order, as it does for an engine that was complete.
`SessionOutcomes` is the fallback with its shared flag, `Compile` the cache that knows models by
their path only. A ready engine computes the shapes of its inputs with `OcrAlgorithms`.

### RuntimeTable — tables of functions across releases

A library is a record of what the Loader can find in it: version, size, null functions, sizes
of structures, fingerprint. `RuntimeApiConditions` and `RecognitionConditions` are the checks in
their order, evaluated up to the first that fails, so that `read` is the set of fields that were
really looked at; sizes count fields. `owned` is what exists on the Runtime's side, `held` what
the client was given: an allocation that throws after the other object was made would part
them, and so would a release through a table without the function for it. The clients keep the
documented contract: everything is freed before its engine is destroyed.

### ManagedEngine — a .NET object and its handle

`SafeHandle` (external; `GiveBack`, `DisposeHandle`) counts the owner's reference and one for
each native call. Threads construct, call and dispose in any order; `Dispose` reads the field
twice without a lock, as the code does. The last reference, wherever it is given back, enters
`lw_ppocr_destroy`.

### TensorRtSession — buffers and a stream

The worker in `Run` (`WorkerStep`) and the device (`DeviceStep`), which does the queued work
later. `capacity` and `pointer` are the session's fields, `memory` what CUDA has really
allocated, so that the first can be wrong about the second; `data` is the run whose data a
buffer holds. Every call may throw, with its work queued or not, and the next `Run` starts with
what is left on the stream (at most `MaxPending` pieces of work: a bound).

| Model | Code (`tensorrt_session.cpp`) |
|---|---|
| `Run`, `Need` | `SetDevice`, the shapes, the byte counts |
| `Ensure`: `Enough`, `FreeFails`, `AllocFails`, `Alloc` | `EnsureHostBuffer`, `EnsureDeviceBuffer`, on the four buffers in the order of `Growth` |
| `Fill`, `CopyToDevice`, `Infer`, `CopyToHost`, `Synchronize` | `memcpy`, the two `cudaMemcpyAsync`, `setTensorAddress` with `enqueueV3`, `cudaStreamSynchronize` |
| `Postprocessed` | the engine reads the output through the pointer it got |
| `WorkDone`, `DeviceFails` | CUDA (external) |

Three things are assumed of CUDA: a stream is in order; `cudaFree` and `cudaFreeHost` wait for
the device; an error of the device is returned by every later call. A run in the model that
fails to free memory is of the last kind.

### ApiValidation — what reaches a Runtime

`ValidateConfig` and `ValidateImage` as operators, with `required_size` reduced to the width of
`uint64_t` and the other products exact, as their C types make them; floats are told apart by
how they compare with 0 and 1, a NaN not at all. `Create` and `Read` are the Loader's calls of
them; all that fails behind them is `RUNTIME_ERROR`, since `RuntimeLoader` and `OcrEngine` model
it. `LastByte` is what `ToBgr` reads of a row.

## 3. The runs

| Run | Instance | Question and result |
|---|---|---|
| `engine` | 2 callers, ≤ 2 items, batches of 1, 2 nets, no classifier, fair | Nets exclusive, writes disjoint, tasks inside their frame, answers faithful (every item that is due, with its own text), errors without a result, failures surface; some waiting call is answered, and the engine implements `OcrService`, its liveness included. Holds. |
| `engine_wide` | 1 caller, ≤ 4 items, recogniser batches of 2, classifier batches of 3, 3 nets, short outputs | The last batch is short, the two batch sizes do not line up, a net stays idle: answers are still faithful, items without a text among them. Holds. |
| `loader` | 2 threads, 2 engines, 1 library, ≤ 3 references, ≤ 1 result per engine, allocation failures | Library mapped while used, references balanced, error texts right. Holds. |
| `loader_throws` | 1 thread, 1 engine | No C++ exception passes the ABI. **Violated**, see §6. |
| `http` | `ServiceControl`: console or service, 2 connections, 1 worker, 2 stops, ≤ 2 requests each, 1 poll, fair | Requests never outlive the engine; native results are freed; STOPPED, and "uninstalled", mean released; STOP_PENDING is never revoked; a stop that found the server running ends the process; an accepted connection is served; a service whose uninstallation timed out still stops. Holds. |
| `http_stop_lost` | 1 connection, 1 stop, fair | A Ctrl+C stops the service. **Violated**, see §6. |
| `managed_engine` | 4 threads, fair | Destroy is entered once, alone, after all results are freed; a disposed engine is destroyed. Holds. |
| `tensorrt_session` | tensors of ≤ 2 bytes, ≤ 3 pieces of work left behind | A failed growth leaves no capacity without memory; queued work stays inside its buffers; a returned output is the run's own. Holds. |
| `http_input` | words of 4 and 8 bits, ≤ 2 images, 2 pixels, 30 bytes | What any checks let through is read inside the caller's memory; the Loader never refuses what the service decoded; the images of a request arrive in order and at their size. Holds. |
| `setup` | 4 Runtimes, 7 device options, 1, 3 and 9 workers, packages with missing and shared files; the bench: ≤ 4 boxes, ≤ 5 steps, ≤ 6 characters and the encodings of ≤ 4 bytes | Devices as asked for; nothing outlives its environment; OpenVINO compiles for as many requests as there are workers; shapes fit the models; boxes clockwise, reading order, collapsed texts, exact Base64. Holds. |
| `table` | Runtimes of this, an older and a later release, the stub and 25 libraries with one fault; ≤ 2 of a kind held | The table is read inside its size; what is allocated is what is held; published releases fit, and an engine is for the backend asked for. Holds. |
| `api_thresholds` | 1 image | Thresholds between zero and one. **Violated**, see §6. |

Why the bounds are enough to be interesting. Two callers are the fewest that contend, and two
batches and two workers the fewest where one worker may run both batches or each worker one;
with four items, batches of two and three workers a worker is left without one, and a classifier
batch of three ends inside a recogniser batch. (The safety properties are proved for every
number of each, see §5.) With two engines of one library each of the threads can destroy one
engine, or fail to create it, while the other runs; `MaxRefs` is large enough never to refuse an
open that the two engines make. `round` in `RuntimeLoader` counts modulo 3, and a text survives
at most from one call of a thread to the next, so that an old text is never mistaken for a new
one. One worker and two connections make a queue; two requests on a connection exercise both the
kept-alive and the last one; with one poll a command gives up while the service drains, or finds
it stopped. Four threads on a managed engine are one in each of call, second call, Dispose and
second Dispose. In `TensorRtSession` two sizes are what a growth takes, and three pieces of work
are all that one failed run can leave; the next run queues its own behind them.

In `HttpInput` the words keep the ratio of the real ones: a product of two `int32_t` fits a
`uint64_t` and passes a 32-bit word; sizes on both sides of each limit are among the images, and
`3 * MaxPixels <= IntMax` is the relation between the real limit and `int32_t`
(`LimitsAssumption`). In `EngineSetup` nine workers are more than either cap (8 and 4) and three
fewer; crop widths lie on both sides of the first and the last bucket and of a profile;
`limit_side_len` is smaller than 32, a multiple of 32, and rounds up and down. In the bench three
boxes are the fewest for which the comparator is not transitive and the fourth may stand
anywhere among them; rectangles of many angles have corners one above another and reach over
every border of the image; five steps hold a blank between two equal labels with one on each
side. In `RuntimeTable` every length between the two published ones occurs.

Deadlock is checked in the engine, loader and table runs: a client can always call or free. It
is off in the HTTP runs, where the process ends, in `ManagedEngine`, where a disposed object is
never used again, in `TensorRtSession` and `EngineSetup`, whose objects are destroyed in the end,
and in `HttpInput`, where a service whose configuration is refused does not start.

Each property of a passing run has a mutant in `PROJECT.json`: a definition changed as a
plausible bug would change it (a batch counter that is read and not advanced, futures that do
not wait, a mutex kept by an exception, a library closed before its destroy function, a limit
that is not checked, an environment declared behind its sessions ...), which TLC finds to
violate it.

## 4. Fairness

* `OcrEngine`: weak fairness of each caller's and each task's steps: the system runs a thread
  that can run, and a model returns or throws. Taking the mutex is fair for the callers
  together, not for each: `std::mutex` promises no order, so a single caller may wait for ever
  and `WaitersServed` claims no more than that some call returns. Calling and freeing are the
  clients' choice and not fair.
* `HttpService`: the main thread's steps, a worker's steps and a stop handler's steps. A client
  need not connect (`Accept`) or send (`ReadRequest`), `accept` need not fail, nobody need stop
  the service. A connection whose client is silent is given up by a timeout, which is the
  fairness of `HangUp`.
* `ServiceControl`: the same for a service that has been started, and weak fairness of
  `ControlStep`: a command that runs goes on. Nobody has to issue one.
* `ManagedEngine`: a thread inside a method proceeds; nobody has to call anything.

## 5. The proofs

TLAPS proves for every value of the constants what the runs of §3 show on instances. All
safety invariants and action properties of the passing runs are theorems. Each module of proofs
states an inductive invariant as a conjunction of named parts, with lemmas for each part and group of actions, and then the theorems, in which PTL
combines initial states and steps.
What is assumed of constants is named in the module that declares them, and TLC evaluates it
in every run:

| Assumption | Says | Because |
|---|---|---|
| `ConfigAssumption` | batch sizes, sessions are positive | `config_validation.cpp`, `RecognitionConcurrency` |
| `LoaderAssumption`, `ServiceAssumption`, `PollAssumption`, `SessionAssumption` | bounds are naturals, the thread pool and tensors are not empty | bounds of the models |
| `WidthAssumption` | `uint64_t` holds a product of two `int32_t` | the widths of the types |
| `LimitsAssumption` | three times the most pixels a configuration allows fits into `int32_t` | `LoadConfig` refuses more |
| `RequestAssumption` | arrays are sequences, decoders report sizes in `uint32_t` | `image_decoder.cpp` |
| `LibraryAssumption` | a table has a size, and a Runtime that refuses other backends is for one | `runtime_api.h`, the `runtime_entry.cpp` files |
| `BenchAssumption` | bounds are naturals | bounds of the bench |
| `SetupAssumption` | sizes, limits and workers are positive, a checked `input_shape` has a width | `model_manifest.cpp`, `config_validation.cpp` |

### One engine

`OcrEngineProofs`, for any number of callers, items and nets and any batch sizes, under
`ConfigAssumption` alone:

| Theorem | Says |
|---|---|
| `Invariance` | `Spec => []IInv` |
| `TypeCorrect` | `Spec => []TypeOK` |
| `NetsExclusive` | `Spec => []NetExclusive` |
| `TasksStayInside` | `Spec => []TasksInsideFrame` |
| `NoWriteRace` | `Spec => []WritesDisjoint` |
| `ResultsFaithful` | `Spec => []ResultFaithful` |
| `ErrorsHaveNoResult` | `Spec => []ErrorHasNoResult` |
| `FailuresSurface` | `Spec => FailureSurfaces`, an action property |

The argument. None of the properties is inductive. `IInv` adds to `TypeOK` and
`ResultFaithful`:

* `MutexHeld` — a caller is between `detect` and `unlock` exactly when it owns the mutex.
  With `TasksOfStage` (tasks exist only while their call recognises) this gives `NetExclusive`.
* `TasksOfStage` — which tasks exist while they are launched, joined and unwound; after a
  complete join all have ended without throwing. It gives `TasksInsideFrame` and
  `FailureSurfaces`.
* `Claims` — a batch in progress or failed is below the counter, and no two tasks have the
  same one; a task that ended has seen the counter run out. With `Sorted` (the order is a
  permutation of the crops) and the arithmetic of slices, it gives `WritesDisjoint`.
* `Paired`, `InOrder` — crop *i* is the crop of region *i* and is turned as the region says;
  regions are in the order they were found.
* `Complete` — from the crop loop, or from `Detect` for a batch, until the answer, the regions are
  those of `due`; a batch has as many as it has images. It gives the count in `ResultFaithful`.
* `TextsOwn`, `BatchesStored` — a region holds only its own crop's text; a batch that was
  fetched, and is neither in progress nor failed, has all of its texts. At the end of the join
  every batch was fetched and none is in progress, so that every region has its text: with
  `Complete`, this is `ResultFaithful` one step before the answer is handed out.
* `Answered` — only a call that has returned has a status, and only an OK one a result.

The module has first the lemmas about the operators (slices cover and do not overlap,
permutations are injective) and the preservation of `TypeOK`, then the preservation of each part
by each action, then the theorems and the refinement below.

### Sessions

`TensorRtSessionProofs`, under `SessionAssumption` (a positive bound on sizes, any bound on the
work left behind):

| Theorem | Says |
|---|---|
| `SessionInvariance` | `Spec => []IInv` |
| `CapacitiesBacked` | `Spec => []CapacityBacked` |
| `WorkStaysInside` | `Spec => []WorkInsideBuffers` |
| `OutputsOwn` | `Spec => []OutputOfThisRun` |

`Seen` (a run has made large enough the buffers it has seen to) and `Backed` give that what is
queued fits when it is queued; `Freed` (no pointer, no memory) and the wait before a free give
that it still fits later: memory changes only under an empty stream, or where there was none
(`StreamKeepsOff`). `Carried` follows the run's data: the last pieces of the stream are the
run's own, in order, and those of them the device has done have moved its data on. Nothing an
earlier run left is behind them, so that an empty stream means that the output is this run's.

### Refinement

`OcrEngineProofs` also proves the safety half of `ImplementsService`: `EngineRefinesService` says
`Spec => Service!ServiceSpec`, under the mapping of §2 (`phase` from `pc`, `asked` from `due`). Initial states map to
initial states; `Call` is `Invoke` (its reset of the result pointer changes nothing, by
`Answered`), `Convert` is `Succeed` or `Fail`, `Unwind` is `Fail`, `Free` is `Release`, and all
other steps leave `phase`, `asked`, `status` and `result` as they are (`AskedStays`). That what
`Convert` hands out is among `Replies` is where `IInv` is needed: texts from `TextsOwn` and
`BatchesStored`, the order from `InOrder`, one item for each image from `Complete`, and at most `MaxItems` regions because their boxes differ (an injection into
`1 .. MaxItems`).

### The Loader

`RuntimeLoaderProofs`, for any number of threads, engines and libraries, under
`LoaderAssumption`:

| Theorem | Says |
|---|---|
| `LoaderInvariance` | `Spec => []IInv` |
| `NeverUnmappedInUse` | `Spec => []MappedWhileUsed` |
| `ReferencesAccountedFor` | `Spec => []ReferencesBalanced` |
| `ErrorTextIsOwn` | `Spec => []ErrorTextOfThisCall` |

`Balanced` counts, for each library, the engines whose handle leads to it and the calls that have
a reference of their own: creations past `LoadLibrary`, destructions before `FreeLibrary`. Both
sets are finite although the constants need not be, because only finitely many steps were
taken. A step changes the membership of one thread and one engine, so that each action comes
down to an equation over 0 and 1 (`BalancedStep`). `CallOK` says which function a thread is
in and that create and destroy have their engine to themselves (the contract of the C API),
from which a running call has an engine, the engine a reference, and the library is mapped.
`ErrorOK` follows a text from the Runtime's thread-local, through the local copy, to the
Loader's: nobody but the thread writes any of them, except that unmapping erases a
library's texts, which nobody in a call to that library can see happen. The exception of
§6.1 is in `Balanced` as `starved`: from then on there may be more references than owners, and
never fewer.

### The HTTP service

`ServiceControlProofs`, for any number of connections, workers, stop requests and polls, under
`ServiceAssumption` and `PollAssumption`:

| Theorem | Says |
|---|---|
| `ServiceInvariance` | `Spec => []IInv` (of `HttpService`) |
| `EngineIsThere` | `Spec => []EngineOutlivesRequests` |
| `ResultsAreFreed` | `Spec => []ResultsReturned` |
| `StoppedIsReleased` | `Spec => []StoppedMeansReleased` |
| `StopIsFinal` | `Spec => StopNotRevoked`, an action property |
| `CommandsAreClients` | `ControlSpec => Spec` |
| `ControlInvariance` | `ControlSpec => [](IInv /\ ControlInv)` |
| `UninstalledIsReleased` | `ControlSpec => []UninstalledMeansReleased` |

`Connections` is the heart: outside the loop and its drain no connection is owned by anybody.
It is kept because the thread leaves the drain only with an empty queue and idle workers. `Queue`
(queued connections are in the queue, each once) is what makes it inductive, `Locals` what makes
the engine alive until then. `Reports` says that nobody can ask for a stop before the start
handler has reported, from which a stop is not revoked. The commands install, query, stop and
delete around that; `CommandsAreClients` says that they do nothing to the service that
its own specification does not allow, so that all of the above holds of the composition.

### Images and their way in

`HttpInputProofs`, for every width of the C types, all limits a configuration may set and all
requests, under the assumptions of `ApiValidation` and `HttpInput`:

| Theorem | Says |
|---|---|
| `ImagesReadInside` | `Spec => []PixelsInside`, calls of the C API |
| `HttpInvariance` | `HttpSpec => []HInv` |
| `DecodedNeverRefused` | `HttpSpec => []LoaderNeverRefuses` |
| `ImagesArriveWhole` | `HttpSpec => []ImagesArrive` |
| `DecodedReadInside` | `HttpSpec => []PixelsInside` |

`ValidateImage` multiplies in `uint64_t`, and `RequiredExact` says that the product is exact; the
last pixel of a row ends inside the row (`RowInside`). In front of it, the service's own
limits imply that sizes and strides survive their conversion to `int32_t` (`LimitsFit`) and
that the Loader then has nothing to refuse (`DecodedIsAccepted`): `LoaderNeverRefuses`, so that a
call of the service's engine fails only where the Runtime did. It says nothing of the status a
client gets, for which there are the other causes of a 500 in §2. `Reading` says that the images
held are what the texts of the request in progress decode to. These five theorems hold for whatever
`DecodeBase64` returns; what it returns is the subject of the next section.

### Tables

`RuntimeTableProofs`, for any set of libraries, whatever is in their tables, under
`LibraryAssumption`:

| Theorem | Says |
|---|---|
| `TableInvariance` | `Spec => []IInv` |
| `RuntimeLosesNothing` | `Spec => []OwnedIsHeld` |
| `TableInUse` | `Spec => []TableInv` |
| `NoTableOverread` | `Spec => []TableReadInside` |
| `PublishedRuntimesFit` | `Spec => []ReleasesFit` |

`IInv` adds to `OwnedIsHeld` that a recognition is held only while the loaded library supports
recognition, so that the release finds its function, and that nothing is held without an engine.
`TableInv` adds that the library of an open engine is the one the configuration leads to, was
found complete, and has the backend: the checks made at creation are still true at each later
call. Complete means long enough for the fields of v1 (`CompleteTable`), and what a call reads
beyond those it reads after `RuntimeSupportsRecognition` looked at the length (`Respects`).

### Building an engine

`EngineSetupProofs`, for any packages, sizes and numbers of workers, under `SetupAssumption`:

| Theorem | Says |
|---|---|
| `SetupInvariance` | `Spec => []SInv` |
| `EnvironmentOutlives` | `Spec => []NothingOutlives` |
| `DevicesAreHonoured` | `Spec => []DeviceHonoured` |
| `RequestsReachWorkers` | `Spec => []RequestsForWorkers` |
| `ShapesAlwaysFit` | `Spec => []ShapesFit` |

`Alive`: past the manifest there is an environment, and before the detector no session.
`Selected` relates the one flag all ONNX Runtime sessions share to the sessions that exist:
as long as it wants the GPU none has fallen back, and a name saying CPU is true of all; a session
either leaves it or clears it (`OpenSelection`). `Shared`: a compiled recogniser has as many
requests as `RecognitionConcurrency`, and the constructor passes the recogniser with as many
sessions. `Widths`: the manifest's width is positive and, for TensorRT, not above the profile.
`ShapesFit` is then arithmetic over all naturals: a bucket is the least that fits (by well-founded
induction on `<`, lemma `Least`), a side rounded to 32 exceeds the limit by at most 16
(`DetectionSideFits`), and a crop at the model's own height is as wide as it was (`OwnWidth`).

### Algorithms

What the loops and sorts compute, for inputs of any length. The theorems on the bench are corollaries,
which say of the runs' properties that they hold for every bound. (`BenchSpec` is the bench's part
of `MCSpec`.)

| Theorem | Says |
|---|---|
| `AcceptedIsEncoded` | whatever `DecodeBase64` accepts is, white space apart, the encoding of its output, which is within the limit |
| `EncodedIsAccepted` | every encoding of bytes within the limit is accepted, with up to 16 characters of white space, and gives those bytes |
| `BenchTextsExact` | `BenchSpec => []Base64Exact` |
| `PagesReadInOrder` | every result of `SortReadingOrder` is in reading order |
| `BoxesStayClockwise` | every box `BoxesOf` makes of a rectangle inside the image has its corners, clockwise |
| `TextsAreCollapsed` | `CtcDecode` is the collapsed row without blanks and labels that have no entry |
| `BenchPagesRead`, `BenchBoxesClockwise`, `BenchTextsCollapsed` | `MCSpec => []ReadingOrder`, `[]BoxClockwise`, `[]TextCollapsed` |

The first three are in `HttpInputProofs`, the others in `EngineSetupProofs`. Induction is by the
least counterexample (`Least`): the first state of a loop that breaks the invariant has one before
it that does not. A recursive function is shown to exist in the same way (`RunExists`, `KeptIs`),
after which only its equations are used.

* Base64. `Reads` is the invariant of the loop: the symbols so far are letters and then
  padding, the output is the bytes of the letters (`ByteOf`), and `rest` is what the letters have
  beyond those bytes (`BitsLeft`). From there, and from what `WellPadded` asks in the end, it is
  arithmetic on groups of four letters and three bytes in either direction (`EndEncodes`,
  `EncodingHolds`). `Written` counts the symbols among white space. The 16 characters of slack are
  what the limit on the length of the text and the limit on the bytes are apart.
* Reading order. Neighbours are not inverted; that nobody further away is either needs `Before`
  to be transitive, which it is where rows are apart (`NotBeforeTransitive`). Without that the
  claim is about neighbours only, and more would be false.
* Corners. Of a rectangle turned by any angle (`Tilted`) the two leftmost corners are one of two
  pairs, whichever way `std::sort` leaves equal keys (`LeftPair`); both arrangements turn right at
  each corner (`TurnsRight`), and the second ordering behind the clamping finds them as they are.
* Text. A label appended to the collapsed row is appended to the selection from it exactly when
  it has an entry (`SelectionGrows`).

### Handles

`ManagedEngineProofs`, for any number of threads and from no assumption:
`HandleInvariance` (`Spec => []IInv`) and `DestroysAlone` (`Spec => []DestroyIsAlone`). `IInv` says
that the count is *the owner's reference + calls in progress* (`Counted`), that only one thread
knows the object until the constructor returns (`Private`), and that closing the handle makes
exactly one thread the one that destroys (`Once`). A closed handle has a count of zero, so that
nobody is in a native call and nobody can enter one: `AddRef` refuses it.

### Only model-checked

* Liveness: `WaitersServed`, `RunningServerStops`, `QueuedServed`, `TimedOutStillStops`,
  `DisposedIsDestroyed`, and `ImplementsService` as far as it is liveness. Liveness under fairness
  and `ENABLED` are outside the prover.
* The three runs that end in a counterexample (§6) show it on their instance.

## 6. Disagreements found

1. **A `std::bad_alloc` can pass the C ABI** (`loader_throws`). `lw_ppocr_run`, `_run_json`,
   `_recognize_batch` and `_get_capabilities` copy the Runtime's error text
   (`loader.cpp:210-226`) outside any `try`. `PROJECT_CONTEXT.md:106` says that no C++ exception
   may pass the DLL boundary. In `lw_ppocr_create` the same exception is caught, but past the
   point where the library would have been closed: one reference leaks, which is the exception
   `starved` in `ReferencesBalanced`.
2. **A stop request during start-up is swallowed** (`http_stop_lost`). The handlers are
   installed before the models are loaded and do nothing until `g_active_server` is set and
   the server runs; nothing remembers the request. `docs/linux-opencv.md:84` says that Ctrl+C
   stops the foreground service.
3. **A NaN passes for a threshold** (`api_thresholds`): `config_validation.cpp:56-61` refuses
   what is below zero or above one, and a NaN is neither; its error text says that thresholds
   must be between zero and one.

## 7. What is left out

Inside the modelled parts: the Loader's answer to a Runtime that returns OK without an engine, or
an error with one (`RuntimeTable!Create`; no Runtime of the repository does), logging and the log callback (a callback that re-enters the engine
would wait for itself under `run_mutex`; nothing documents it either way), timings, the
arithmetic on pixels and floats (contours, scores, expansion and perspective crops), the
contents of tensors and texts, the parsing of JSON and manifests, and the text of HTTP answers
and pages. Failure of any of them is kept as a nondeterministic outcome. In the loader, the
search for a library in the file system is success or failure; `get_version` and
`get_last_error` only copy. The `Run` of an ONNX Runtime or OpenVINO session is one call into the
vendor's library. Of the service manager's calls, a refused stop and a failing start are
modelled, others not.

The Python binding (a sequential wrapper), samples, scripts and vendored code other than the
part of cpp-httplib above have no state of this project's own.

What the models show that no document promises either way, and that is therefore no property:

* a second Ctrl+C during the drain fails an assertion of cpp-httplib in builds that have
  assertions: `Server::stop` finds `is_running_` set and the socket already taken
  (`http_service.cpp:716`, `TakeSocket` with `svr_sock` false);
* a stop handler may use the server after its destruction (`http_service.cpp:749`);
* uninstalling a service that is starting is refused, not delayed (`http_service.cpp:818`);
* a recognised text that is not UTF-8 is answered with 400, the client's fault
  (`http_service.cpp:580`);
* the reverse, a client's fault answered with 500: a malformed body whose parse error cites bytes
  that are no UTF-8, where writing the answer throws in the handler of the exception
  (`http_service.cpp:582`, `:661`), and an image whose header OpenCV refuses by throwing
  (`image_decoder.cpp:167`);
* OpenVINO compiles a model for every width beyond the last bucket that comes along
  (`openvino_engine.cpp:31`): how many there get to be is bounded nowhere;
* a box clamped to the image may be twisted or folded: `BoxClockwise` is about boxes inside it;
* under `auto` the log may name CUDA although a later session fell back to the CPU.

## 8. The plan

Done, in the order of importance in which they were planned: `OcrEngine`, `OcrService` and the
refinement, `RuntimeLoader`, `HttpService`, `ManagedEngine`, `TensorRtSession`, `ApiValidation`,
`RuntimeTable`, `EngineSetup`, `Base64`, `OcrAlgorithms`, `HttpInput`, `ServiceControl`; and the
proofs of §5, which cover every module whose state changes and the algorithms.

Left: the log callback in `OcrEngine`, once its contract says what it may call.

Compositions: `HttpService` is composed with the commands (`ServiceControl`), the HTTP input with
the Loader's checks (`HttpInput`). `OcrEngine` under `RuntimeLoader`'s contract (a handle destroyed
when unused) and `HttpService` over `OcrService` are stated through that abstract service, not by
multiplying the state spaces.

## 9. How to run

    tlc -workers 2 -config MCOcrEngine.cfg MCOcrEngine
    tlc -workers 2 -config MCServiceControl.cfg MCServiceControl
    tlapm OcrEngineProofs.tla; tlapm TensorRtSessionProofs.tla; tlapm ManagedEngineProofs.tla
    tlapm RuntimeLoaderProofs.tla; tlapm RuntimeTableProofs.tla; tlapm ServiceControlProofs.tla
    tlapm HttpInputProofs.tla; tlapm EngineSetupProofs.tla

Each `MC*.tla` extends a module and adds the sets of inputs and symmetries it needs; each `.cfg`
gives the constants; `PROJECT.json` pairs them. `MCEngineSetup` also runs the bench of
`MCOcrAlgorithms`. The largest run is `loader`, about two million states.
