------------------------------ MODULE OcrEngine ------------------------------
(***************************************************************************)
(* One OCR engine of a production Runtime and the threads that call it.    *)
(*                                                                         *)
(* Several caller threads enter lw_ppocr_runtime_api.run / run_json        *)
(* ("run") or recognize_batch ("batch") on one runtime handle.  The engine *)
(* serialises them with run_mutex; the call that holds it detects, crops,  *)
(* classifies, and then recognises its crops with up to rec_concurrency    *)
(* worker threads that draw batches from an atomic counter living on the   *)
(* caller's stack.  Any stage, any worker and std::async itself may throw. *)
(*                                                                         *)
(* The control flow is the same in the four engine sources; the lines      *)
(* mapped are those of the OpenCV DNN Runtime.                             *)
(***************************************************************************)
EXTENDS Integers, Sequences, Functions

CONSTANTS
    Callers,        \* caller threads sharing the handle
    NoCaller,       \* run_mutex is free
    MaxItems,       \* bound: regions detected, or images in one batch call
    RecBatchSize,   \* config.rec_batch_size
    ClsBatchSize,   \* config.cls_batch_size
    RecConcurrency, \* config.rec_concurrency, the number of nets
    EnableCls,      \* config.enable_cls
    ShortOutput     \* may a model return fewer rows than it was given images?

ASSUME ConfigAssumption ==
    /\ NoCaller \notin Callers
    /\ MaxItems \in Nat
    /\ RecBatchSize \in Nat \ {0}
    /\ ClsBatchSize \in Nat \ {0}
    /\ RecConcurrency \in Nat \ {0}
    /\ EnableCls \in BOOLEAN
    /\ ShortOutput \in BOOLEAN

Workers == 1 .. RecConcurrency

(***************************************************************************)
(* A crop remembers the detected box (or the position in the caller's      *)
(* array) it was cut from, and whether the classifier has turned it.  A    *)
(* region pairs that box with what the stages wrote into it: the verdict   *)
(* of the classifier and the text.  Text is abstracted to the crop it was  *)
(* read from: {} is the empty string of a fresh region.                    *)
(***************************************************************************)
Crop    == [src : 1 .. MaxItems, rotated : BOOLEAN]
Region  == [src : 1 .. MaxItems, flipped : BOOLEAN, text : SUBSET Crop]

NewCrop(i)   == [src |-> i, rotated |-> FALSE]
NewRegion(i) == [src |-> i, flipped |-> FALSE, text |-> {}]

Stages == {"idle", "lock", "detect", "crop", "classify", "split", "launch",
           "join", "unwind", "unlock", "convert", "returned"}

\* The stages in which the caller is inside the lock_guard's scope.
Locked == {"detect", "crop", "classify", "split", "launch", "join", "unwind", "unlock"}

\* The stages in which Recognizer::Run's locals exist and tasks may be alive.
Recognizing == {"launch", "join", "unwind"}

VARIABLES
    run_mutex,   \* the caller that holds it, or NoCaller
    pc,          \* [Callers -> Stages]
    kind,        \* which entry point the caller is in
    due,         \* history: what the answer owes an item, images of the array or cut regions
    found,       \* regions returned by the detector / images in the array
    cursor,      \* the loop variable of the stage the caller is in
    crops,       \* std::vector<cv::Mat> crops
    regions,     \* result.regions / result.items
    sorted,      \* the sorted crop indices
    next_batch,  \* std::atomic<size_t> next_batch
    task,        \* state of worker w's std::async task
    batch,       \* the batch index the task last fetched
    status,      \* what the entry point returned
    result       \* {} for a null result pointer, {r} for a result r

frame == <<found, crops, regions, sorted>>
tasks == <<next_batch, task, batch>>
vars  == <<run_mutex, pc, kind, due, found, cursor, crops, regions, sorted,
           next_batch, task, batch, status, result>>

------------------------------------------------------------------------------
(* Batches of the sorted crops.                                            *)

\* batches.size()
BatchCount(n) == (n + RecBatchSize - 1) \div RecBatchSize

\* batches[b] is sorted[Begin(b)] up to, not including, sorted[End(n, b)]; positions
\* count from 0 in the code and from 1 here.
Begin(b) == b * RecBatchSize
End(n, b) == IF Begin(b) + RecBatchSize <= n THEN Begin(b) + RecBatchSize ELSE n

Slice(n, b) == Begin(b) + 1 .. End(n, b)

\* indices[k]: the crop that row k of batch b is made from (k counts from 1).
Index(c, b, k) == sorted[c][Begin(b) + k]

\* Row k of the model's input, hence of its output, for batch b.
Row(c, b, k) == crops[c][Index(c, b, k)]

WorkerCount(n) == IF RecConcurrency <= BatchCount(n) THEN RecConcurrency ELSE BatchCount(n)

Items(c) == 1 .. Len(crops[c])

------------------------------------------------------------------------------
Init ==
    /\ run_mutex = NoCaller
    /\ pc = [c \in Callers |-> "idle"]
    /\ kind = [c \in Callers |-> "run"]
    /\ due = [c \in Callers |-> {}]
    /\ found = [c \in Callers |-> 0]
    /\ cursor = [c \in Callers |-> 1]
    /\ crops = [c \in Callers |-> <<>>]
    /\ regions = [c \in Callers |-> <<>>]
    /\ sorted = [c \in Callers |-> <<>>]
    /\ next_batch = [c \in Callers |-> 0]
    /\ task = [c \in Callers |-> [w \in Workers |-> "none"]]
    /\ batch = [c \in Callers |-> [w \in Workers |-> 0]]
    /\ status = [c \in Callers |-> "none"]
    /\ result = [c \in Callers |-> {}]

Goto(c, s) == pc' = [pc EXCEPT ![c] = s]

\* The entry points null the output pointer and call the engine.  A caller's
\* array holds at least one image; how many regions an image has is up to Detect.
Call(c) ==
    /\ pc[c] = "idle"
    /\ Goto(c, "lock")
    /\ \/ kind' = [kind EXCEPT ![c] = "run"] /\ UNCHANGED <<found, due>>
       \/ /\ kind' = [kind EXCEPT ![c] = "batch"]
          /\ \E n \in 1 .. MaxItems : /\ found' = [found EXCEPT ![c] = n]
                                      /\ due' = [due EXCEPT ![c] = 1 .. n]
    /\ result' = [result EXCEPT ![c] = {}]
    /\ UNCHANGED <<run_mutex, cursor, crops, regions, sorted, tasks, status>>

\* Mutant: the engine is entered without the lock_guard.
LockUnguarded(c) ==
    /\ pc[c] = "lock"
    /\ run_mutex' = c
    /\ Goto(c, "detect")
    /\ UNCHANGED <<kind, due, cursor, frame, tasks, status, result>>

\* std::lock_guard<std::mutex> lock(impl_->run_mutex)
Lock(c) ==
    /\ pc[c] = "lock"
    /\ run_mutex = NoCaller
    /\ run_mutex' = c
    /\ Goto(c, "detect")
    /\ UNCHANGED <<kind, due, cursor, frame, tasks, status, result>>

\* detector.Run finds any number of boxes.  RecognizeBatch has no detector: it
\* clones the images and sizes result.items to match, so that item i is image i.
Detect(c) ==
    /\ pc[c] = "detect"
    /\ IF kind[c] = "run"
       THEN /\ \E n \in 0 .. MaxItems : found' = [found EXCEPT ![c] = n]
            /\ Goto(c, "crop")
            /\ UNCHANGED <<crops, regions>>
       ELSE /\ crops' = [crops EXCEPT ![c] = [i \in 1 .. found[c] |-> NewCrop(i)]]
            /\ regions' = [regions EXCEPT ![c] = [i \in 1 .. found[c] |-> NewRegion(i)]]
            /\ Goto(c, "classify")
            /\ UNCHANGED found
    /\ UNCHANGED <<run_mutex, kind, due, cursor, sorted, tasks, status, result>>

\* Mutant: the region is kept before its crop is known to be empty.
CropRegionFirst(c) ==
    /\ pc[c] = "crop"
    /\ cursor[c] <= found[c]
    /\ cursor' = [cursor EXCEPT ![c] = @ + 1]
    /\ regions' = [regions EXCEPT ![c] = Append(@, NewRegion(cursor[c]))]
    /\ \/ /\ crops' = [crops EXCEPT ![c] = Append(@, NewCrop(cursor[c]))]
          /\ due' = [due EXCEPT ![c] = @ \cup {cursor[c]}]
       \/ UNCHANGED <<crops, due>>
    /\ UNCHANGED <<run_mutex, pc, kind, found, sorted, tasks, status, result>>

\* One turn of the loop that cuts region `cursor` out of the page.  An empty crop
\* drops the region from both vectors.
CropRegion(c) ==
    /\ pc[c] = "crop"
    /\ cursor[c] <= found[c]
    /\ cursor' = [cursor EXCEPT ![c] = @ + 1]
    /\ \/ /\ crops' = [crops EXCEPT ![c] = Append(@, NewCrop(cursor[c]))]
          /\ regions' = [regions EXCEPT ![c] = Append(@, NewRegion(cursor[c]))]
          /\ due' = [due EXCEPT ![c] = @ \cup {cursor[c]}]
       \/ UNCHANGED <<crops, regions, due>>
    /\ UNCHANGED <<run_mutex, pc, kind, found, sorted, tasks, status, result>>

CropDone(c) ==
    /\ pc[c] = "crop"
    /\ cursor[c] > found[c]
    /\ cursor' = [cursor EXCEPT ![c] = 1]
    /\ Goto(c, "classify")
    /\ UNCHANGED <<run_mutex, kind, due, frame, tasks, status, result>>

\* Mutant: rotates images[batch] instead of images[begin + batch].
ClassifyBatchAtStart(c) ==
    /\ pc[c] = "classify"
    /\ EnableCls
    /\ cursor[c] <= Len(crops[c])
    /\ \E turned \in SUBSET {i \in Items(c) : cursor[c] <= i /\ i < cursor[c] + ClsBatchSize} :
          /\ regions' = [regions EXCEPT ![c] =
                [i \in Items(c) |-> IF i \in turned THEN [@[i] EXCEPT !.flipped = TRUE] ELSE @[i]]]
          /\ crops' = [crops EXCEPT ![c] =
                [i \in Items(c) |-> IF i + cursor[c] - 1 \in turned
                                    THEN [@[i] EXCEPT !.rotated = TRUE] ELSE @[i]]]
    /\ cursor' = [cursor EXCEPT ![c] = @ + ClsBatchSize]
    /\ UNCHANGED <<run_mutex, pc, kind, due, found, sorted, tasks, status, result>>

\* One turn of Classifier::Run's loop: crops cursor .. cursor + cls_batch_size - 1.
\* `turned` are those whose label is odd with a score above cls_threshold; a crop
\* the model returned no row for is not among them.
ClassifyBatch(c) ==
    /\ pc[c] = "classify"
    /\ EnableCls
    /\ cursor[c] <= Len(crops[c])
    /\ \E turned \in SUBSET {i \in Items(c) : cursor[c] <= i /\ i < cursor[c] + ClsBatchSize} :
          /\ regions' = [regions EXCEPT ![c] =
                [i \in Items(c) |-> IF i \in turned THEN [@[i] EXCEPT !.flipped = TRUE] ELSE @[i]]]
          /\ crops' = [crops EXCEPT ![c] =
                [i \in Items(c) |-> IF i \in turned THEN [@[i] EXCEPT !.rotated = TRUE] ELSE @[i]]]
    /\ cursor' = [cursor EXCEPT ![c] = @ + ClsBatchSize]
    /\ UNCHANGED <<run_mutex, pc, kind, due, found, sorted, tasks, status, result>>

ClassifyDone(c) ==
    /\ pc[c] = "classify"
    /\ EnableCls => cursor[c] > Len(crops[c])
    /\ cursor' = [cursor EXCEPT ![c] = 1]
    /\ Goto(c, IF crops[c] = <<>> THEN "unlock" ELSE "split")
    /\ UNCHANGED <<run_mutex, kind, due, frame, tasks, status, result>>

\* The orders std::sort can leave the n crops in, over their possible aspect ratios.
Orders(n) == Bijection(1 .. n, 1 .. n)

\* Recognizer::Run sorts the crops by aspect ratio and cuts the order in batches.
Split(c) ==
    /\ pc[c] = "split"
    /\ \E order \in Orders(Len(crops[c])) : sorted' = [sorted EXCEPT ![c] = order]
    /\ next_batch' = [next_batch EXCEPT ![c] = 0]
    /\ Goto(c, "launch")
    /\ UNCHANGED <<run_mutex, kind, due, found, cursor, crops, regions, task, batch, status, result>>

\* workers.push_back(std::async(...)).  The task may run at once.
Launch(c) ==
    /\ pc[c] = "launch"
    /\ cursor[c] <= WorkerCount(Len(crops[c]))
    /\ task' = [task EXCEPT ![c][cursor[c]] = "fetch"]
    /\ cursor' = [cursor EXCEPT ![c] = @ + 1]
    /\ UNCHANGED <<run_mutex, pc, kind, due, frame, next_batch, batch, status, result>>

LaunchDone(c) ==
    /\ pc[c] = "launch"
    /\ cursor[c] > WorkerCount(Len(crops[c]))
    /\ cursor' = [cursor EXCEPT ![c] = 1]
    /\ Goto(c, "join")
    /\ UNCHANGED <<run_mutex, kind, due, frame, tasks, status, result>>

\* Mutant: the counter is read but not advanced.
FetchOnlyLoads(c, w) ==
    /\ task[c][w] = "fetch"
    /\ task' = [task EXCEPT ![c][w] = "run"]
    /\ batch' = [batch EXCEPT ![c][w] = next_batch[c]]
    /\ UNCHANGED <<run_mutex, pc, kind, due, cursor, frame, next_batch, status, result>>

\* next_batch.fetch_add(1): the task leaves the loop once the batches are used up.
Fetch(c, w) ==
    /\ task[c][w] = "fetch"
    /\ next_batch' = [next_batch EXCEPT ![c] = @ + 1]
    /\ IF next_batch[c] < BatchCount(Len(crops[c]))
       THEN /\ task' = [task EXCEPT ![c][w] = "run"]
            /\ batch' = [batch EXCEPT ![c][w] = next_batch[c]]
       ELSE /\ task' = [task EXCEPT ![c][w] = "ended"]
            /\ UNCHANGED batch
    /\ UNCHANGED <<run_mutex, pc, kind, due, cursor, frame, status, result>>

\* The row counts a model may return for batch b: one row per image, or fewer
\* when ShortOutput (the loop stops at the smaller of the two).
RowCounts(c, b) ==
    LET size == End(Len(crops[c]), b) - Begin(b)
    IN IF ShortOutput THEN 0 .. size ELSE {size}

\* Mutant: row k goes to the k-th region of the batch, as in the classifier's loop.
StoredByPosition(c, b, count) ==
    [i \in Items(c) |->
        IF i - Begin(b) \in 1 .. count
        THEN [regions[c][i] EXCEPT !.text = {Row(c, b, i - Begin(b))}]
        ELSE regions[c][i]]

\* regions after RunBatch has stored `count` rows of batch b: row k goes to
\* regions[indices[k]], the others keep their empty text.
Stored(c, b, count) ==
    [i \in Items(c) |->
        IF \E k \in 1 .. count : Index(c, b, k) = i
        THEN LET k == CHOOSE k \in 1 .. count : Index(c, b, k) = i
             IN [regions[c][i] EXCEPT !.text = {Row(c, b, k)}]
        ELSE regions[c][i]]

\* RunBatch on nets_[w] returns, and the task goes back for another batch.
RunBatch(c, w) ==
    /\ task[c][w] = "run"
    /\ \E count \in RowCounts(c, batch[c][w]) :
          regions' = [regions EXCEPT ![c] = Stored(c, batch[c][w], count)]
    /\ task' = [task EXCEPT ![c][w] = "fetch"]
    /\ UNCHANGED <<run_mutex, pc, kind, due, found, cursor, crops, sorted, next_batch, batch, status, result>>

\* RunBatch throws; the exception is kept in the task's future.
RunBatchThrows(c, w) ==
    /\ task[c][w] = "run"
    /\ task' = [task EXCEPT ![c][w] = "threw"]
    /\ UNCHANGED <<run_mutex, pc, kind, due, cursor, frame, next_batch, batch, status, result>>

\* Mutant: wait() instead of get(), so what the task threw is lost.
JoinWaits(c) ==
    /\ pc[c] = "join"
    /\ cursor[c] <= WorkerCount(Len(crops[c]))
    /\ task[c][cursor[c]] \in {"ended", "threw"}
    /\ cursor' = [cursor EXCEPT ![c] = @ + 1]
    /\ UNCHANGED <<run_mutex, pc, kind, due, frame, tasks, status, result>>

\* worker.get() of the next future in launch order; it rethrows what the task threw.
Join(c) ==
    /\ pc[c] = "join"
    /\ cursor[c] <= WorkerCount(Len(crops[c]))
    /\ \/ /\ task[c][cursor[c]] = "ended"
          /\ cursor' = [cursor EXCEPT ![c] = @ + 1]
          /\ UNCHANGED pc
       \/ /\ task[c][cursor[c]] = "threw"
          /\ Goto(c, "unwind")
          /\ UNCHANGED cursor
    /\ UNCHANGED <<run_mutex, kind, due, frame, tasks, status, result>>

\* A stage throws on the caller's own thread: image conversion, a model, an
\* allocation (also for the log line at the end), or std::async when no thread can
\* be started.
Throw(c) ==
    /\ pc[c] \in {"detect", "crop", "classify", "split", "launch", "unlock"}
    /\ Goto(c, "unwind")
    /\ UNCHANGED <<run_mutex, kind, due, cursor, frame, tasks, status, result>>

\* Alive tasks hold references to the locals of Recognizer::Run.
Alive(c, w) == task[c][w] \in {"fetch", "run"}

\* Mutant: the next loop starts from index -1.
LeaveRecognizerAtZero(c) ==
    /\ next_batch' = [next_batch EXCEPT ![c] = 0]
    /\ sorted' = [sorted EXCEPT ![c] = <<>>]
    /\ task' = [task EXCEPT ![c] = [w \in Workers |-> "none"]]
    /\ batch' = [batch EXCEPT ![c] = [w \in Workers |-> 0]]
    /\ cursor' = [cursor EXCEPT ![c] = 0]

\* The locals of Recognizer::Run die.  A task that were still alive would go on.
LeaveRecognizer(c) ==
    /\ next_batch' = [next_batch EXCEPT ![c] = 0]
    /\ sorted' = [sorted EXCEPT ![c] = <<>>]
    /\ task' = [task EXCEPT ![c] = [w \in Workers |-> IF Alive(c, w) THEN @[w] ELSE "none"]]
    /\ batch' = [batch EXCEPT ![c] = [w \in Workers |-> IF Alive(c, w) THEN @[w] ELSE 0]]
    /\ cursor' = [cursor EXCEPT ![c] = 1]

\* Every future has been read: Recognizer::Run returns.
JoinDone(c) ==
    /\ pc[c] = "join"
    /\ cursor[c] > WorkerCount(Len(crops[c]))
    /\ LeaveRecognizer(c)
    /\ Goto(c, "unlock")
    /\ UNCHANGED <<run_mutex, kind, due, found, crops, regions, status, result>>

\* Mutant: the threads are detached, nothing waits for them.
UnwindDetached(c) ==
    /\ pc[c] = "unwind"
    /\ LeaveRecognizer(c)
    /\ run_mutex' = NoCaller
    /\ found' = [found EXCEPT ![c] = 0]
    /\ crops' = [crops EXCEPT ![c] = <<>>]
    /\ regions' = [regions EXCEPT ![c] = <<>>]
    /\ status' = [status EXCEPT ![c] = "ERROR"]
    /\ Goto(c, "returned")
    /\ UNCHANGED <<kind, due, result>>

\* The exception leaves the engine.  The vector of futures is the last local to be
\* built and the first to be destroyed, and a future of std::async blocks until its
\* task is over; then the lock_guard goes, and Guard turns the exception into an
\* error status.
Unwind(c) ==
    /\ pc[c] = "unwind"
    /\ \A w \in Workers : ~Alive(c, w)
    /\ LeaveRecognizer(c)
    /\ run_mutex' = NoCaller
    /\ found' = [found EXCEPT ![c] = 0]
    /\ crops' = [crops EXCEPT ![c] = <<>>]
    /\ regions' = [regions EXCEPT ![c] = <<>>]
    /\ status' = [status EXCEPT ![c] = "ERROR"]
    /\ Goto(c, "returned")
    /\ UNCHANGED <<kind, due, result>>

\* Mutant: the lock outlives the engine call.
UnlockForgotten(c) ==
    /\ pc[c] = "unlock"
    /\ crops' = [crops EXCEPT ![c] = <<>>]
    /\ found' = [found EXCEPT ![c] = 0]
    /\ cursor' = [cursor EXCEPT ![c] = 1]
    /\ Goto(c, "convert")
    /\ UNCHANGED <<run_mutex, kind, due, regions, sorted, tasks, status, result>>

\* The engine call returns its regions by value and releases run_mutex.
Unlock(c) ==
    /\ pc[c] = "unlock"
    /\ run_mutex' = NoCaller
    /\ crops' = [crops EXCEPT ![c] = <<>>]
    /\ found' = [found EXCEPT ![c] = 0]
    /\ cursor' = [cursor EXCEPT ![c] = 1]
    /\ Goto(c, "convert")
    /\ UNCHANGED <<kind, due, regions, sorted, tasks, status, result>>

\* Mutant: the last item is left out.
NativeDropsLast(c) == [i \in 1 .. Len(regions[c]) - 1 |-> regions[c][i]]

\* Mutant: items without a text are left out.
NativeOnlyRead(c) ==
    LET read == SelectSeq(regions[c], LAMBDA region : region.text # {}) IN
    [i \in DOMAIN read |-> IF kind[c] = "batch" THEN [read[i] EXCEPT !.src = i] ELSE read[i]]

\* The C structure built from the regions.  The items of a batch carry their
\* position as source_index, whatever the engine put there.
Native(c) ==
    [i \in 1 .. Len(regions[c]) |->
        IF kind[c] = "batch" THEN [regions[c][i] EXCEPT !.src = i] ELSE regions[c][i]]

\* Mutant: the output pointer is set before the last copy can fail.
ConvertPublishesEarly(c) ==
    /\ pc[c] = "convert"
    /\ result' = [result EXCEPT ![c] = {Native(c)}]
    /\ \E s \in {"OK", "ERROR"} : status' = [status EXCEPT ![c] = s]
    /\ regions' = [regions EXCEPT ![c] = <<>>]
    /\ Goto(c, "returned")
    /\ UNCHANGED <<run_mutex, kind, due, found, cursor, crops, sorted, tasks>>

\* ToNativeResult / ToNativeRecognitionResult / ToJson, which may run out of memory.
Convert(c) ==
    /\ pc[c] = "convert"
    /\ \/ /\ result' = [result EXCEPT ![c] = {Native(c)}]
          /\ status' = [status EXCEPT ![c] = "OK"]
       \/ /\ status' = [status EXCEPT ![c] = "ERROR"]
          /\ UNCHANGED result
    /\ regions' = [regions EXCEPT ![c] = <<>>]
    /\ Goto(c, "returned")
    /\ UNCHANGED <<run_mutex, kind, due, found, cursor, crops, sorted, tasks>>

\* The caller frees what it was given and may call again.
Free(c) ==
    /\ pc[c] = "returned"
    /\ Goto(c, "idle")
    /\ status' = [status EXCEPT ![c] = "none"]
    /\ result' = [result EXCEPT ![c] = {}]
    /\ kind' = [kind EXCEPT ![c] = "run"]
    /\ due' = [due EXCEPT ![c] = {}]
    /\ UNCHANGED <<run_mutex, cursor, frame, tasks>>

------------------------------------------------------------------------------
\* The steps of a caller that run by themselves once it has the mutex.
CallerStep(c) ==
    \/ Detect(c) \/ CropRegion(c) \/ CropDone(c) \/ ClassifyBatch(c) \/ ClassifyDone(c)
    \/ Split(c) \/ Launch(c) \/ LaunchDone(c) \/ Join(c) \/ JoinDone(c)
    \/ Throw(c) \/ Unwind(c) \/ Unlock(c) \/ Convert(c)

TaskStep(c, w) == Fetch(c, w) \/ RunBatch(c, w) \/ RunBatchThrows(c, w)

CallAction(c) ==
    \/ Call(c) \/ Lock(c) \/ CallerStep(c) \/ Free(c)
    \/ \E w \in Workers : TaskStep(c, w)

Next == \E c \in Callers : CallAction(c)

Spec == Init /\ [][Next]_vars

(***************************************************************************)
(* The operating system runs every thread that can run, a model returns or *)
(* throws, and a free mutex is taken by one of the threads waiting for it. *)
(* std::mutex does not promise which one, and nothing makes a caller call  *)
(* or free.                                                                *)
(***************************************************************************)
Fairness ==
    /\ \A c \in Callers : WF_vars(CallerStep(c))
    /\ \A c \in Callers : \A w \in Workers : WF_vars(TaskStep(c, w))
    /\ WF_vars(\E c \in Callers : Lock(c))

FairSpec == Spec /\ Fairness

------------------------------------------------------------------------------
TypeOK ==
    /\ run_mutex \in Callers \cup {NoCaller}
    /\ pc \in [Callers -> Stages]
    /\ kind \in [Callers -> {"run", "batch"}]
    /\ due \in [Callers -> SUBSET (1 .. MaxItems)]
    /\ found \in [Callers -> 0 .. MaxItems]
    /\ cursor \in [Callers -> Nat \ {0}]
    /\ crops \in [Callers -> Seq(Crop)]
    /\ regions \in [Callers -> Seq(Region)]
    /\ sorted \in [Callers -> Seq(Nat)]
    /\ next_batch \in [Callers -> Nat]
    /\ task \in [Callers -> [Workers -> {"none", "fetch", "run", "ended", "threw"}]]
    /\ batch \in [Callers -> [Workers -> Nat]]
    /\ status \in [Callers -> {"none", "OK", "ERROR"}]
    /\ result \in [Callers -> SUBSET Seq(Region)]

(* A net is not reentrant: however many calls arrive at once, no two tasks are *)
(* inside RunBatch on the same nets_[w].                                       *)
NetExclusive ==
    \A c, d \in Callers : \A w \in Workers :
        task[c][w] = "run" /\ task[d][w] = "run" => c = d

(* The tasks of a call write regions without a lock: the regions two of them   *)
(* may be writing at the same time are never the same.                         *)
Indices(c, w) == {sorted[c][p] : p \in Slice(Len(crops[c]), batch[c][w])}

WritesDisjoint ==
    \A c \in Callers : \A v, w \in Workers :
        task[c][v] = "run" /\ task[c][w] = "run" /\ v # w => Indices(c, v) \cap Indices(c, w) = {}

(* A task captures next_batch, batches, images and regions by reference: none  *)
(* is alive once the frame that holds them is gone, also when the call is left *)
(* by an exception of another task or of std::async.                           *)
TasksInsideFrame ==
    \A c \in Callers : (\E w \in Workers : Alive(c, w)) => pc[c] \in Recognizing

(* What a successful call hands out: one item for every image of a batch, at   *)
(* its position, or for every region a crop was cut of, in the order of the    *)
(* detector, and none else; each text was read from that item's own crop in    *)
(* the orientation the item reports; and none is missing unless the model      *)
(* returned too few rows.                                                      *)
OwnText(item) == item.text \subseteq {[src |-> item.src, rotated |-> item.flipped]}

Sources(r) == {r[i].src : i \in 1 .. Len(r)}

FaithfulResult(c, r) ==
    /\ \A i \in 1 .. Len(r) : OwnText(r[i]) /\ (ShortOutput \/ r[i].text # {})
    /\ \A i, j \in 1 .. Len(r) : i < j => r[i].src < r[j].src
    /\ Sources(r) = due[c]
    /\ kind[c] = "batch" => due[c] = 1 .. Len(r) /\ \A i \in 1 .. Len(r) : r[i].src = i

ResultFaithful ==
    \A c \in Callers : status[c] = "OK" =>
        \E r \in result[c] : result[c] = {r} /\ FaithfulResult(c, r)

(* A failed call hands out nothing the caller would have to free.              *)
ErrorHasNoResult == \A c \in Callers : status[c] # "OK" => result[c] = {}

(* No partial success: a call one of whose batches threw leaves recognition    *)
(* for an error, never for a result.                                           *)
FailureSurfaces ==
    [][\A c \in Callers :
          (\E w \in Workers : task[c][w] = "threw") /\ pc'[c] \notin Recognizing
              => status'[c] = "ERROR"]_vars

(* With calls waiting some call returns: callers and tasks never wait on each  *)
(* other in a circle.                                                          *)
WaitersServed == (\E c \in Callers : pc[c] = "lock") ~> (\E c \in Callers : pc[c] = "returned")

------------------------------------------------------------------------------
(***************************************************************************)
(* The inductive invariant: the mutex, and named parts about one call.     *)
(***************************************************************************)

\* The stages in which a call that has not failed holds the regions it is to answer.
Working == {"crop", "classify", "split", "launch", "join", "unlock", "convert"}

\* The caller inside the lock_guard's scope is the one that holds the mutex.
MutexHeld == \A c \in Callers : pc[c] \in Locked <=> run_mutex = c

Count(c) == Len(crops[c])

\* Which tasks exist in which stage: launched in order, joined in order.
TasksOfStage(c) ==
    /\ pc[c] = "split" => cursor[c] = 1
    /\ \A w \in Workers :
        /\ task[c][w] # "none" => pc[c] \in Recognizing /\ w <= WorkerCount(Count(c))
        /\ pc[c] = "launch" /\ w >= cursor[c] => task[c][w] = "none"
        /\ pc[c] = "launch" /\ w < cursor[c] => task[c][w] # "none"
        /\ pc[c] = "join" /\ w <= WorkerCount(Count(c)) => task[c][w] # "none"
        /\ pc[c] = "join" /\ w <= WorkerCount(Count(c)) /\ w < cursor[c] => task[c][w] = "ended"

Claimed(c, w) == task[c][w] \in {"run", "threw"}

\* A batch is fetched once; a task that ended has seen the counter run out.
Claims(c) ==
    \A w \in Workers :
        /\ Claimed(c, w) => batch[c][w] < next_batch[c] /\ batch[c][w] < BatchCount(Count(c))
        /\ task[c][w] = "ended" => next_batch[c] >= BatchCount(Count(c))
        /\ \A v \in Workers :
              Claimed(c, v) /\ Claimed(c, w) /\ v # w => batch[c][v] # batch[c][w]

\* Crop i is the crop of region i, turned as region i says.
Paired(c) ==
    /\ pc[c] \in {"idle", "lock", "detect", "convert", "returned"} => crops[c] = <<>>
    /\ pc[c] \in {"idle", "lock", "detect", "returned"} => regions[c] = <<>>
    /\ pc[c] \in {"split", "launch", "join"} => Count(c) # 0
    /\ pc[c] # "convert" =>
          /\ Len(regions[c]) = Count(c)
          /\ \A i \in Items(c) : /\ crops[c][i].src = regions[c][i].src
                                 /\ crops[c][i].rotated = regions[c][i].flipped

\* Regions keep the order in which they were found; a batch keeps every position.
InOrder(c) ==
    /\ \A i, j \in 1 .. Len(regions[c]) : i < j => regions[c][i].src < regions[c][j].src
    /\ pc[c] = "crop" =>
          kind[c] = "run" /\ \A i \in 1 .. Len(regions[c]) : regions[c][i].src < cursor[c]
    /\ kind[c] = "batch" => \A i \in 1 .. Len(regions[c]) : regions[c][i].src = i

\* There is a region for all that is due, from the moment it is.
Complete(c) ==
    /\ pc[c] = "idle" => kind[c] = "run"
    /\ kind[c] = "batch" /\ pc[c] \in {"lock", "detect"} => due[c] = 1 .. found[c]
    /\ kind[c] = "batch" /\ pc[c] \in Working => due[c] = 1 .. Len(regions[c])
    /\ kind[c] = "run" /\ pc[c] \in {"idle", "lock", "detect"} => due[c] = {}
    /\ pc[c] \in Working => Sources(regions[c]) = due[c]

\* The recogniser works on a permutation of the crops.
Sorted(c) ==
    pc[c] \in {"launch", "join"} \/ (\E w \in Workers : task[c][w] # "none")
        => sorted[c] \in Orders(Count(c))

\* Regions only ever hold the text of their own crop, and none before recognition.
TextsOwn(c) ==
    \A i \in 1 .. Len(regions[c]) :
        /\ OwnText(regions[c][i])
        /\ pc[c] \in {"crop", "classify", "split"} => regions[c][i].text = {}

HasText(c, i) == ShortOutput \/ regions[c][i].text # {}

\* The batches fetched, and neither in progress nor failed, have been stored.
BatchesStored(c) ==
    /\ pc[c] \in {"launch", "join"} =>
          \A b \in 0 .. next_batch[c] - 1 :
              (\A w \in Workers : Claimed(c, w) => batch[c][w] # b)
                  => \A p \in Slice(Count(c), b) : HasText(c, sorted[c][p])
    /\ pc[c] \in {"unlock", "convert"} => \A i \in 1 .. Len(regions[c]) : HasText(c, i)

\* Only a call that has returned has an answer.
Answered(c) ==
    /\ pc[c] = "returned" <=> status[c] # "none"
    /\ status[c] # "OK" => result[c] = {}

CallInv(c) ==
    /\ TasksOfStage(c) /\ Claims(c) /\ Paired(c) /\ InOrder(c) /\ Complete(c) /\ Sorted(c)
    /\ TextsOwn(c) /\ BatchesStored(c) /\ Answered(c)

IInv ==
    /\ TypeOK
    /\ MutexHeld
    /\ \A c \in Callers : CallInv(c)
    /\ ResultFaithful

------------------------------------------------------------------------------
\* The phase of a call that its caller can see.
Phase(c) == CASE pc[c] = "idle" -> "idle" [] pc[c] = "returned" -> "answered" [] OTHER -> "pending"

\* The images its caller is to be answered about: those of a batch.
Asked(c) == IF kind[c] = "batch" THEN due[c] ELSE {}

Service == INSTANCE OcrService WITH phase <- [c \in Callers |-> Phase(c)],
                                    asked <- [c \in Callers |-> Asked(c)]

(* Seen from the callers, an engine with its mutex, its batches and its worker *)
(* threads is a service that answers each call at one instant.                 *)
ImplementsService == Service!FairServiceSpec
==============================================================================
