--------------------------- MODULE TensorRtSession ---------------------------
(***************************************************************************)
(* One inference session of the TensorRT Runtime: pinned host buffers and  *)
(* device buffers that grow on demand, and a CUDA stream on which a run    *)
(* queues its copies and its inference and then waits for them.            *)
(*                                                                         *)
(* A run that throws half-way leaves what it has queued behind: the device *)
(* may still be working on it when the next run grows, refills or reads    *)
(* the same buffers.  Nothing but the order of the stream, and the         *)
(* capacities the session keeps beside its pointers, protects that run.    *)
(*                                                                         *)
(* CUDA is external.  A call returns at once, in order, and the device     *)
(* does the work later; freeing memory waits for the device; and an error  *)
(* of the device is returned by every later call.                          *)
(***************************************************************************)
EXTENDS Integers, Sequences

CONSTANTS
    MaxBytes,    \* bound: bytes of an input or output tensor
    MaxPending   \* bound: work left on the stream when a run starts

ASSUME SessionAssumption == MaxBytes \in Nat \ {0} /\ MaxPending \in Nat

Bytes == 1 .. MaxBytes

\* Runs are numbered round, far enough apart for the data of an old one to be noticed.
Rounds == 1 .. 3
NoData == 0

Buffers == {"input_host", "output_host", "input_device", "output_device"}

\* The order in which a run makes its buffers large enough.
Growth == <<"input_host", "output_host", "input_device", "output_device">>

VARIABLES
    pc,        \* where the worker in Run is
    grown,     \* how many buffers the run has seen to
    round,     \* the number of the run
    tensor,    \* the byte counts of its input and output
    pointer,   \* [Buffers -> is the pointer set?]
    capacity,  \* [Buffers -> the capacity the session keeps]
    memory,    \* [Buffers -> bytes really allocated at the pointer]
    data,      \* [Buffers -> the run whose data the memory holds]
    stream,    \* work queued and not yet done by the device
    broken     \* the device has failed

vars == <<pc, grown, round, tensor, pointer, capacity, memory, data, stream, broken>>

Init ==
    /\ pc = "idle"
    /\ grown = 0
    /\ round = 1
    /\ tensor = [input |-> 1, output |-> 1]
    /\ pointer = [b \in Buffers |-> FALSE]
    /\ capacity = [b \in Buffers |-> 0]
    /\ memory = [b \in Buffers |-> 0]
    /\ data = [b \in Buffers |-> NoData]
    /\ stream = <<>>
    /\ broken = FALSE

buffer_vars == <<pointer, capacity, memory, data>>

Need(b) == IF b \in {"input_host", "input_device"} THEN tensor.input ELSE tensor.output

------------------------------------------------------------------------------
(* The worker, in Run.                                                     *)

\* The device is set and the shapes are valid; if not, Run throws before it has changed
\* anything.  cudaSetDevice is among the calls that return an error of the device.
Run(i, o) ==
    /\ pc = "idle"
    /\ ~broken
    /\ Len(stream) <= MaxPending
    /\ tensor' = [input |-> i, output |-> o]
    /\ round' = (round % 3) + 1
    /\ grown' = 0
    /\ pc' = "grow"
    /\ UNCHANGED <<buffer_vars, stream, broken>>

\* Mutant: a buffer that is there is taken to be large enough.
LargeOnceSet(b) == pointer[b]

Large(b) == capacity[b] >= Need(b)

Idle == stream = <<>>

\* Memory that is there is freed first, and cudaFree and cudaFreeHost wait for the device.
CanFree(b) == pointer[b] => Idle

Enough(b) ==
    /\ Large(b)
    /\ grown' = grown + 1
    /\ pc' = IF grown' = Len(Growth) THEN "fill" ELSE "grow"
    /\ UNCHANGED <<buffer_vars, broken>>

\* The old memory cannot be freed, which it may have been all the same: the error is the
\* device's, and Run throws with pointer and capacity as they were.
FreeFails(b) ==
    /\ ~Large(b) /\ pointer[b] /\ CanFree(b)
    /\ broken' = TRUE
    /\ memory' \in {memory, [memory EXCEPT ![b] = 0]}
    /\ pc' = "idle"
    /\ UNCHANGED <<grown, pointer, capacity, data>>

\* Mutant: the capacity is raised before the memory is there.
AllocFailsRaised(b) ==
    /\ ~Large(b) /\ CanFree(b) /\ (pointer[b] => ~broken)
    /\ pointer' = [pointer EXCEPT ![b] = FALSE]
    /\ capacity' = [capacity EXCEPT ![b] = Need(b)]
    /\ memory' = [memory EXCEPT ![b] = 0]
    /\ data' = [data EXCEPT ![b] = NoData]
    /\ pc' = "idle"
    /\ UNCHANGED <<grown, broken>>

\* The old memory is gone and there is none: Run throws without a buffer.
AllocFails(b) ==
    /\ ~Large(b) /\ CanFree(b) /\ (pointer[b] => ~broken)
    /\ pointer' = [pointer EXCEPT ![b] = FALSE]
    /\ capacity' = [capacity EXCEPT ![b] = 0]
    /\ memory' = [memory EXCEPT ![b] = 0]
    /\ data' = [data EXCEPT ![b] = NoData]
    /\ pc' = "idle"
    /\ UNCHANGED <<grown, broken>>

Alloc(b) ==
    /\ ~Large(b) /\ CanFree(b) /\ ~broken
    /\ pointer' = [pointer EXCEPT ![b] = TRUE]
    /\ capacity' = [capacity EXCEPT ![b] = Need(b)]
    /\ memory' = [memory EXCEPT ![b] = Need(b)]
    /\ data' = [data EXCEPT ![b] = NoData]
    /\ grown' = grown + 1
    /\ pc' = IF grown' = Len(Growth) THEN "fill" ELSE "grow"
    /\ UNCHANGED broken

\* EnsureHostBuffer or EnsureDeviceBuffer on the next buffer.
Ensure ==
    /\ pc = "grow"
    /\ LET b == Growth[grown + 1] IN Enough(b) \/ FreeFails(b) \/ AllocFails(b) \/ Alloc(b)
    /\ UNCHANGED <<round, tensor, stream>>

\* The input is copied to the pinned buffer, without a look at what an earlier run left
\* on the stream.
Fill ==
    /\ pc = "fill"
    /\ data' = [data EXCEPT !["input_host"] = round]
    /\ pc' = "h2d"
    /\ UNCHANGED <<grown, round, tensor, pointer, capacity, memory, stream, broken>>

\* A call queues its work, or fails: then Run throws, and the work may be queued or not.
Queue(work, next) ==
    /\ \/ pc' = next /\ ~broken /\ stream' = Append(stream, work)
       \/ pc' = "idle" /\ stream' \in {stream, IF broken THEN stream ELSE Append(stream, work)}
    /\ UNCHANGED <<grown, round, tensor, buffer_vars, broken>>

\* Work on the stream: the buffers it reads and writes, and how many bytes of each.
Jobs == [from : Buffers, to : Buffers, read : Bytes, written : Bytes]

Work(from, to) == [from |-> from, to |-> to, read |-> Need(from), written |-> Need(to)]

CopyToDevice == pc = "h2d" /\ Queue(Work("input_host", "input_device"), "infer")

\* setTensorAddress and enqueueV3.
Infer == pc = "infer" /\ Queue(Work("input_device", "output_device"), "d2h")

CopyToHost == pc = "d2h" /\ Queue(Work("output_device", "output_host"), "sync")

\* Mutant: the stream is not waited for.
SynchronizeNot ==
    /\ pc = "sync"
    /\ pc' = IF broken THEN "idle" ELSE "returned"
    /\ UNCHANGED <<grown, round, tensor, buffer_vars, stream, broken>>

\* cudaStreamSynchronize: all work is done, or the device has failed.
Synchronize ==
    /\ pc = "sync"
    /\ Idle
    /\ pc' = IF broken THEN "idle" ELSE "returned"
    /\ UNCHANGED <<grown, round, tensor, buffer_vars, stream, broken>>

\* The caller has read the output, which it got as a pointer into the pinned buffer.
Postprocessed ==
    /\ pc = "returned"
    /\ pc' = "idle"
    /\ UNCHANGED <<grown, round, tensor, buffer_vars, stream, broken>>

\* ~TensorRtSession: all memory is given back, whatever cudaFree says.
Destroy ==
    /\ pc = "idle"
    /\ Idle
    /\ pointer' = [b \in Buffers |-> FALSE]
    /\ capacity' = [b \in Buffers |-> 0]
    /\ memory' = [b \in Buffers |-> 0]
    /\ data' = [b \in Buffers |-> NoData]
    /\ pc' = "destroyed"
    /\ UNCHANGED <<grown, round, tensor, stream, broken>>

------------------------------------------------------------------------------
(* The device.                                                             *)

WorkDone ==
    /\ stream # <<>>
    /\ data' = [data EXCEPT ![Head(stream).to] = data[Head(stream).from]]
    /\ stream' = Tail(stream)
    /\ UNCHANGED <<pc, grown, round, tensor, pointer, capacity, memory, broken>>

DeviceFails ==
    /\ stream # <<>>
    /\ stream' = <<>>
    /\ broken' = TRUE
    /\ UNCHANGED <<pc, grown, round, tensor, buffer_vars>>

------------------------------------------------------------------------------
WorkerStep ==
    \/ Ensure \/ Fill \/ CopyToDevice \/ Infer \/ CopyToHost \/ Synchronize \/ Postprocessed

DeviceStep == WorkDone \/ DeviceFails

Next ==
    \/ \E i, o \in Bytes : Run(i, o)
    \/ WorkerStep
    \/ Destroy
    \/ DeviceStep

Spec == Init /\ [][Next]_vars

------------------------------------------------------------------------------
TypeOK ==
    /\ pc \in {"idle", "grow", "fill", "h2d", "infer", "d2h", "sync", "returned", "destroyed"}
    /\ grown \in 0 .. Len(Growth)
    /\ round \in Rounds
    /\ tensor \in [input : Bytes, output : Bytes]
    /\ pointer \in [Buffers -> BOOLEAN]
    /\ capacity \in [Buffers -> 0 .. MaxBytes]
    /\ memory \in [Buffers -> 0 .. MaxBytes]
    /\ data \in [Buffers -> Rounds \cup {NoData}]
    /\ stream \in Seq(Jobs)
    /\ broken \in BOOLEAN

(* A capacity is never more than what is allocated, also after a growth that   *)
(* failed at any of its steps; or the device has failed for good.              *)
CapacityBacked == \A b \in Buffers : broken \/ capacity[b] <= memory[b]

(* The copies and inferences still queued, those of runs that threw included,  *)
(* stay inside the memory they were queued for, which no later run has freed,  *)
(* and the input is copied to memory that is there.                            *)
WorkInsideBuffers ==
    /\ \A i \in 1 .. Len(stream) : /\ stream[i].read <= memory[stream[i].from]
                                   /\ stream[i].written <= memory[stream[i].to]
    /\ pc = "fill" => tensor.input <= memory["input_host"]

(* The output a run returns is computed from its own input, and stays so until *)
(* it has been read, whatever an earlier run has left on the stream.           *)
OutputOfThisRun == pc = "returned" => data["output_host"] = round
==============================================================================
