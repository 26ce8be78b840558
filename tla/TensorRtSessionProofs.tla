------------------------ MODULE TensorRtSessionProofs ------------------------
(***************************************************************************)
(* A TensorRT session is safe to use again after any failure short of one  *)
(* of the device, for tensors of every size: the inductive invariant, and  *)
(* what follows from it.                                                   *)
(***************************************************************************)
EXTENDS TensorRtSession, TLAPS

Resting == {"idle", "destroyed"}

\* The three pieces of work of a run, in the order they are queued.
From == <<"input_host", "input_device", "output_device">>
To   == <<"input_device", "output_device", "output_host">>

\* How many of them have been queued.
Queued ==
    IF pc = "infer" THEN 1
    ELSE IF pc = "d2h" THEN 2
    ELSE IF pc = "sync" THEN 3 ELSE 0

\* Without a pointer there is no memory.
Freed == \A b \in Buffers : ~pointer[b] => memory[b] = 0

\* During a run every capacity is backed, whether or not the device has failed since.
Backed == \A b \in Buffers : capacity[b] <= memory[b] \/ (broken /\ pc \in Resting)

\* A run has made large enough the buffers it has seen to.
Seen ==
    /\ pc = "grow" => grown < 4
    /\ pc \in {"fill", "h2d", "infer", "d2h", "sync"} => grown = 4
    /\ pc \notin Resting \cup {"returned"} =>
           \A i \in 1 .. 4 : i <= grown => Need(Growth[i]) <= capacity[Growth[i]]

\* What is queued fits, and is one of the three.
Fits ==
    \A i \in 1 .. Len(stream) :
        /\ stream[i].read <= memory[stream[i].from]
        /\ stream[i].written <= memory[stream[i].to]
        /\ stream[i].to # "input_host"

\* The work a run has queued is the last of the stream, and what the device has done of it
\* has carried the run's data on.
Carried ==
    ~broken =>
        /\ pc \in {"h2d", "infer", "d2h", "sync"} => data["input_host"] = round
        /\ \A k \in 1 .. 3 : k <= Queued /\ Len(stream) > Queued - k =>
               /\ stream[Len(stream) - (Queued - k)].from = From[k]
               /\ stream[Len(stream) - (Queued - k)].to = To[k]
        /\ Len(stream) < Queued => data[To[Queued - Len(stream)]] = round

\* The output of a run that has returned is there, and nothing is left that could change it.
Returned == pc = "returned" => Idle /\ data["output_host"] = round

IInv ==
    /\ TypeOK
    /\ Freed
    /\ Backed
    /\ Seen
    /\ Fits
    /\ Carried
    /\ Returned

------------------------------------------------------------------------------
(* The tuples, entry by entry.                                             *)

LEMMA GrowthEntries ==
    /\ Growth[1] = "input_host"   /\ Growth[2] = "output_host"
    /\ Growth[3] = "input_device" /\ Growth[4] = "output_device"
    /\ Len(Growth) = 4
    /\ \A i \in 1 .. 4 : Growth[i] \in Buffers
<1>1. /\ Growth[1] = "input_host"   /\ Growth[2] = "output_host"
      /\ Growth[3] = "input_device" /\ Growth[4] = "output_device"
      /\ Len(Growth) = 4
  BY DEF Growth
<1>2. QED
  BY <1>1 DEF Buffers

LEMMA WorkEntries ==
    /\ From[1] = "input_host" /\ From[2] = "input_device" /\ From[3] = "output_device"
    /\ To[1] = "input_device" /\ To[2] = "output_device" /\ To[3] = "output_host"
BY DEF From, To

\* What a run needs is a number of bytes.
LEMMA NeedType ==
    ASSUME TypeOK, NEW b \in Buffers
    PROVE  Need(b) \in Bytes /\ Need(b) \in 0 .. MaxBytes /\ Need(b) \in Nat
BY SessionAssumption DEF TypeOK, Need, Bytes

------------------------------------------------------------------------------
(* The worker.                                                             *)

LEMMA InitHolds == Init => IInv
<1> SUFFICES ASSUME Init PROVE IInv
  OBVIOUS
<1>1. TypeOK
  <2>1. tensor \in [input : Bytes, output : Bytes]
    BY SessionAssumption DEF Init, Bytes
  <2>2. data \in [Buffers -> Rounds \cup {NoData}] /\ round \in Rounds
    BY DEF Init, Rounds
  <2>3. stream \in Seq(Jobs)
    BY DEF Init
  <2>4. grown \in 0 .. Len(Growth)
    BY GrowthEntries DEF Init
  <2>5. pc = "idle" /\ pointer \in [Buffers -> BOOLEAN] /\ broken \in BOOLEAN
    BY DEF Init
  <2>6. /\ capacity \in [Buffers -> 0 .. MaxBytes]
        /\ memory \in [Buffers -> 0 .. MaxBytes]
    BY SessionAssumption DEF Init
  <2>7. QED
    BY <2>1, <2>2, <2>3, <2>4, <2>5, <2>6 DEF TypeOK
<1>2. Freed /\ Backed /\ Fits /\ Returned
  BY DEF Init, Freed, Backed, Fits, Returned
<1>3. Seen
  BY DEF Init, Seen, Resting
<1>4. Carried
  BY DEF Init, Carried, Queued
<1>5. QED
  BY <1>1, <1>2, <1>3, <1>4 DEF IInv

LEMMA RunStep ==
    ASSUME IInv, NEW i \in Bytes, NEW o \in Bytes, Run(i, o)
    PROVE  IInv'
<1>1. TypeOK'
  BY GrowthEntries DEF IInv, TypeOK, Run, Rounds, buffer_vars
<1>2. Freed' /\ Fits' /\ Returned'
  BY DEF IInv, Freed, Fits, Returned, Run, buffer_vars
<1>3. Backed'
  BY DEF IInv, Backed, Run, buffer_vars
<1>4. Seen'
  BY DEF Seen, Run, Resting
<1>5. Carried'
  <2>1. Queued' = 0 /\ pc' = "grow" /\ Len(stream') \in Nat
    BY DEF Run, Queued, IInv, TypeOK
  <2>2. QED
    BY <2>1 DEF Carried
<1>6. QED
  BY <1>1, <1>2, <1>3, <1>4, <1>5 DEF IInv

\* Nothing queued works on a buffer whose memory may change: it has none, or the stream is
\* empty.
LEMMA StreamKeepsOff ==
    ASSUME IInv, NEW b \in Buffers, CanFree(b), NEW m \in Nat,
           memory' = [memory EXCEPT ![b] = m], UNCHANGED stream
    PROVE  Fits'
<1>1. CASE stream = <<>>
  BY <1>1 DEF Fits
<1>2. CASE ~pointer[b]
  <2> SUFFICES ASSUME NEW i \in 1 .. Len(stream)
               PROVE  /\ stream[i].read <= memory'[stream[i].from]
                      /\ stream[i].written <= memory'[stream[i].to]
                      /\ stream[i].to # "input_host"
    BY DEF Fits
  <2>1. stream[i] \in Jobs
    BY DEF IInv, TypeOK
  <2>2. /\ stream[i].read <= memory[stream[i].from]
        /\ stream[i].written <= memory[stream[i].to]
        /\ stream[i].to # "input_host"
    BY DEF IInv, Fits
  <2>3. memory[b] = 0
    BY <1>2 DEF IInv, Freed
  <2>4. stream[i].from # b /\ stream[i].to # b
    BY <2>1, <2>2, <2>3, SessionAssumption DEF Jobs, Bytes
  <2>5. QED
    BY <2>1, <2>2, <2>4 DEF IInv, TypeOK, Jobs
<1>3. QED
  BY <1>1, <1>2 DEF CanFree, Idle

LEMMA EnsureStep ==
    ASSUME IInv, Ensure
    PROVE  IInv'
<1> DEFINE b == Growth[grown + 1]
<1>1. grown \in 0 .. 3 /\ b \in Buffers
  <2>1. grown \in 0 .. 4 /\ grown < 4
    BY GrowthEntries DEF IInv, TypeOK, Seen, Ensure
  <2>2. QED
    BY <2>1, GrowthEntries
<1>2. /\ pc = "grow" /\ Queued = 0 /\ Queued' = 0
      /\ pc' \in {"grow", "fill", "idle"}
      /\ UNCHANGED <<round, tensor, stream>>
  BY DEF Ensure, Enough, FreeFails, AllocFails, Alloc, Queued
<1>3. Need(b) \in Bytes /\ Need(b) \in 0 .. MaxBytes /\ Need(b) \in Nat
  BY <1>1, NeedType DEF IInv
<1>4. \A c \in Buffers : Need(c)' = Need(c)
  BY <1>2 DEF Need
<1>5. Carried'
  <2>1. Len(stream') \in Nat
    BY <1>2 DEF IInv, TypeOK
  <2>2. QED
    BY <1>2, <2>1 DEF Carried
<1>6. Returned'
  BY <1>2 DEF Returned
<1>7. CASE Enough(b)
  <2>1. TypeOK'
    BY <1>1, <1>2, <1>7, GrowthEntries DEF IInv, TypeOK, Enough, buffer_vars
  <2>2. Freed' /\ Fits' /\ Backed'
    BY <1>2, <1>7 DEF IInv, Freed, Fits, Backed, Enough, buffer_vars, Resting
  <2>3. Seen'
    BY <1>1, <1>2, <1>3, <1>4, <1>7, GrowthEntries
       DEF IInv, Seen, Enough, Large, buffer_vars, Resting
  <2>4. QED
    BY <1>5, <1>6, <2>1, <2>2, <2>3 DEF IInv
<1>8. CASE FreeFails(b)
  <2>1. TypeOK'
    BY <1>1, <1>2, <1>8, SessionAssumption DEF IInv, TypeOK, FreeFails
  <2>2. Freed' /\ Fits' /\ Backed'
    BY <1>1, <1>2, <1>8 DEF IInv, TypeOK, Freed, Fits, Backed, FreeFails, CanFree, Idle, Resting
  <2>3. Seen'
    BY <1>8 DEF Seen, FreeFails, Resting
  <2>4. QED
    BY <1>5, <1>6, <2>1, <2>2, <2>3 DEF IInv
<1>9. CASE AllocFails(b)
  <2>1. TypeOK'
    BY <1>1, <1>2, <1>9, SessionAssumption DEF IInv, TypeOK, AllocFails
  <2>2. Freed' /\ Backed'
    BY <1>1, <1>2, <1>9 DEF IInv, TypeOK, Freed, Backed, AllocFails, Resting
  <2>3. Fits'
    BY <1>1, <1>2, <1>9, StreamKeepsOff DEF AllocFails
  <2>4. Seen'
    BY <1>9 DEF Seen, AllocFails, Resting
  <2>5. QED
    BY <1>5, <1>6, <2>1, <2>2, <2>3, <2>4 DEF IInv
<1>10. CASE Alloc(b)
  <2>1. TypeOK'
    BY <1>1, <1>2, <1>3, <1>10, GrowthEntries DEF IInv, TypeOK, Alloc, NoData
  <2>2. Freed' /\ Backed'
    BY <1>1, <1>2, <1>3, <1>10 DEF IInv, TypeOK, Freed, Backed, Alloc, Resting
  <2>3. Fits'
    BY <1>1, <1>2, <1>3, <1>10, StreamKeepsOff DEF Alloc
  <2>4. Seen'
    BY <1>1, <1>2, <1>3, <1>4, <1>10, GrowthEntries DEF IInv, TypeOK, Seen, Alloc, Resting
  <2>5. QED
    BY <1>5, <1>6, <2>1, <2>2, <2>3, <2>4 DEF IInv
<1>11. QED
  BY <1>7, <1>8, <1>9, <1>10 DEF Ensure

LEMMA FillStep ==
    ASSUME IInv, Fill
    PROVE  IInv'
<1>1. TypeOK'
  BY DEF IInv, TypeOK, Fill, Buffers
<1>2. Freed' /\ Fits' /\ Backed' /\ Returned'
  BY DEF IInv, Freed, Fits, Backed, Returned, Fill, Resting
<1>3. Seen'
  BY DEF IInv, Seen, Fill, Resting, Need
<1>4. Carried'
  <2>1. Queued' = 0 /\ Len(stream') \in Nat /\ data'["input_host"] = round'
    BY DEF Fill, Queued, IInv, TypeOK, Buffers
  <2>2. QED
    BY <2>1 DEF Carried
<1>5. QED
  BY <1>1, <1>2, <1>3, <1>4 DEF IInv

\* A call that queues the next of the three pieces of work, or throws.
LEMMA QueueStep ==
    ASSUME IInv, NEW k \in 1 .. 3, NEW next \in {"infer", "d2h", "sync"},
           \/ k = 1 /\ pc = "h2d"   /\ next = "infer"
           \/ k = 2 /\ pc = "infer" /\ next = "d2h"
           \/ k = 3 /\ pc = "d2h"   /\ next = "sync",
           Queue(Work(From[k], To[k]), next)
    PROVE  IInv'
<1> DEFINE job == Work(From[k], To[k])
<1> USE DEF buffer_vars
<1>1. From[k] \in Buffers /\ To[k] \in Buffers /\ To[k] # "input_host"
  BY WorkEntries DEF Buffers
<1>2. /\ Need(From[k]) \in Bytes /\ Need(From[k]) \in Nat
      /\ Need(To[k]) \in Bytes /\ Need(To[k]) \in Nat
  BY <1>1, NeedType DEF IInv
<1>3. /\ job \in Jobs
      /\ job.from = From[k] /\ job.to = To[k]
      /\ job.read = Need(From[k]) /\ job.written = Need(To[k])
  BY <1>1, <1>2 DEF Work, Jobs
<1>4. Need(From[k]) <= memory[From[k]] /\ Need(To[k]) <= memory[To[k]]
  <2>1. \A b \in Buffers : Need(b) <= capacity[b]
    BY GrowthEntries DEF IInv, Seen, Resting, Buffers
  <2>2. \A b \in Buffers : capacity[b] <= memory[b]
    BY DEF IInv, Backed, Resting
  <2>3. \A b \in Buffers : capacity[b] \in Int /\ memory[b] \in Int /\ Need(b) \in Int
    BY NeedType, SessionAssumption DEF IInv, TypeOK
  <2>4. QED
    BY <1>1, <2>1, <2>2, <2>3
<1>5. stream \in Seq(Jobs) /\ Len(stream) \in Nat
  BY DEF IInv, TypeOK
<1>6. stream' = stream \/ stream' = Append(stream, job)
  BY DEF Queue
<1>7. UNCHANGED <<grown, round, tensor, pointer, capacity, memory, data, broken>>
  BY DEF Queue
<1>8. pc' \in {next, "idle"} /\ (pc' = next => stream' = Append(stream, job))
  BY DEF Queue
<1> HIDE DEF job
<1>9. TypeOK'
  <2>1. stream' \in Seq(Jobs)
    BY <1>3, <1>5, <1>6
  <2>2. QED
    BY <1>7, <1>8, <2>1 DEF IInv, TypeOK
<1>10. Freed' /\ Returned'
  BY <1>7, <1>8 DEF IInv, Freed, Returned
<1>11. Backed'
  BY <1>7, <1>8 DEF IInv, Backed, Resting
<1>12. Seen'
  BY <1>7, <1>8 DEF IInv, Seen, Resting, Need
<1>13. Fits'
  BY <1>1, <1>3, <1>4, <1>5, <1>6, <1>7 DEF IInv, Fits
<1>14. Carried'
  <2>1. CASE pc' = "idle"
    <3>1. Queued' = 0 /\ Len(stream') \in Nat
      BY <1>3, <1>5, <1>6, <2>1 DEF Queued
    <3>2. QED
      BY <2>1, <3>1 DEF Carried
  <2>2. CASE pc' = next
    <3>1. Queued' = k /\ Queued = k - 1
      BY <2>2 DEF Queued
    <3>2. /\ Len(stream') = Len(stream) + 1
          /\ stream'[Len(stream) + 1] = job
          /\ \A i \in 1 .. Len(stream) : stream'[i] = stream[i]
      BY <1>3, <1>5, <1>8, <2>2
    <3> SUFFICES ASSUME ~broken
                 PROVE  /\ data["input_host"] = round
                        /\ \A n \in 1 .. 3 : n <= k /\ Len(stream') > k - n =>
                               /\ stream'[Len(stream') - (k - n)].from = From[n]
                               /\ stream'[Len(stream') - (k - n)].to = To[n]
                        /\ Len(stream') < k => data[To[k - Len(stream')]] = round
      BY <1>7, <3>1 DEF Carried
    <3>3. data["input_host"] = round
      BY DEF IInv, Carried
    <3>4. ASSUME NEW n \in 1 .. 3, n <= k, Len(stream') > k - n
          PROVE  /\ stream'[Len(stream') - (k - n)].from = From[n]
                 /\ stream'[Len(stream') - (k - n)].to = To[n]
      <4>1. CASE n = k
        BY <1>3, <1>5, <3>2, <4>1
      <4>2. CASE n < k
        <5>1. /\ Len(stream) > (k - 1) - n
              /\ Len(stream') - (k - n) = Len(stream) - ((k - 1) - n)
              /\ Len(stream) - ((k - 1) - n) \in 1 .. Len(stream)
          BY <1>5, <3>2, <3>4, <4>2
        <5>2. n <= Queued /\ Len(stream) > Queued - n
          BY <3>1, <4>2, <5>1
        <5>3. /\ stream[Len(stream) - ((k - 1) - n)].from = From[n]
              /\ stream[Len(stream) - ((k - 1) - n)].to = To[n]
          BY <3>1, <5>2 DEF IInv, Carried
        <5>4. QED
          BY <3>2, <5>1, <5>3
      <4>3. QED
        BY <3>4, <4>1, <4>2
    <3>5. Len(stream') < k => data[To[k - Len(stream')]] = round
      <4>1. Len(stream') < k => Len(stream) < Queued /\ k - Len(stream') = Queued - Len(stream)
        BY <1>5, <3>1, <3>2
      <4>2. QED
        BY <4>1 DEF IInv, Carried
    <3>6. QED
      BY <3>3, <3>4, <3>5
  <2>3. QED
    BY <1>8, <2>1, <2>2
<1>15. QED
  BY <1>9, <1>10, <1>11, <1>12, <1>13, <1>14 DEF IInv

LEMMA CopyAndInferSteps ==
    ASSUME IInv, CopyToDevice \/ Infer \/ CopyToHost
    PROVE  IInv'
<1>1. CASE CopyToDevice
  <2>1. pc = "h2d" /\ Queue(Work(From[1], To[1]), "infer")
    BY <1>1, WorkEntries DEF CopyToDevice
  <2>2. QED
    BY <2>1, QueueStep
<1>2. CASE Infer
  <2>1. pc = "infer" /\ Queue(Work(From[2], To[2]), "d2h")
    BY <1>2, WorkEntries DEF Infer
  <2>2. QED
    BY <2>1, QueueStep
<1>3. CASE CopyToHost
  <2>1. pc = "d2h" /\ Queue(Work(From[3], To[3]), "sync")
    BY <1>3, WorkEntries DEF CopyToHost
  <2>2. QED
    BY <2>1, QueueStep
<1>4. QED
  BY <1>1, <1>2, <1>3

\* Waiting for the stream, handing out the output, and the destructor.
LEMMA SynchronizeStep ==
    ASSUME IInv, Synchronize
    PROVE  IInv'
<1> USE DEF buffer_vars
<1>1. TypeOK'
  BY DEF IInv, TypeOK, Synchronize
<1>2. Freed' /\ Fits'
  BY DEF IInv, Freed, Fits, Synchronize
<1>3. Backed' /\ Seen'
  BY DEF IInv, Backed, Seen, Resting, Synchronize
<1>4. Queued' = 0 /\ Len(stream') = 0
  BY DEF Synchronize, Queued, Idle
<1>5. Carried'
  BY <1>4 DEF Carried, Synchronize
<1>6. Returned'
  <2>1. ~broken => data["output_host"] = round
    <3>1. Queued = 3 /\ Len(stream) = 0
      BY DEF Synchronize, Queued, Idle
    <3>2. QED
      BY <3>1, WorkEntries DEF IInv, Carried
  <2>2. QED
    BY <2>1 DEF Returned, Synchronize, Idle
<1>7. QED
  BY <1>1, <1>2, <1>3, <1>5, <1>6 DEF IInv

LEMMA PostprocessedStep ==
    ASSUME IInv, Postprocessed
    PROVE  IInv'
<1> USE DEF buffer_vars
<1>1. TypeOK'
  BY DEF IInv, TypeOK, Postprocessed
<1>2. Freed' /\ Fits' /\ Returned'
  BY DEF IInv, Freed, Fits, Returned, Postprocessed
<1>3. Backed' /\ Seen'
  BY DEF IInv, Backed, Seen, Resting, Postprocessed
<1>4. Queued' = 0 /\ Len(stream') \in Nat
  BY DEF Postprocessed, Queued, IInv, TypeOK
<1>5. Carried'
  BY <1>4 DEF Carried, Postprocessed
<1>6. QED
  BY <1>1, <1>2, <1>3, <1>5 DEF IInv

LEMMA DestroyStep ==
    ASSUME IInv, Destroy
    PROVE  IInv'
<1>1. TypeOK'
  BY SessionAssumption DEF IInv, TypeOK, Destroy, NoData
<1>2. Freed' /\ Fits' /\ Returned'
  BY DEF Freed, Fits, Returned, Destroy, Idle
<1>3. Backed' /\ Seen'
  BY DEF Backed, Seen, Resting, Destroy
<1>4. Queued' = 0 /\ Len(stream') = 0
  BY DEF Destroy, Queued, Idle
<1>5. Carried'
  BY <1>4 DEF Carried, Destroy
<1>6. QED
  BY <1>1, <1>2, <1>3, <1>5 DEF IInv

------------------------------------------------------------------------------
(* The device.                                                             *)

LEMMA WorkDoneStep ==
    ASSUME IInv, WorkDone
    PROVE  IInv'
<1> DEFINE from == stream[1].from
           to   == stream[1].to
<1>1. stream \in Seq(Jobs) /\ Len(stream) \in Nat /\ Len(stream) >= 1
  BY DEF IInv, TypeOK, WorkDone
<1>2. /\ stream' = Tail(stream) /\ stream' \in Seq(Jobs)
      /\ Len(stream') = Len(stream) - 1
      /\ \A i \in 1 .. Len(stream') : stream'[i] = stream[i + 1]
  BY <1>1 DEF WorkDone
<1>3. from \in Buffers /\ to \in Buffers /\ to # "input_host"
  <2>1. stream[1] \in Jobs
    BY <1>1
  <2>2. 1 \in 1 .. Len(stream)
    BY <1>1
  <2>3. to # "input_host"
    BY <2>2 DEF IInv, Fits
  <2>4. QED
    BY <2>1, <2>3 DEF Jobs
<1>4. /\ data' = [data EXCEPT ![to] = data[from]]
      /\ UNCHANGED <<pc, grown, round, tensor, pointer, capacity, memory, broken>>
  <2>1. Head(stream) = stream[1]
    BY <1>1
  <2>2. QED
    BY <2>1 DEF WorkDone
<1>5. pc # "returned"
  BY <1>1 DEF IInv, Returned, Idle
<1> HIDE DEF from, to
<1>6. TypeOK'
  BY <1>2, <1>3, <1>4 DEF IInv, TypeOK
<1>7. Freed' /\ Backed' /\ Seen'
  BY <1>4 DEF IInv, Freed, Backed, Seen, Need
<1>8. Returned'
  BY <1>4, <1>5 DEF Returned
<1>9. Fits'
  BY <1>1, <1>2, <1>4 DEF IInv, Fits
<1>10. Carried'
  <2>1. Queued' = Queued /\ Queued \in 0 .. 3
    BY <1>4 DEF Queued
  <2> SUFFICES ASSUME ~broken
               PROVE  /\ pc \in {"h2d", "infer", "d2h", "sync"} => data'["input_host"] = round
                      /\ \A k \in 1 .. 3 : k <= Queued /\ Len(stream') > Queued - k =>
                             /\ stream'[Len(stream') - (Queued - k)].from = From[k]
                             /\ stream'[Len(stream') - (Queued - k)].to = To[k]
                      /\ Len(stream') < Queued => data'[To[Queued - Len(stream')]] = round
    BY <1>4, <2>1 DEF Carried
  <2>2. pc \in {"h2d", "infer", "d2h", "sync"} => data'["input_host"] = round
    BY <1>3, <1>4 DEF IInv, Carried, TypeOK
  <2>3. ASSUME NEW k \in 1 .. 3, k <= Queued, Len(stream') > Queued - k
        PROVE  /\ stream'[Len(stream') - (Queued - k)].from = From[k]
               /\ stream'[Len(stream') - (Queued - k)].to = To[k]
    <3>1. /\ Len(stream') - (Queued - k) \in 1 .. Len(stream')
          /\ Len(stream') - (Queued - k) + 1 = Len(stream) - (Queued - k)
          /\ Len(stream) > Queued - k
      BY <1>1, <1>2, <2>1, <2>3
    <3>2. /\ stream[Len(stream) - (Queued - k)].from = From[k]
          /\ stream[Len(stream) - (Queued - k)].to = To[k]
      BY <2>3, <3>1 DEF IInv, Carried
    <3>3. QED
      BY <1>2, <3>1, <3>2
  <2>4. ASSUME Len(stream') < Queued
        PROVE  data'[To[Queued - Len(stream')]] = round
    <3> DEFINE k == Queued - Len(stream')
    <3>1. /\ k \in 1 .. 3 /\ k <= Queued /\ Len(stream) > Queued - k
          /\ Len(stream) - (Queued - k) = 1
      BY <1>1, <1>2, <2>1, <2>4
    <3>2. from = From[k] /\ to = To[k]
      BY <3>1 DEF IInv, Carried, from, to
    <3>3. pc \in {"infer", "d2h", "sync"}
      BY <1>1, <1>2, <2>4 DEF Queued
    <3>4. data[from] = round
      <4>1. CASE k = 1
        BY <3>2, <3>3, <4>1, WorkEntries DEF IInv, Carried
      <4>2. CASE k > 1
        <5>1. Len(stream) < Queued /\ k - 1 = Queued - Len(stream)
          BY <1>1, <1>2, <2>1, <4>2
        <5>2. data[To[k - 1]] = round
          BY <5>1 DEF IInv, Carried
        <5>3. To[k - 1] = From[k]
          BY <3>1, <4>2, WorkEntries
        <5>4. QED
          BY <3>2, <5>2, <5>3
      <4>3. QED
        BY <3>1, <4>1, <4>2
    <3>5. QED
      BY <1>3, <1>4, <3>2, <3>4 DEF IInv, TypeOK
  <2>5. QED
    BY <2>2, <2>3, <2>4
<1>11. QED
  BY <1>6, <1>7, <1>8, <1>9, <1>10 DEF IInv

LEMMA DeviceFailsStep ==
    ASSUME IInv, DeviceFails
    PROVE  IInv'
<1> USE DEF buffer_vars
<1>1. TypeOK'
  BY DEF IInv, TypeOK, DeviceFails
<1>2. Freed' /\ Fits' /\ Seen'
  BY DEF IInv, Freed, Fits, Seen, DeviceFails, Need
<1>3. Backed'
  BY DEF IInv, Backed, DeviceFails
<1>4. Carried'
  BY DEF Carried, DeviceFails
<1>5. Returned'
  BY DEF IInv, Returned, DeviceFails, Idle
<1>6. QED
  BY <1>1, <1>2, <1>3, <1>4, <1>5 DEF IInv

LEMMA StutterStep ==
    ASSUME IInv, UNCHANGED vars
    PROVE  IInv'
<1> USE DEF vars
<1>1. TypeOK'
  BY DEF IInv, TypeOK
<1>2. Freed' /\ Backed' /\ Seen' /\ Fits' /\ Returned'
  BY DEF IInv, Freed, Backed, Seen, Fits, Returned, Idle, Need
<1>3. Carried'
  BY DEF IInv, Carried, Queued
<1>4. QED
  BY <1>1, <1>2, <1>3 DEF IInv

------------------------------------------------------------------------------
(* The theorems.                                                           *)

\* The invariant holds whatever runs throw, where they throw, and whenever the device does
\* the work they leave behind.
THEOREM SessionInvariance == Spec => []IInv
<1>1. Init => IInv
  BY InitHolds
<1>2. IInv /\ [Next]_vars => IInv'
  <2> SUFFICES ASSUME IInv, [Next]_vars PROVE IInv'
    OBVIOUS
  <2>1. CASE \E i, o \in Bytes : Run(i, o)
    BY <2>1, RunStep
  <2>2. CASE WorkerStep
    BY <2>2, EnsureStep, FillStep, CopyAndInferSteps, SynchronizeStep, PostprocessedStep
       DEF WorkerStep
  <2>3. CASE Destroy
    BY <2>3, DestroyStep
  <2>4. CASE DeviceStep
    BY <2>4, WorkDoneStep, DeviceFailsStep DEF DeviceStep
  <2>5. CASE UNCHANGED vars
    BY <2>5, StutterStep
  <2>6. QED
    BY <2>1, <2>2, <2>3, <2>4, <2>5 DEF Next
<1>3. QED
  BY <1>1, <1>2, PTL DEF Spec

\* Ensure*Buffer leaves a capacity that the memory backs, whichever of its calls fails.
THEOREM CapacitiesBacked == Spec => []CapacityBacked
<1>1. IInv => CapacityBacked
  BY DEF IInv, Backed, CapacityBacked
<1>2. QED
  BY SessionInvariance, <1>1, PTL

\* No copy and no inference leaves its buffers, of this run or of one that threw before it.
THEOREM WorkStaysInside == Spec => []WorkInsideBuffers
<1>1. IInv => WorkInsideBuffers
  <2> SUFFICES ASSUME IInv PROVE WorkInsideBuffers
    OBVIOUS
  <2>1. \A i \in 1 .. Len(stream) : /\ stream[i].read <= memory[stream[i].from]
                                     /\ stream[i].written <= memory[stream[i].to]
    BY DEF IInv, Fits
  <2>2. ASSUME pc = "fill" PROVE tensor.input <= memory["input_host"]
    <3>1. Need("input_host") <= capacity["input_host"]
      BY <2>2, GrowthEntries DEF IInv, Seen, Resting
    <3>2. capacity["input_host"] <= memory["input_host"]
      BY <2>2 DEF IInv, Backed, Resting, Buffers
    <3>3. /\ capacity["input_host"] \in Int /\ memory["input_host"] \in Int
          /\ tensor.input \in Int
      BY SessionAssumption DEF IInv, TypeOK, Buffers, Bytes
    <3>4. QED
      BY <3>1, <3>2, <3>3 DEF Need
  <2>3. QED
    BY <2>1, <2>2 DEF WorkInsideBuffers
<1>2. QED
  BY SessionInvariance, <1>1, PTL

\* The output that Run points its caller to was computed from its own input.
THEOREM OutputsOwn == Spec => []OutputOfThisRun
<1>1. IInv => OutputOfThisRun
  BY DEF IInv, Returned, OutputOfThisRun
<1>2. QED
  BY SessionInvariance, <1>1, PTL
==============================================================================
