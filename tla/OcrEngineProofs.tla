--------------------------- MODULE OcrEngineProofs ---------------------------
(***************************************************************************)
(* What every behaviour of OcrEngine satisfies, for any number of callers, *)
(* items and nets and any batch size; and that it implements the safety    *)
(* part of OcrService: each step of the engine is one step of the service  *)
(* or leaves what callers can see as it was.                               *)
(*                                                                         *)
(* First comes what the proofs rest on: the arithmetic of batches and      *)
(* workers, the types of what each action builds, and TypeOK.              *)
(*                                                                         *)
(* Then the inductive invariant.  IInv is about the mutex and about each   *)
(* call by itself, so the proof looks at the call that makes the step, one *)
(* part of CallInv after the other and one action after the other, and     *)
(* shows that the other calls are left as they were.                       *)
(*                                                                         *)
(* Last come the theorems, and the refinement.                             *)
(***************************************************************************)
EXTENDS OcrEngine, SequenceTheorems, FiniteSetTheorems, TLAPS

------------------------------------------------------------------------------
(* Arithmetic of the batches.                                              *)

\* Multiplying by the batch size keeps the order of batch indices.
LEMMA BeginMonotonic ==
    ASSUME NEW a \in Nat, NEW b \in Nat, a < b
    PROVE  /\ Begin(a) \in Nat /\ Begin(b) \in Nat
           /\ Begin(a) + RecBatchSize <= Begin(b)
<1>1. RecBatchSize \in Nat
  BY ConfigAssumption
<1>2. PICK d \in Nat : b = a + 1 + d
  <2>1. b - a - 1 \in Nat
    OBVIOUS
  <2>2. b = a + 1 + (b - a - 1)
    OBVIOUS
  <2>3. QED
    BY <2>1, <2>2
<1>3. Begin(b) = a * RecBatchSize + RecBatchSize + d * RecBatchSize
  BY <1>1, <1>2, SMT DEF Begin
<1>4. d * RecBatchSize \in Nat /\ a * RecBatchSize \in Nat /\ b * RecBatchSize \in Nat
  BY <1>1, <1>2, SMT
<1>5. QED
  BY <1>1, <1>3, <1>4 DEF Begin

\* A batch begins at a position.
LEMMA BeginNat == ASSUME NEW a \in Nat PROVE Begin(a) \in Nat
BY ConfigAssumption, SMT DEF Begin

\* batches.size() counts exactly the batch indices that begin inside the order.
LEMMA BatchCountBegin ==
    ASSUME NEW n \in Nat, NEW b \in Nat
    PROVE  /\ BatchCount(n) \in Nat
           /\ b < BatchCount(n) <=> Begin(b) < n
<1> DEFINE S == RecBatchSize
           q == BatchCount(n)
<1>1. S \in Nat /\ S >= 1
  BY ConfigAssumption
<1>2. q \in Nat /\ q * S <= n + S - 1 /\ n + S - 1 < q * S + S
  BY <1>1, SMT DEF BatchCount
<1>3. CASE b < q
  <2>1. b * S + S <= q * S
    BY <1>2, <1>3, BeginMonotonic DEF Begin
  <2>2. QED
    BY <1>1, <1>2, <1>3, <2>1 DEF Begin
<1>4. CASE ~(b < q)
  <2>1. q * S <= b * S
    <3>1. CASE q = b
      BY <3>1, <1>1, <1>2, SMT
    <3>2. CASE q < b
      <4>1. q * S + S <= b * S /\ q * S \in Nat /\ b * S \in Nat
        BY <3>2, <1>2, BeginMonotonic DEF Begin
      <4>2. QED
        BY <4>1, <1>1
    <3>3. QED
      BY <3>1, <3>2, <1>2, <1>4
  <2>2. b * S \in Nat /\ q * S \in Nat
    BY <1>1, <1>2, SMT
  <2>3. QED
    BY <1>1, <1>2, <1>4, <2>1, <2>2 DEF Begin
<1>5. QED
  BY <1>3, <1>4
------------------------------------------------------------------------------
(* Types.                                                                  *)

\* Updating a function at one point keeps its type.
LEMMA Update ==
    ASSUME NEW S, NEW T, NEW f \in [S -> T], NEW s, NEW e \in T
    PROVE  [f EXCEPT ![s] = e] \in [S -> T]
OBVIOUS

\* So does updating the function of one caller at one worker.
LEMMA UpdateTwo ==
    ASSUME NEW S, NEW R, NEW T, NEW f \in [S -> [R -> T]], NEW s \in S, NEW r, NEW e \in T
    PROVE  [f EXCEPT ![s][r] = e] \in [S -> [R -> T]]
OBVIOUS

\* The crops Detect makes of the images of a batch call have the declared type.
LEMMA NewCropsTyped ==
    ASSUME NEW n \in 0 .. MaxItems
    PROVE  [i \in 1 .. n |-> NewCrop(i)] \in Seq(Crop)
<1>1. n \in Nat /\ \A i \in 1 .. n : NewCrop(i) \in Crop
  BY ConfigAssumption DEF NewCrop, Crop
<1>2. QED
  BY <1>1, IsASeq

\* So have the regions it sizes result.items with.
LEMMA NewRegionsTyped ==
    ASSUME NEW n \in 0 .. MaxItems
    PROVE  [i \in 1 .. n |-> NewRegion(i)] \in Seq(Region)
<1>1. n \in Nat /\ \A i \in 1 .. n : NewRegion(i) \in Region
  BY ConfigAssumption DEF NewRegion, Region
<1>2. QED
  BY <1>1, IsASeq

\* Native changes nothing: the items of a batch already carry their position.
LEMMA NativeTyped ==
    ASSUME IInv, NEW c \in Callers
    PROVE  Native(c) = regions[c] /\ Native(c) \in Seq(Region)
<1>1. regions[c] \in Seq(Region)
  BY DEF IInv, TypeOK
<1>2. kind[c] = "batch" => \A i \in 1 .. Len(regions[c]) : regions[c][i].src = i
  BY DEF IInv, CallInv, InOrder
<1>3. \A i \in 1 .. Len(regions[c]) : regions[c][i] \in Region
  BY <1>1
<1>4. \A i \in 1 .. Len(regions[c]) :
        kind[c] = "batch" => [regions[c][i] EXCEPT !.src = i] = regions[c][i]
  BY <1>2, <1>3 DEF Region
<1>5. regions[c] = [i \in 1 .. Len(regions[c]) |-> regions[c][i]]
  BY <1>1
<1>6. Native(c) = regions[c]
  BY <1>4, <1>5 DEF Native
<1>7. QED
  BY <1>1, <1>6

\* The rows RunBatch stores belong to positions of its slice.
LEMMA RowInSlice ==
    ASSUME NEW n \in Nat, NEW b \in Nat, b < BatchCount(n), NEW k \in 1 .. End(n, b) - Begin(b)
    PROVE  /\ Begin(b) + k \in Slice(n, b)
           /\ Begin(b) + k \in 1 .. n
<1>1. Begin(b) \in Nat /\ RecBatchSize \in Nat /\ RecBatchSize >= 1
  BY ConfigAssumption, BeginMonotonic
<1>2. QED
  BY <1>1 DEF Slice, End

\* What a task about to store batch[c][w] knows of its batch.
LEMMA RunningBatch ==
    ASSUME IInv, NEW c \in Callers, NEW w \in Workers, task[c][w] = "run"
    PROVE  /\ Count(c) \in Nat /\ batch[c][w] \in Nat /\ batch[c][w] < BatchCount(Count(c))
           /\ sorted[c] \in Orders(Count(c))
           /\ pc[c] \in Recognizing
           /\ Len(regions[c]) = Count(c)
<1>1. Count(c) \in Nat /\ batch[c][w] \in Nat
  BY DEF IInv, TypeOK, Count
<1>2. batch[c][w] < BatchCount(Count(c))
  BY DEF IInv, CallInv, Claims, Claimed
<1>3. sorted[c] \in Orders(Count(c))
  BY DEF IInv, CallInv, Sorted
<1>4. pc[c] \in Recognizing
  BY DEF IInv, CallInv, TasksOfStage
<1>5. Len(regions[c]) = Count(c)
  BY <1>4 DEF IInv, CallInv, Paired, Recognizing
<1>6. QED
  BY <1>1, <1>2, <1>3, <1>4, <1>5

\* Row k of a batch is the crop of region indices[k], whatever the order.
LEMMA IndexOfRow ==
    ASSUME IInv, NEW c \in Callers, NEW w \in Workers, task[c][w] = "run",
           NEW count \in RowCounts(c, batch[c][w]), NEW k \in 1 .. count
    PROVE  /\ Begin(batch[c][w]) + k \in Slice(Count(c), batch[c][w])
           /\ Index(c, batch[c][w], k) \in 1 .. Count(c)
           /\ Row(c, batch[c][w], k) = crops[c][Index(c, batch[c][w], k)]
           /\ Row(c, batch[c][w], k) \in Crop
<1> DEFINE b == batch[c][w]
           n == Count(c)
<1>1. n \in Nat /\ b \in Nat /\ b < BatchCount(n) /\ sorted[c] \in [1 .. n -> 1 .. n]
  BY RunningBatch DEF Orders, Bijection, Injection
<1>2. k \in 1 .. End(n, b) - Begin(b)
  <2>1. Begin(b) \in Nat /\ RecBatchSize \in Nat
    BY <1>1, ConfigAssumption, BeginNat
  <2>2. End(n, b) - Begin(b) \in Int
    BY <1>1, <2>1 DEF End
  <2>3. QED
    BY <2>2 DEF RowCounts, Count
<1>3. Begin(b) + k \in Slice(n, b) /\ Begin(b) + k \in 1 .. n
  BY <1>1, <1>2, RowInSlice
<1>4. Index(c, b, k) \in 1 .. n
  BY <1>1, <1>3 DEF Index
<1>5. crops[c] \in Seq(Crop)
  BY DEF IInv, TypeOK
<1>6. QED
  BY <1>3, <1>4, <1>5 DEF Row, Count

\* What RunBatch leaves in regions has the type of regions.
LEMMA StoredTyped ==
    ASSUME IInv, NEW c \in Callers, NEW w \in Workers, task[c][w] = "run",
           NEW count \in RowCounts(c, batch[c][w])
    PROVE  Stored(c, batch[c][w], count) \in Seq(Region)
<1> DEFINE b == batch[c][w]
           n == Count(c)
           hit(i) == \E k \in 1 .. count : Index(c, b, k) = i
           row(i) == CHOOSE k \in 1 .. count : Index(c, b, k) = i
<1>1. n \in Nat /\ Len(regions[c]) = n /\ regions[c] \in Seq(Region)
  BY RunningBatch DEF IInv, TypeOK
<1>2. \A i \in 1 .. n : regions[c][i] \in Region
  BY <1>1
<1>3. \A i \in 1 .. n : hit(i) => [regions[c][i] EXCEPT !.text = {Row(c, b, row(i))}] \in Region
  <2> SUFFICES ASSUME NEW i \in 1 .. n, hit(i)
               PROVE  [regions[c][i] EXCEPT !.text = {Row(c, b, row(i))}] \in Region
    OBVIOUS
  <2>1. row(i) \in 1 .. count
    OBVIOUS
  <2>2. Row(c, b, row(i)) \in Crop
    BY <2>1, IndexOfRow
  <2>3. QED
    BY <1>2, <2>2 DEF Region
<1>4. \A i \in 1 .. n : (IF hit(i) THEN [regions[c][i] EXCEPT !.text = {Row(c, b, row(i))}]
                                   ELSE regions[c][i]) \in Region
  BY <1>2, <1>3
<1>5. [i \in 1 .. n |-> IF hit(i) THEN [regions[c][i] EXCEPT !.text = {Row(c, b, row(i))}]
                                   ELSE regions[c][i]] \in Seq(Region)
  <2> HIDE DEF hit, row
  <2> QED BY <1>1, <1>4, IsASeq
<1>6. QED
  BY <1>5 DEF Stored, Items, Count

\* Every step keeps the types.
LEMMA TypeOKStep == IInv /\ [Next]_vars => TypeOK'
<1> SUFFICES ASSUME IInv, [Next]_vars PROVE TypeOK'
  OBVIOUS
<1>1. ASSUME NEW c \in Callers, Call(c) PROVE TypeOK'
  <2>1. found' \in [Callers -> 0 .. MaxItems]
    <3>1. CASE UNCHANGED found
      BY <3>1 DEF IInv, TypeOK
    <3>2. CASE \E n \in 1 .. MaxItems : found' = [found EXCEPT ![c] = n]
      <4>1. PICK n \in 1 .. MaxItems : found' = [found EXCEPT ![c] = n]
        BY <3>2
      <4>2. n \in 0 .. MaxItems
        BY ConfigAssumption
      <4>3. QED
        BY <4>1, <4>2, Update DEF IInv, TypeOK
    <3>3. QED
      BY <1>1, <3>1, <3>2 DEF Call
  <2>2. kind' \in [Callers -> {"run", "batch"}]
    BY <1>1 DEF IInv, Call, TypeOK
  <2>3. pc' \in [Callers -> Stages]
    BY <1>1 DEF IInv, Call, Goto, TypeOK, Stages
  <2>4. result' \in [Callers -> SUBSET Seq(Region)]
    BY <1>1 DEF IInv, Call, TypeOK
  <2>5. due' \in [Callers -> SUBSET (1 .. MaxItems)]
    <3>1. CASE UNCHANGED due
      BY <3>1 DEF IInv, TypeOK
    <3>2. CASE \E n \in 1 .. MaxItems : due' = [due EXCEPT ![c] = 1 .. n]
      <4>1. PICK n \in 1 .. MaxItems : due' = [due EXCEPT ![c] = 1 .. n]
        BY <3>2
      <4>2. 1 .. n \in SUBSET (1 .. MaxItems)
        BY ConfigAssumption
      <4>3. QED
        BY <4>1, <4>2, Update DEF IInv, TypeOK
    <3>3. QED
      BY <1>1, <3>1, <3>2 DEF Call
  <2>6. QED
    BY <1>1, IInv, <2>1, <2>2, <2>3, <2>4, <2>5 DEF IInv, Call, TypeOK, frame, tasks, Goto, Stages
<1>2. ASSUME NEW c \in Callers, Lock(c) PROVE TypeOK'
  BY <1>2, ConfigAssumption DEF IInv, Lock, Goto, frame, tasks, TypeOK, Stages
<1>3. ASSUME NEW c \in Callers, Detect(c) PROVE TypeOK'
  <2>1. found' \in [Callers -> 0 .. MaxItems]
    <3>1. CASE UNCHANGED found
      BY <3>1 DEF IInv, TypeOK
    <3>2. CASE \E n \in 0 .. MaxItems : found' = [found EXCEPT ![c] = n]
      BY <3>2, Update DEF IInv, TypeOK
    <3>3. QED
      BY <1>3, <3>1, <3>2 DEF Detect
  <2>2. pc' \in [Callers -> Stages]
    <3>1. pc' = [pc EXCEPT ![c] = "crop"] \/ pc' = [pc EXCEPT ![c] = "classify"]
      BY <1>3 DEF Detect, Goto
    <3>2. QED
      BY <3>1 DEF IInv, TypeOK, Stages
  <2>3. crops' \in [Callers -> Seq(Crop)]
    <3>1. \/ crops' = crops
          \/ crops' = [crops EXCEPT ![c] = [i \in 1 .. found[c] |-> NewCrop(i)]]
      BY <1>3 DEF Detect
    <3>2. [i \in 1 .. found[c] |-> NewCrop(i)] \in Seq(Crop)
      BY NewCropsTyped DEF IInv, TypeOK
    <3>3. QED
      BY <3>1, <3>2, Update DEF IInv, TypeOK
  <2>4. regions' \in [Callers -> Seq(Region)]
    <3>1. \/ regions' = regions
          \/ regions' = [regions EXCEPT ![c] = [i \in 1 .. found[c] |-> NewRegion(i)]]
      BY <1>3 DEF Detect
    <3>2. [i \in 1 .. found[c] |-> NewRegion(i)] \in Seq(Region)
      BY NewRegionsTyped DEF IInv, TypeOK
    <3>3. QED
      BY <3>1, <3>2, Update DEF IInv, TypeOK
  <2>5. QED
    BY <1>3, <2>1, <2>2, <2>3, <2>4 DEF IInv, Detect, TypeOK, tasks
<1>4. ASSUME NEW c \in Callers, CropRegion(c) PROVE TypeOK'
  <2>1. cursor[c] \in 1 .. MaxItems
    BY <1>4, ConfigAssumption, SMTT(30) DEF IInv, CropRegion, TypeOK
  <2>2. NewCrop(cursor[c]) \in Crop /\ NewRegion(cursor[c]) \in Region
    BY <2>1 DEF NewCrop, NewRegion, Crop, Region
  <2>3. crops' \in [Callers -> Seq(Crop)]
    <3>1. crops[c] \in Seq(Crop)
      BY DEF IInv, TypeOK
    <3>2. Append(crops[c], NewCrop(cursor[c])) \in Seq(Crop)
      BY <2>2, <3>1, AppendProperties
    <3>3. \/ crops' = crops
          \/ crops' = [crops EXCEPT ![c] = Append(crops[c], NewCrop(cursor[c]))]
      BY <1>4 DEF IInv, TypeOK, CropRegion
    <3>4. QED
      BY <3>2, <3>3, Update DEF IInv, TypeOK
  <2>4. regions' \in [Callers -> Seq(Region)]
    <3>1. regions[c] \in Seq(Region)
      BY DEF IInv, TypeOK
    <3>2. Append(regions[c], NewRegion(cursor[c])) \in Seq(Region)
      BY <2>2, <3>1, AppendProperties
    <3>3. \/ regions' = regions
          \/ regions' = [regions EXCEPT ![c] = Append(regions[c], NewRegion(cursor[c]))]
      BY <1>4 DEF IInv, TypeOK, CropRegion
    <3>4. QED
      BY <3>2, <3>3, Update DEF IInv, TypeOK
  <2>5. cursor' \in [Callers -> Nat \ {0}]
    BY <1>4, SMTT(30) DEF IInv, CropRegion, TypeOK
  <2>6. due' \in [Callers -> SUBSET (1 .. MaxItems)]
    <3>1. due' = due \/ due' = [due EXCEPT ![c] = due[c] \cup {cursor[c]}]
      BY <1>4 DEF CropRegion
    <3>2. due[c] \cup {cursor[c]} \in SUBSET (1 .. MaxItems)
      BY <2>1 DEF IInv, TypeOK
    <3>3. QED
      BY <3>1, <3>2, Update, ZenonT(60) DEF IInv, TypeOK
  <2>7. QED
    BY <1>4, <2>3, <2>4, <2>5, <2>6 DEF IInv, CropRegion, TypeOK, frame, tasks
<1>5. ASSUME NEW c \in Callers, CropDone(c) PROVE TypeOK'
  BY <1>5, ConfigAssumption DEF IInv, CropDone, Goto, frame, tasks, TypeOK, Stages
<1>6. ASSUME NEW c \in Callers, ClassifyBatch(c) PROVE TypeOK'
  <2> DEFINE n == Len(crops[c])
  <2>1. n \in Nat /\ Len(regions[c]) = n /\ n = Count(c)
    BY <1>6 DEF IInv, TypeOK, ClassifyBatch, CallInv, Paired, Count
  <2>2. \A i \in 1 .. n : crops[c][i] \in Crop /\ regions[c][i] \in Region
    BY <2>1 DEF IInv, TypeOK
  <2>3. PICK turned \in SUBSET Items(c) :
          /\ regions' = [regions EXCEPT ![c] = [i \in Items(c) |->
                IF i \in turned THEN [regions[c][i] EXCEPT !.flipped = TRUE] ELSE regions[c][i]]]
          /\ crops' = [crops EXCEPT ![c] = [i \in Items(c) |->
                IF i \in turned THEN [crops[c][i] EXCEPT !.rotated = TRUE] ELSE crops[c][i]]]
    BY <1>6, ZenonT(60) DEF IInv, TypeOK, ClassifyBatch
  <2>4. \A i \in 1 .. n : /\ [regions[c][i] EXCEPT !.flipped = TRUE] \in Region
                          /\ [crops[c][i] EXCEPT !.rotated = TRUE] \in Crop
    BY <2>2 DEF Region, Crop
  <2>5. crops' \in [Callers -> Seq(Crop)]
    <3> DEFINE s(i) == IF i \in turned THEN [crops[c][i] EXCEPT !.rotated = TRUE] ELSE crops[c][i]
    <3>1. \A i \in 1 .. n : s(i) \in Crop
      BY <2>2, <2>4
    <3>2. crops' = [crops EXCEPT ![c] = [i \in 1 .. n |-> s(i)]]
      BY <2>3 DEF Items
    <3> HIDE DEF s
    <3>3. [i \in 1 .. n |-> s(i)] \in Seq(Crop)
      BY <2>1, <3>1, IsASeq
    <3>4. QED
      BY <3>2, <3>3, Update DEF IInv, TypeOK
  <2>6. regions' \in [Callers -> Seq(Region)]
    <3> DEFINE s(i) == IF i \in turned THEN [regions[c][i] EXCEPT !.flipped = TRUE] ELSE regions[c][i]
    <3>1. \A i \in 1 .. n : s(i) \in Region
      BY <2>2, <2>4
    <3>2. regions' = [regions EXCEPT ![c] = [i \in 1 .. n |-> s(i)]]
      BY <2>3 DEF Items
    <3> HIDE DEF s
    <3>3. [i \in 1 .. n |-> s(i)] \in Seq(Region)
      BY <2>1, <3>1, IsASeq
    <3>4. QED
      BY <3>2, <3>3, Update DEF IInv, TypeOK
  <2>7. cursor' \in [Callers -> Nat \ {0}]
    <3>1. cursor' = [cursor EXCEPT ![c] = cursor[c] + ClsBatchSize]
      BY <1>6 DEF ClassifyBatch
    <3>2. cursor[c] + ClsBatchSize \in Nat \ {0}
      BY ConfigAssumption, SMTT(30) DEF IInv, TypeOK
    <3>3. QED
      BY <3>1, <3>2, Update DEF IInv, TypeOK
  <2>8. QED
    BY <1>6, <2>5, <2>6, <2>7 DEF IInv, ClassifyBatch, TypeOK, tasks
<1>7. ASSUME NEW c \in Callers, ClassifyDone(c) PROVE TypeOK'
  BY <1>7, ConfigAssumption DEF IInv, ClassifyDone, Goto, frame, tasks, TypeOK, Stages
<1>8. ASSUME NEW c \in Callers, Split(c) PROVE TypeOK'
  <2>1. PICK order \in Orders(Len(crops[c])) : sorted' = [sorted EXCEPT ![c] = order]
    BY <1>8 DEF Split
  <2>2. Len(crops[c]) \in Nat
    BY DEF IInv, TypeOK
  <2>3. order \in Seq(Nat)
    <3>1. order \in [1 .. Len(crops[c]) -> 1 .. Len(crops[c])]
      BY <2>1 DEF Orders, Bijection, Injection
    <3>2. order \in [1 .. Len(crops[c]) -> Nat]
      BY <3>1, <2>2
    <3>3. QED
      BY <3>2, <2>2, SeqDef
  <2>4. sorted' \in [Callers -> Seq(Nat)]
    BY <2>1, <2>3 DEF IInv, TypeOK
  <2>5. next_batch' \in [Callers -> Nat] /\ pc' \in [Callers -> Stages]
    BY <1>8 DEF IInv, Split, Goto, TypeOK, Stages
  <2>6. QED
    BY <1>8, <2>4, <2>5 DEF IInv, Split, TypeOK
<1>9. ASSUME NEW c \in Callers, Launch(c) PROVE TypeOK'
  <2>1. task' \in [Callers -> [Workers -> {"none", "fetch", "run", "ended", "threw"}]]
    BY <1>9 DEF IInv, Launch, TypeOK
  <2>2. cursor' \in [Callers -> Nat \ {0}]
    BY <1>9 DEF IInv, Launch, TypeOK
  <2>3. QED
    BY <1>9, <2>1, <2>2 DEF IInv, Launch, TypeOK, frame
<1>10. ASSUME NEW c \in Callers, LaunchDone(c) PROVE TypeOK'
  BY <1>10, ConfigAssumption DEF IInv, LaunchDone, Goto, frame, tasks, TypeOK, Stages
<1>11. ASSUME NEW c \in Callers, Join(c) PROVE TypeOK'
  <2>1. cursor' \in [Callers -> Nat \ {0}]
    <3>1. cursor' = cursor \/ cursor' = [cursor EXCEPT ![c] = cursor[c] + 1]
      BY <1>11 DEF Join
    <3>2. cursor \in [Callers -> Nat \ {0}] /\ cursor[c] + 1 \in Nat \ {0}
      BY DEF IInv, TypeOK
    <3>3. QED
      BY <3>1, <3>2, Update
  <2>2. pc' \in [Callers -> Stages]
    <3>1. pc' = pc \/ pc' = [pc EXCEPT ![c] = "unwind"]
      BY <1>11 DEF Join, Goto
    <3>2. QED
      BY <3>1 DEF IInv, TypeOK, Stages
  <2>3. QED
    BY <1>11, <2>1, <2>2 DEF IInv, Join, TypeOK, frame, tasks
<1>12. ASSUME NEW c \in Callers, JoinDone(c) PROVE TypeOK'
  BY <1>12, ConfigAssumption DEF IInv, JoinDone, Goto, LeaveRecognizer, Alive, frame, tasks, TypeOK, Stages
<1>13. ASSUME NEW c \in Callers, Throw(c) PROVE TypeOK'
  BY <1>13, ConfigAssumption DEF IInv, Throw, Goto, frame, tasks, TypeOK, Stages
<1>14. ASSUME NEW c \in Callers, Unwind(c) PROVE TypeOK'
  BY <1>14, ConfigAssumption DEF IInv, Unwind, Goto, LeaveRecognizer, Alive, frame, tasks, TypeOK, Stages
<1>15. ASSUME NEW c \in Callers, Unlock(c) PROVE TypeOK'
  BY <1>15, ConfigAssumption DEF IInv, Unlock, Goto, frame, tasks, TypeOK, Stages
<1>16. ASSUME NEW c \in Callers, Convert(c) PROVE TypeOK'
  <2>1. Native(c) \in Seq(Region)
    BY <1>16, NativeTyped DEF IInv, Convert
  <2>2. result' \in [Callers -> SUBSET Seq(Region)]
    <3>1. result' = result \/ result' = [result EXCEPT ![c] = {Native(c)}]
      BY <1>16 DEF Convert
    <3>2. {Native(c)} \in SUBSET Seq(Region)
      BY <2>1
    <3>3. QED
      BY <3>1, <3>2, Update DEF IInv, TypeOK
  <2>3. status' \in [Callers -> {"none", "OK", "ERROR"}] /\ pc' \in [Callers -> Stages]
    BY <1>16 DEF IInv, Convert, Goto, TypeOK, Stages
  <2>4. regions' \in [Callers -> Seq(Region)]
    BY <1>16 DEF IInv, Convert, TypeOK
  <2>5. QED
    BY <1>16, <2>2, <2>3, <2>4 DEF IInv, Convert, TypeOK, tasks
<1>17. ASSUME NEW c \in Callers, Free(c) PROVE TypeOK'
  BY <1>17, ConfigAssumption DEF IInv, Free, Goto, frame, tasks, TypeOK, Stages
<1>18. ASSUME NEW c \in Callers, NEW w \in Workers, Fetch(c, w) PROVE TypeOK'
  <2>1. task' \in [Callers -> [Workers -> {"none", "fetch", "run", "ended", "threw"}]]
    <3>1. CASE task' = [task EXCEPT ![c][w] = "run"]
      BY <3>1, UpdateTwo DEF IInv, TypeOK
    <3>2. CASE task' = [task EXCEPT ![c][w] = "ended"]
      BY <3>2, UpdateTwo DEF IInv, TypeOK
    <3>3. QED
      BY <1>18, <3>1, <3>2, Zenon DEF Fetch
  <2>2. next_batch' \in [Callers -> Nat] /\ batch' \in [Callers -> [Workers -> Nat]]
    <3>1. next_batch[c] \in Nat /\ next_batch[c] + 1 \in Nat
      BY DEF IInv, TypeOK
    <3>2. next_batch' = [next_batch EXCEPT ![c] = next_batch[c] + 1]
      BY <1>18 DEF Fetch
    <3>3. next_batch' \in [Callers -> Nat]
      BY <3>1, <3>2, Update DEF IInv, TypeOK
    <3>4. CASE batch' = [batch EXCEPT ![c][w] = next_batch[c]]
      <4>1. batch \in [Callers -> [Workers -> Nat]]
        BY DEF IInv, TypeOK
      <4>2. [batch EXCEPT ![c][w] = next_batch[c]] \in [Callers -> [Workers -> Nat]]
        BY <3>1, <4>1, UpdateTwo
      <4>3. QED
        BY <3>3, <3>4, <4>2
    <3>5. CASE batch' = batch
      BY <3>3, <3>5 DEF IInv, TypeOK
    <3>6. QED
      BY <1>18, <3>4, <3>5, Zenon DEF Fetch
  <2>3. QED
    BY <1>18, <2>1, <2>2 DEF IInv, Fetch, TypeOK, frame
<1>19. ASSUME NEW c \in Callers, NEW w \in Workers, RunBatch(c, w) PROVE TypeOK'
  <2>1. PICK count \in RowCounts(c, batch[c][w]) :
          regions' = [regions EXCEPT ![c] = Stored(c, batch[c][w], count)]
    BY <1>19 DEF RunBatch
  <2>2. Stored(c, batch[c][w], count) \in Seq(Region)
    BY <1>19, StoredTyped DEF RunBatch
  <2>3. regions' \in [Callers -> Seq(Region)]
    BY <2>1, <2>2 DEF IInv, TypeOK
  <2>4. task' \in [Callers -> [Workers -> {"none", "fetch", "run", "ended", "threw"}]]
    BY <1>19 DEF IInv, RunBatch, TypeOK
  <2>5. QED
    BY <1>19, <2>3, <2>4 DEF IInv, RunBatch, TypeOK
<1>20. ASSUME NEW c \in Callers, NEW w \in Workers, RunBatchThrows(c, w) PROVE TypeOK'
  BY <1>20, ConfigAssumption DEF IInv, RunBatchThrows, Goto, frame, tasks, TypeOK, Stages
<1>21. CASE UNCHANGED vars
  BY <1>21 DEF IInv, vars, TypeOK, Stages
<1>22. QED
  BY <1>1, <1>2, <1>3, <1>4, <1>5, <1>6, <1>7, <1>8, <1>9, <1>10, <1>11, <1>12, <1>13, <1>14, <1>15, <1>16, <1>17, <1>18, <1>19, <1>20, <1>21 DEF Next, CallAction, CallerStep, TaskStep

------------------------------------------------------------------------------
(* Batches and workers.                                                    *)

\* There is a worker to join as soon as there is a crop, and a net for each worker.
LEMMA WorkerCountBounds ==
    ASSUME NEW n \in Nat
    PROVE  /\ WorkerCount(n) \in Nat
           /\ WorkerCount(n) <= RecConcurrency
           /\ WorkerCount(n) <= BatchCount(n)
           /\ n # 0 => WorkerCount(n) >= 1
<1>1. BatchCount(n) \in Nat /\ (0 < BatchCount(n) <=> Begin(0) < n)
  BY BatchCountBegin
<1>2. Begin(0) = 0
  BY ConfigAssumption DEF Begin
<1>3. QED
  BY <1>1, <1>2, ConfigAssumption DEF WorkerCount

\* Every position of the order is in the slice of one of the batches.
LEMMA SliceCovers ==
    ASSUME NEW n \in Nat, NEW p \in 1 .. n
    PROVE  \E b \in Nat : b < BatchCount(n) /\ p \in Slice(n, b)
<1> DEFINE S == RecBatchSize
           b == (p - 1) \div S
<1>1. S \in Nat /\ S >= 1
  BY ConfigAssumption
<1>2. b \in Nat /\ b * S <= p - 1 /\ p - 1 < b * S + S
  BY <1>1, SMT
<1>3. Begin(b) \in Nat /\ Begin(b) <= p - 1 /\ p - 1 < Begin(b) + S
  BY <1>2, BeginNat DEF Begin
<1>4. b < BatchCount(n)
  BY <1>2, <1>3, BatchCountBegin
<1>5. p \in Slice(n, b)
  BY <1>1, <1>3 DEF Slice, End
<1>6. QED
  BY <1>2, <1>4, <1>5

\* The slices of two batches have no position in common.
LEMMA SlicesDisjoint ==
    ASSUME NEW n \in Nat, NEW a \in Nat, NEW b \in Nat, a # b
    PROVE  Slice(n, a) \cap Slice(n, b) = {}
<1>1. ASSUME NEW x \in Nat, NEW y \in Nat, x < y PROVE Slice(n, x) \cap Slice(n, y) = {}
  <2>1. Begin(x) \in Nat /\ Begin(y) \in Nat /\ Begin(x) + RecBatchSize <= Begin(y)
    BY <1>1, BeginMonotonic
  <2>2. RecBatchSize \in Nat /\ End(n, y) \in Nat
    BY <2>1, ConfigAssumption DEF End
  <2>3. End(n, x) \in Nat /\ End(n, x) <= Begin(x) + RecBatchSize
    BY <2>1, <2>2 DEF End
  <2>4. QED
    BY <2>1, <2>2, <2>3 DEF Slice
<1>2. CASE a < b
  BY <1>1, <1>2
<1>3. CASE b < a
  BY <1>1, <1>3
<1>4. QED
  BY <1>2, <1>3

------------------------------------------------------------------------------
(* What the actions do to the call they belong to.                         *)

\* When the last future has been read, and when a call unwinds, no task is left.
LEMMA NoTaskLeft ==
    ASSUME IInv, NEW c \in Callers, JoinDone(c) \/ Unwind(c)
    PROVE  \A w \in Workers : task'[c][w] = "none"
<1>1. \A w \in Workers : ~Alive(c, w)
  <2>1. CASE Unwind(c)
    BY <2>1 DEF Unwind
  <2>2. CASE JoinDone(c)
    <3> SUFFICES ASSUME NEW w \in Workers PROVE ~Alive(c, w)
      OBVIOUS
    <3>1. WorkerCount(Count(c)) \in Nat /\ cursor[c] \in Nat /\ cursor[c] > WorkerCount(Count(c))
      BY <2>2, WorkerCountBounds DEF IInv, TypeOK, JoinDone, Count
    <3>2. pc[c] = "join"
      BY <2>2 DEF JoinDone
    <3>3. w <= WorkerCount(Count(c)) => w < cursor[c]
      BY <3>1 DEF Workers
    <3>4. task[c][w] = "none" \/ task[c][w] = "ended"
      BY <3>2, <3>3 DEF IInv, CallInv, TasksOfStage
    <3>5. QED
      BY <3>4 DEF Alive
  <2>3. QED
    BY <2>1, <2>2
<1>2. task' = [task EXCEPT ![c] = [w \in Workers |-> IF Alive(c, w) THEN task[c][w] ELSE "none"]]
  BY DEF JoinDone, Unwind, LeaveRecognizer
<1>3. task'[c] = [w \in Workers |-> IF Alive(c, w) THEN task[c][w] ELSE "none"]
  BY <1>2 DEF IInv, TypeOK
<1>4. QED
  BY <1>1, <1>3

\* What Detect leaves in the vectors of a batch call.
LEMMA DetectEffect ==
    ASSUME IInv, NEW c \in Callers, Detect(c), kind[c] = "batch"
    PROVE  /\ pc' = [pc EXCEPT ![c] = "classify"]
           /\ Len(crops'[c]) = found[c] /\ Len(regions'[c]) = found[c]
           /\ \A i \in 1 .. found[c] : crops'[c][i] = NewCrop(i) /\ regions'[c][i] = NewRegion(i)
<1>1. /\ pc' = [pc EXCEPT ![c] = "classify"]
      /\ crops' = [crops EXCEPT ![c] = [i \in 1 .. found[c] |-> NewCrop(i)]]
      /\ regions' = [regions EXCEPT ![c] = [i \in 1 .. found[c] |-> NewRegion(i)]]
  BY DEF Detect, Goto
<1>2. /\ crops'[c] = [i \in 1 .. found[c] |-> NewCrop(i)]
      /\ regions'[c] = [i \in 1 .. found[c] |-> NewRegion(i)]
  BY <1>1 DEF IInv, TypeOK
<1>3. found[c] \in Nat
  BY ConfigAssumption DEF IInv, TypeOK
<1> HIDE DEF NewCrop, NewRegion
<1>4. QED
  BY <1>1, <1>2, <1>3

\* CropRegion adds the region it cut at the end of both vectors, and to what is due,
\* or to none of them.
LEMMA CropRegionEffect ==
    ASSUME IInv, NEW c \in Callers, CropRegion(c)
    PROVE  \/ crops'[c] = crops[c] /\ regions'[c] = regions[c] /\ due'[c] = due[c]
           \/ /\ Len(crops'[c]) = Len(crops[c]) + 1 /\ Len(regions'[c]) = Len(regions[c]) + 1
              /\ due'[c] = due[c] \cup {cursor[c]}
              /\ \A i \in 1 .. Len(crops[c]) : crops'[c][i] = crops[c][i]
              /\ \A i \in 1 .. Len(regions[c]) : regions'[c][i] = regions[c][i]
              /\ crops'[c][Len(crops[c]) + 1] = NewCrop(cursor[c])
              /\ regions'[c][Len(regions[c]) + 1] = NewRegion(cursor[c])
<1>1. crops[c] \in Seq(Crop) /\ regions[c] \in Seq(Region)
  BY DEF IInv, TypeOK
<1>2. CASE UNCHANGED <<crops, regions, due>>
  BY <1>2
<1>3. CASE /\ crops' = [crops EXCEPT ![c] = Append(@, NewCrop(cursor[c]))]
           /\ regions' = [regions EXCEPT ![c] = Append(@, NewRegion(cursor[c]))]
           /\ due' = [due EXCEPT ![c] = @ \cup {cursor[c]}]
  <2>1. /\ crops'[c] = Append(crops[c], NewCrop(cursor[c]))
        /\ regions'[c] = Append(regions[c], NewRegion(cursor[c]))
        /\ due'[c] = due[c] \cup {cursor[c]}
    BY <1>3 DEF IInv, TypeOK
  <2>2. QED
    BY <1>1, <2>1
<1>4. QED
  BY <1>2, <1>3 DEF CropRegion

\* ClassifyBatch turns crops and notes it in their regions, nothing else.
LEMMA ClassifyBatchEffect ==
    ASSUME IInv, NEW c \in Callers, ClassifyBatch(c)
    PROVE  /\ pc[c] = "classify" /\ Len(crops'[c]) = Len(crops[c]) /\ Len(regions'[c]) = Len(crops[c])
           /\ \A i \in 1 .. Len(crops[c]) :
                 \/ crops'[c][i] = crops[c][i] /\ regions'[c][i] = regions[c][i]
                 \/ /\ crops'[c][i] = [crops[c][i] EXCEPT !.rotated = TRUE]
                    /\ regions'[c][i] = [regions[c][i] EXCEPT !.flipped = TRUE]
<1>1. Len(crops[c]) \in Nat
  BY DEF IInv, TypeOK
<1>2. PICK turned \in SUBSET Items(c) :
          /\ regions' = [regions EXCEPT ![c] = [i \in Items(c) |->
                IF i \in turned THEN [regions[c][i] EXCEPT !.flipped = TRUE] ELSE regions[c][i]]]
          /\ crops' = [crops EXCEPT ![c] = [i \in Items(c) |->
                IF i \in turned THEN [crops[c][i] EXCEPT !.rotated = TRUE] ELSE crops[c][i]]]
  BY ZenonT(60) DEF IInv, TypeOK, ClassifyBatch
<1>3. /\ regions'[c] = [i \in 1 .. Len(crops[c]) |->
                IF i \in turned THEN [regions[c][i] EXCEPT !.flipped = TRUE] ELSE regions[c][i]]
      /\ crops'[c] = [i \in 1 .. Len(crops[c]) |->
                IF i \in turned THEN [crops[c][i] EXCEPT !.rotated = TRUE] ELSE crops[c][i]]
  BY <1>2 DEF IInv, TypeOK, Items
<1>4. Len(crops'[c]) = Len(crops[c]) /\ Len(regions'[c]) = Len(crops[c])
  BY <1>1, <1>3
<1>5. \A i \in 1 .. Len(crops[c]) :
         /\ i \in turned => /\ crops'[c][i] = [crops[c][i] EXCEPT !.rotated = TRUE]
                            /\ regions'[c][i] = [regions[c][i] EXCEPT !.flipped = TRUE]
         /\ i \notin turned => crops'[c][i] = crops[c][i] /\ regions'[c][i] = regions[c][i]
  BY <1>3, Zenon
<1>6. pc[c] = "classify"
  BY DEF ClassifyBatch
<1>7. QED
  BY <1>4, <1>5, <1>6

\* RunBatch writes the text of a region's own crop into regions of its slice, into
\* all of them when the model returns every row, and touches nothing else.
LEMMA RunBatchEffect ==
    ASSUME IInv, NEW c \in Callers, NEW w \in Workers, RunBatch(c, w)
    PROVE  /\ Len(regions'[c]) = Count(c)
           /\ \A i \in 1 .. Count(c) :
                 \/ regions'[c][i] = regions[c][i]
                 \/ regions'[c][i] = [regions[c][i] EXCEPT !.text = {crops[c][i]}]
           /\ ShortOutput \/ \A p \in Slice(Count(c), batch[c][w]) :
                 regions'[c][sorted[c][p]] = [regions[c][sorted[c][p]] EXCEPT !.text = {crops[c][sorted[c][p]]}]
<1> DEFINE b == batch[c][w]
           n == Count(c)
<1>1. task[c][w] = "run"
  BY DEF RunBatch
<1>2. PICK count \in RowCounts(c, b) : regions' = [regions EXCEPT ![c] = Stored(c, b, count)]
  BY DEF RunBatch
<1> DEFINE hit(i) == \E k \in 1 .. count : Index(c, b, k) = i
           row(i) == CHOOSE k \in 1 .. count : Index(c, b, k) = i
<1>3. n \in Nat /\ b \in Nat /\ b < BatchCount(n) /\ sorted[c] \in [1 .. n -> 1 .. n]
  BY <1>1, RunningBatch DEF Orders, Bijection, Injection
<1>4. regions'[c] = [i \in 1 .. n |-> IF hit(i) THEN [regions[c][i] EXCEPT !.text = {Row(c, b, row(i))}]
                                                ELSE regions[c][i]]
  BY <1>2 DEF IInv, TypeOK, Stored, Items, Count
<1>5. \A i \in 1 .. n : hit(i) => Row(c, b, row(i)) = crops[c][i]
  <2> SUFFICES ASSUME NEW i \in 1 .. n, hit(i) PROVE Row(c, b, row(i)) = crops[c][i]
    OBVIOUS
  <2>1. row(i) \in 1 .. count /\ Index(c, b, row(i)) = i
    OBVIOUS
  <2>2. QED
    BY <2>1 DEF Row
<1> HIDE DEF hit, row
<1>6. Len(regions'[c]) = n
  BY <1>3, <1>4
<1>7. \A i \in 1 .. n :
         /\ hit(i) => regions'[c][i] = [regions[c][i] EXCEPT !.text = {crops[c][i]}]
         /\ ~hit(i) => regions'[c][i] = regions[c][i]
  BY <1>4, <1>5
<1>8. ASSUME ~ShortOutput, NEW p \in Slice(n, b) PROVE hit(sorted[c][p]) /\ sorted[c][p] \in 1 .. n
  <2>1. Begin(b) \in Nat /\ RecBatchSize \in Nat
    BY <1>3, BeginNat, ConfigAssumption
  <2>2. End(n, b) \in Int /\ End(n, b) <= n
    BY <1>3, <2>1 DEF End
  <2>3. count = End(n, b) - Begin(b)
    BY <1>8 DEF RowCounts, Count
  <2>4. p - Begin(b) \in 1 .. count /\ p = Begin(b) + (p - Begin(b)) /\ p \in 1 .. n
    BY <1>3, <1>8, <2>1, <2>2, <2>3 DEF Slice
  <2>5. Index(c, b, p - Begin(b)) = sorted[c][p]
    BY <2>4 DEF Index
  <2>6. QED
    BY <1>3, <2>4, <2>5 DEF hit
<1>9. QED
  BY <1>6, <1>7, <1>8

\* What a fresh crop and a fresh region hold.
LEMMA NewItems ==
    ASSUME NEW i
    PROVE  /\ NewCrop(i).src = NewRegion(i).src /\ NewCrop(i).rotated = NewRegion(i).flipped
           /\ NewRegion(i).src = i /\ NewRegion(i).text = {}
BY DEF NewCrop, NewRegion

------------------------------------------------------------------------------
(* The parts of CallInv, for the call that makes the step.                 *)

\* A call has an answer exactly when it has returned.
LEMMA AnsweredStep ==
    ASSUME IInv, TypeOK', NEW c \in Callers, CallAction(c)
    PROVE  Answered(c)'
<1>0. TypeOK /\ Answered(c)
  BY DEF IInv, CallInv
<1>1. CASE Call(c)
  BY <1>0, <1>1, ConfigAssumption DEF Call, Goto, frame, tasks, TypeOK, Answered, Stages
<1>2. CASE Lock(c)
  BY <1>0, <1>2, ConfigAssumption DEF Lock, Goto, frame, tasks, TypeOK, Answered, Stages
<1>3. CASE Detect(c)
  BY <1>0, <1>3, ConfigAssumption DEF Detect, Goto, frame, tasks, TypeOK, Answered, Stages
<1>4. CASE CropRegion(c)
  BY <1>0, <1>4, ConfigAssumption DEF CropRegion, Goto, frame, tasks, TypeOK, Answered, Stages
<1>5. CASE CropDone(c)
  BY <1>0, <1>5, ConfigAssumption DEF CropDone, Goto, frame, tasks, TypeOK, Answered, Stages
<1>6. CASE ClassifyBatch(c)
  BY <1>0, <1>6, ConfigAssumption DEF ClassifyBatch, Goto, frame, tasks, TypeOK, Answered, Stages
<1>7. CASE ClassifyDone(c)
  BY <1>0, <1>7, ConfigAssumption DEF ClassifyDone, Goto, frame, tasks, TypeOK, Answered, Stages
<1>8. CASE Split(c)
  BY <1>0, <1>8, ConfigAssumption DEF Split, Goto, frame, tasks, TypeOK, Answered, Stages
<1>9. CASE Launch(c)
  BY <1>0, <1>9, ConfigAssumption DEF Launch, Goto, frame, tasks, TypeOK, Answered, Stages
<1>10. CASE LaunchDone(c)
  BY <1>0, <1>10, ConfigAssumption DEF LaunchDone, Goto, frame, tasks, TypeOK, Answered, Stages
<1>11. CASE Join(c)
  BY <1>0, <1>11, ConfigAssumption DEF Join, Goto, frame, tasks, TypeOK, Answered, Stages
<1>12. CASE JoinDone(c)
  BY <1>0, <1>12, ConfigAssumption DEF JoinDone, Goto, LeaveRecognizer, Alive, frame, tasks, TypeOK, Answered, Stages
<1>13. CASE Throw(c)
  BY <1>0, <1>13, ConfigAssumption DEF Throw, Goto, frame, tasks, TypeOK, Answered, Stages
<1>14. CASE Unwind(c)
  BY <1>0, <1>14, ConfigAssumption DEF Unwind, Goto, LeaveRecognizer, Alive, frame, tasks, TypeOK, Answered, Stages
<1>15. CASE Unlock(c)
  BY <1>0, <1>15, ConfigAssumption DEF Unlock, Goto, frame, tasks, TypeOK, Answered, Stages
<1>16. CASE Convert(c)
  BY <1>0, <1>16, ConfigAssumption DEF Convert, Goto, Native, frame, tasks, TypeOK, Answered, Stages
<1>17. CASE Free(c)
  BY <1>0, <1>17, ConfigAssumption DEF Free, Goto, frame, tasks, TypeOK, Answered, Stages
<1>18. ASSUME NEW w \in Workers, Fetch(c, w) PROVE Answered(c)'
  BY <1>0, <1>18, ConfigAssumption DEF Fetch, Goto, frame, tasks, TypeOK, Answered, Stages
<1>19. ASSUME NEW w \in Workers, RunBatch(c, w) PROVE Answered(c)'
  BY <1>0, <1>19, ConfigAssumption DEF RunBatch, Goto, Stored, frame, tasks, TypeOK, Answered, Stages
<1>20. ASSUME NEW w \in Workers, RunBatchThrows(c, w) PROVE Answered(c)'
  BY <1>0, <1>20, ConfigAssumption DEF RunBatchThrows, Goto, frame, tasks, TypeOK, Answered, Stages
<1>21. QED
  BY <1>1, <1>2, <1>3, <1>4, <1>5, <1>6, <1>7, <1>8, <1>9, <1>10, <1>11, <1>12, <1>13, <1>14, <1>15, <1>16, <1>17, <1>18, <1>19, <1>20 DEF CallAction, CallerStep, TaskStep

\* Tasks are launched and joined in order, inside the recogniser's frame.
LEMMA TasksOfStageStep ==
    ASSUME IInv, TypeOK', NEW c \in Callers, CallAction(c)
    PROVE  TasksOfStage(c)'
<1>0. TypeOK /\ TasksOfStage(c) /\ Paired(c)
  BY DEF IInv, CallInv
<1>n. Count(c) \in Nat
  BY DEF IInv, TypeOK, Count
<1>w. /\ Count(c) \in Nat /\ WorkerCount(Count(c)) \in Nat
      /\ WorkerCount(Count(c)) <= RecConcurrency /\ (Count(c) # 0 => WorkerCount(Count(c)) >= 1)
  BY <1>n, WorkerCountBounds
<1>1. CASE Call(c)
  BY <1>0, <1>1, ConfigAssumption, <1>w DEF Call, Goto, frame, tasks, TypeOK, TasksOfStage, Recognizing, Workers, Count
<1>2. CASE Lock(c)
  BY <1>0, <1>2, ConfigAssumption, <1>w DEF Lock, Goto, frame, tasks, TypeOK, TasksOfStage, Recognizing, Workers, Count
<1>3. CASE Detect(c)
  <2>1. pc[c] = "detect" /\ pc'[c] \in {"crop", "classify"} /\ task' = task
    BY <1>0, <1>3 DEF Detect, Goto, tasks, TypeOK
  <2>2. \A w \in Workers : task[c][w] = "none"
    BY <1>0, <2>1 DEF TasksOfStage, Recognizing
  <2>3. QED
    BY <2>1, <2>2 DEF TasksOfStage
<1>4. CASE CropRegion(c)
  BY <1>0, <1>4, ConfigAssumption, <1>w DEF CropRegion, Goto, frame, tasks, TypeOK, TasksOfStage, Recognizing, Workers, Count
<1>5. CASE CropDone(c)
  BY <1>0, <1>5, ConfigAssumption, <1>w DEF CropDone, Goto, frame, tasks, TypeOK, TasksOfStage, Recognizing, Workers, Count
<1>6. CASE ClassifyBatch(c)
  BY <1>0, <1>6, ConfigAssumption, <1>w DEF ClassifyBatch, Goto, frame, tasks, TypeOK, TasksOfStage, Recognizing, Workers, Count
<1>7. CASE ClassifyDone(c)
  BY <1>0, <1>7, ConfigAssumption, <1>w DEF ClassifyDone, Goto, frame, tasks, TypeOK, TasksOfStage, Recognizing, Workers, Count
<1>8. CASE Split(c)
  <2>1. pc[c] = "split" /\ cursor'[c] = 1 /\ pc'[c] = "launch" /\ task' = task
    BY <1>0, <1>8 DEF Split, Goto, TypeOK, TasksOfStage
  <2>2. \A w \in Workers : task[c][w] = "none" /\ w >= 1
    BY <1>0, <2>1 DEF TasksOfStage, Recognizing, Workers
  <2>3. QED
    BY <2>1, <2>2 DEF TasksOfStage, Workers
<1>9. CASE Launch(c)
  <2>1. /\ pc[c] = "launch" /\ pc'[c] = "launch" /\ Count(c)' = Count(c)
        /\ cursor[c] \in Nat /\ cursor'[c] = cursor[c] + 1 /\ cursor[c] <= WorkerCount(Count(c))
    BY <1>0, <1>9 DEF Launch, frame, Count, TypeOK
  <2>2. \A w \in Workers : task'[c][w] = IF w = cursor[c] THEN "fetch" ELSE task[c][w]
    BY <1>0, <1>9 DEF Launch, TypeOK
  <2>3. QED
    BY <1>0, <1>w, <2>1, <2>2 DEF TasksOfStage, Workers, Recognizing
<1>10. CASE LaunchDone(c)
  <2>1. /\ pc[c] = "launch" /\ pc'[c] = "join" /\ Count(c)' = Count(c)
        /\ cursor[c] \in Nat /\ cursor'[c] = 1 /\ cursor[c] > WorkerCount(Count(c))
        /\ task' = task
    BY <1>0, <1>10 DEF LaunchDone, Goto, frame, tasks, Count, TypeOK
  <2>2. QED
    BY <1>0, <1>w, <2>1 DEF TasksOfStage, Workers, Recognizing
<1>11. CASE Join(c)
  <2>1. /\ pc[c] = "join" /\ Count(c)' = Count(c) /\ task' = task
        /\ cursor[c] \in Nat
        /\ \/ pc'[c] = "unwind"
           \/ pc'[c] = "join" /\ cursor'[c] = cursor[c] + 1 /\ task[c][cursor[c]] = "ended"
    BY <1>0, <1>11 DEF Join, Goto, frame, tasks, Count, TypeOK
  <2>2. QED
    BY <1>0, <1>w, <2>1 DEF TasksOfStage, Workers, Recognizing
<1>12. CASE JoinDone(c)
  <2>1. pc'[c] = "unlock"
    BY <1>0, <1>12 DEF JoinDone, Goto, TypeOK
  <2>2. \A w \in Workers : task'[c][w] = "none"
    BY <1>12, NoTaskLeft
  <2>3. QED
    BY <2>1, <2>2 DEF TasksOfStage
<1>13. CASE Throw(c)
  BY <1>0, <1>13, ConfigAssumption, <1>w DEF Throw, Goto, frame, tasks, TypeOK, TasksOfStage, Recognizing, Workers, Count
<1>14. CASE Unwind(c)
  BY <1>0, <1>14, ConfigAssumption, <1>w DEF Unwind, Goto, LeaveRecognizer, Alive, frame, tasks, TypeOK, TasksOfStage, Recognizing, Workers, Count
<1>15. CASE Unlock(c)
  BY <1>0, <1>15, ConfigAssumption, <1>w DEF Unlock, Goto, frame, tasks, TypeOK, TasksOfStage, Recognizing, Workers, Count
<1>16. CASE Convert(c)
  BY <1>0, <1>16, ConfigAssumption, <1>w DEF Convert, Goto, Native, frame, tasks, TypeOK, TasksOfStage, Recognizing, Workers, Count
<1>17. CASE Free(c)
  BY <1>0, <1>17, ConfigAssumption, <1>w DEF Free, Goto, frame, tasks, TypeOK, TasksOfStage, Recognizing, Workers, Count
<1>18. ASSUME NEW w \in Workers, Fetch(c, w) PROVE TasksOfStage(c)'
  <2>1. pc' = pc /\ cursor' = cursor /\ Count(c)' = Count(c)
    BY <1>18 DEF Fetch, frame, Count
  <2>2. \A v \in Workers : \/ task'[c][v] = task[c][v]
                           \/ task[c][v] = "fetch" /\ task'[c][v] \in {"run", "ended"}
    BY <1>0, <1>18, SMTT(30) DEF Fetch, TypeOK
  <2>3. QED
    BY <1>0, <2>1, <2>2 DEF TasksOfStage
<1>19. ASSUME NEW w \in Workers, RunBatch(c, w) PROVE TasksOfStage(c)'
  <2>1. /\ task[c][w] = "run" /\ task' = [task EXCEPT ![c][w] = "fetch"]
        /\ UNCHANGED <<pc, cursor, crops>>
    BY <1>19 DEF RunBatch
  <2>2. QED
    BY <1>0, <2>1 DEF TypeOK, TasksOfStage, Recognizing, Count
<1>20. ASSUME NEW w \in Workers, RunBatchThrows(c, w) PROVE TasksOfStage(c)'
  <2>1. /\ task[c][w] = "run" /\ task' = [task EXCEPT ![c][w] = "threw"]
        /\ UNCHANGED <<pc, cursor, crops>>
    BY <1>20 DEF RunBatchThrows, frame
  <2>2. QED
    BY <1>0, <2>1 DEF TypeOK, TasksOfStage, Recognizing, Count
<1>21. QED
  BY <1>1, <1>2, <1>3, <1>4, <1>5, <1>6, <1>7, <1>8, <1>9, <1>10, <1>11, <1>12, <1>13, <1>14, <1>15, <1>16, <1>17, <1>18, <1>19, <1>20 DEF CallAction, CallerStep, TaskStep

\* No batch is fetched twice.
LEMMA ClaimsStep ==
    ASSUME IInv, TypeOK', NEW c \in Callers, CallAction(c)
    PROVE  Claims(c)'
<1>0. TypeOK /\ TasksOfStage(c) /\ Claims(c)
  BY DEF IInv, CallInv
<1>1. CASE Call(c)
  BY <1>0, <1>1, ConfigAssumption DEF Call, Goto, frame, tasks, TypeOK, TasksOfStage, Claims, Claimed, Recognizing, Count
<1>2. CASE Lock(c)
  BY <1>0, <1>2, ConfigAssumption DEF Lock, Goto, frame, tasks, TypeOK, TasksOfStage, Claims, Claimed, Recognizing, Count
<1>3. CASE Detect(c)
  BY <1>0, <1>3, ConfigAssumption DEF Detect, Goto, frame, tasks, TypeOK, TasksOfStage, Claims, Claimed, Recognizing, Count
<1>4. CASE CropRegion(c)
  BY <1>0, <1>4, ConfigAssumption DEF CropRegion, Goto, frame, tasks, TypeOK, TasksOfStage, Claims, Claimed, Recognizing, Count
<1>5. CASE CropDone(c)
  BY <1>0, <1>5, ConfigAssumption DEF CropDone, Goto, frame, tasks, TypeOK, TasksOfStage, Claims, Claimed, Recognizing, Count
<1>6. CASE ClassifyBatch(c)
  BY <1>0, <1>6, ConfigAssumption DEF ClassifyBatch, Goto, frame, tasks, TypeOK, TasksOfStage, Claims, Claimed, Recognizing, Count
<1>7. CASE ClassifyDone(c)
  BY <1>0, <1>7, ConfigAssumption DEF ClassifyDone, Goto, frame, tasks, TypeOK, TasksOfStage, Claims, Claimed, Recognizing, Count
<1>8. CASE Split(c)
  BY <1>0, <1>8, ConfigAssumption DEF Split, Goto, frame, tasks, TypeOK, TasksOfStage, Claims, Claimed, Recognizing, Count
<1>9. CASE Launch(c)
  BY <1>0, <1>9, ConfigAssumption DEF Launch, Goto, frame, tasks, TypeOK, TasksOfStage, Claims, Claimed, Recognizing, Count
<1>10. CASE LaunchDone(c)
  BY <1>0, <1>10, ConfigAssumption DEF LaunchDone, Goto, frame, tasks, TypeOK, TasksOfStage, Claims, Claimed, Recognizing, Count
<1>11. CASE Join(c)
  BY <1>0, <1>11, ConfigAssumption DEF Join, Goto, frame, tasks, TypeOK, TasksOfStage, Claims, Claimed, Recognizing, Count
<1>12. CASE JoinDone(c)
  <2>1. \A w \in Workers : task'[c][w] = "none"
    BY <1>12, NoTaskLeft
  <2>2. QED
    BY <2>1 DEF Claims, Claimed
<1>13. CASE Throw(c)
  BY <1>0, <1>13, ConfigAssumption DEF Throw, Goto, frame, tasks, TypeOK, TasksOfStage, Claims, Claimed, Recognizing, Count
<1>14. CASE Unwind(c)
  BY <1>0, <1>14, ConfigAssumption DEF Unwind, Goto, LeaveRecognizer, Alive, frame, tasks, TypeOK, TasksOfStage, Claims, Claimed, Recognizing, Count
<1>15. CASE Unlock(c)
  BY <1>0, <1>15, ConfigAssumption DEF Unlock, Goto, frame, tasks, TypeOK, TasksOfStage, Claims, Claimed, Recognizing, Count
<1>16. CASE Convert(c)
  BY <1>0, <1>16, ConfigAssumption DEF Convert, Goto, Native, frame, tasks, TypeOK, TasksOfStage, Claims, Claimed, Recognizing, Count
<1>17. CASE Free(c)
  BY <1>0, <1>17, ConfigAssumption DEF Free, Goto, frame, tasks, TypeOK, TasksOfStage, Claims, Claimed, Recognizing, Count
<1>18. ASSUME NEW w \in Workers, Fetch(c, w) PROVE Claims(c)'
  <2>1. Count(c)' = Count(c) /\ next_batch[c] \in Nat /\ next_batch'[c] = next_batch[c] + 1
    BY <1>0, <1>18 DEF Fetch, frame, Count, TypeOK
  <2>2. \A v \in Workers : batch[c][v] \in Nat
    BY <1>0 DEF TypeOK
  <2>3. \A v \in Workers : v # w => task'[c][v] = task[c][v] /\ batch'[c][v] = batch[c][v]
    BY <1>0, <1>18, SMTT(30) DEF Fetch, TypeOK
  <2>n. BatchCount(Count(c)) \in Nat
    BY <1>0, BatchCountBegin DEF TypeOK, Count
  <2>4. CASE next_batch[c] < BatchCount(Count(c))
    <3>1. task'[c][w] = "run" /\ batch'[c][w] = next_batch[c]
      BY <1>0, <2>4, <1>18 DEF Fetch, Count, TypeOK
    <3>2. QED
      BY <1>0, <2>1, <2>2, <2>3, <2>4, <2>n, <3>1 DEF Claims, Claimed
  <2>5. CASE ~(next_batch[c] < BatchCount(Count(c)))
    <3>1. task'[c][w] = "ended"
      BY <1>0, <2>5, <1>18 DEF Fetch, Count, TypeOK
    <3>2. QED
      BY <1>0, <2>1, <2>2, <2>3, <2>5, <2>n, <3>1 DEF Claims, Claimed
  <2>6. QED
    BY <2>4, <2>5
<1>19. ASSUME NEW w \in Workers, RunBatch(c, w) PROVE Claims(c)'
  BY <1>0, <1>19, ConfigAssumption DEF RunBatch, Goto, Stored, frame, tasks, TypeOK, TasksOfStage, Claims, Claimed, Recognizing, Count
<1>20. ASSUME NEW w \in Workers, RunBatchThrows(c, w) PROVE Claims(c)'
  BY <1>0, <1>20, ConfigAssumption DEF RunBatchThrows, Goto, frame, tasks, TypeOK, TasksOfStage, Claims, Claimed, Recognizing, Count
<1>21. QED
  BY <1>1, <1>2, <1>3, <1>4, <1>5, <1>6, <1>7, <1>8, <1>9, <1>10, <1>11, <1>12, <1>13, <1>14, <1>15, <1>16, <1>17, <1>18, <1>19, <1>20 DEF CallAction, CallerStep, TaskStep

\* Crops and regions stay side by side.
LEMMA PairedStep ==
    ASSUME IInv, TypeOK', NEW c \in Callers, CallAction(c)
    PROVE  Paired(c)'
<1>0. TypeOK /\ TasksOfStage(c) /\ Paired(c)
  BY DEF IInv, CallInv
<1>1. CASE Call(c)
  BY <1>0, <1>1, ConfigAssumption DEF Call, Goto, frame, tasks, TypeOK, TasksOfStage, Paired, Recognizing, Count, Items
<1>2. CASE Lock(c)
  BY <1>0, <1>2, ConfigAssumption DEF Lock, Goto, frame, tasks, TypeOK, TasksOfStage, Paired, Recognizing, Count, Items
<1>3. CASE Detect(c)
  <2>1. CASE kind[c] = "run"
    BY <1>0, <1>3, <2>1 DEF Detect, Goto, tasks, TypeOK, Paired, Count, Items
  <2>2. CASE kind[c] = "batch"
    <3>1. pc'[c] = "classify"
      BY <1>0, <1>3, <2>2, DetectEffect DEF TypeOK
    <3>2. /\ Len(crops'[c]) = found[c] /\ Len(regions'[c]) = found[c]
          /\ \A i \in 1 .. found[c] : crops'[c][i] = NewCrop(i) /\ regions'[c][i] = NewRegion(i)
      BY <1>3, <2>2, DetectEffect
    <3>3. QED
      BY <3>1, <3>2, NewItems DEF Paired, Count, Items
  <2>3. QED
    BY <1>0, <2>1, <2>2 DEF TypeOK
<1>4. CASE CropRegion(c)
  <2>1. pc[c] = "crop" /\ pc' = pc /\ Len(crops[c]) \in Nat
    BY <1>0, <1>4 DEF CropRegion, TypeOK
  <2>2. /\ Len(regions[c]) = Len(crops[c])
        /\ \A i \in 1 .. Len(crops[c]) : /\ crops[c][i].src = regions[c][i].src
                                         /\ crops[c][i].rotated = regions[c][i].flipped
    BY <1>0, <2>1 DEF Paired, Count, Items
  <2>3. CASE crops'[c] = crops[c] /\ regions'[c] = regions[c]
    BY <2>1, <2>2, <2>3 DEF Paired, Count, Items
  <2>4. CASE ~(crops'[c] = crops[c] /\ regions'[c] = regions[c])
    <3>1. /\ Len(crops'[c]) = Len(crops[c]) + 1 /\ Len(regions'[c]) = Len(crops[c]) + 1
          /\ \A i \in 1 .. Len(crops[c]) : crops'[c][i] = crops[c][i] /\ regions'[c][i] = regions[c][i]
          /\ crops'[c][Len(crops[c]) + 1] = NewCrop(cursor[c])
          /\ regions'[c][Len(crops[c]) + 1] = NewRegion(cursor[c])
      BY <1>4, <2>2, <2>4, CropRegionEffect
    <3>2. ASSUME NEW i \in 1 .. Len(crops[c]) + 1
          PROVE  /\ crops'[c][i].src = regions'[c][i].src
                 /\ crops'[c][i].rotated = regions'[c][i].flipped
      <4>1. CASE i \in 1 .. Len(crops[c])
        BY <2>2, <3>1, <4>1
      <4>2. CASE i = Len(crops[c]) + 1
        BY <3>1, <4>2, NewItems
      <4>3. QED
        BY <2>1, <4>1, <4>2
    <3>3. QED
      BY <2>1, <3>1, <3>2 DEF Paired, Count, Items
  <2>5. QED
    BY <2>3, <2>4
<1>5. CASE CropDone(c)
  BY <1>0, <1>5, ConfigAssumption DEF CropDone, Goto, frame, tasks, TypeOK, TasksOfStage, Paired, Recognizing, Count, Items
<1>6. CASE ClassifyBatch(c)
  <2>1. pc[c] = "classify" /\ pc' = pc
    BY <1>0, <1>6 DEF ClassifyBatch, TypeOK
  <2>2. \A i \in 1 .. Len(crops[c]) : crops[c][i] \in Crop /\ regions[c][i] \in Region
    BY <1>0, <2>1 DEF TypeOK, Paired, Count
  <2>3. \A i \in 1 .. Len(crops[c]) : /\ crops[c][i].src = regions[c][i].src
                                      /\ crops[c][i].rotated = regions[c][i].flipped
    BY <1>0, <2>1 DEF Paired, Count, Items
  <2>4. Len(crops'[c]) = Len(crops[c]) /\ Len(regions'[c]) = Len(crops[c])
    BY <1>6, ClassifyBatchEffect
  <2>5. ASSUME NEW i \in 1 .. Len(crops[c])
        PROVE  /\ crops'[c][i].src = regions'[c][i].src
               /\ crops'[c][i].rotated = regions'[c][i].flipped
    <3>1. \/ crops'[c][i] = crops[c][i] /\ regions'[c][i] = regions[c][i]
          \/ /\ crops'[c][i] = [crops[c][i] EXCEPT !.rotated = TRUE]
             /\ regions'[c][i] = [regions[c][i] EXCEPT !.flipped = TRUE]
      BY <1>6, ClassifyBatchEffect
    <3>2. QED
      BY <2>2, <2>3, <3>1 DEF Crop, Region
  <2>6. QED
    BY <2>1, <2>4, <2>5 DEF Paired, Count, Items
<1>7. CASE ClassifyDone(c)
  BY <1>0, <1>7, ConfigAssumption DEF ClassifyDone, Goto, frame, tasks, TypeOK, TasksOfStage, Paired, Recognizing, Count, Items
<1>8. CASE Split(c)
  BY <1>0, <1>8, ConfigAssumption DEF Split, Goto, frame, tasks, TypeOK, TasksOfStage, Paired, Recognizing, Count, Items
<1>9. CASE Launch(c)
  BY <1>0, <1>9, ConfigAssumption DEF Launch, Goto, frame, tasks, TypeOK, TasksOfStage, Paired, Recognizing, Count, Items
<1>10. CASE LaunchDone(c)
  BY <1>0, <1>10, ConfigAssumption DEF LaunchDone, Goto, frame, tasks, TypeOK, TasksOfStage, Paired, Recognizing, Count, Items
<1>11. CASE Join(c)
  <2>1. /\ pc[c] = "join" /\ pc'[c] \in {"join", "unwind"}
        /\ crops' = crops /\ regions' = regions
    BY <1>0, <1>11 DEF Join, Goto, frame, TypeOK
  <2>2. QED
    BY <1>0, <2>1 DEF Paired, Count, Items
<1>12. CASE JoinDone(c)
  BY <1>0, <1>12, ConfigAssumption DEF JoinDone, Goto, LeaveRecognizer, Alive, frame, tasks, TypeOK, TasksOfStage, Paired, Recognizing, Count, Items
<1>13. CASE Throw(c)
  BY <1>0, <1>13, ConfigAssumption DEF Throw, Goto, frame, tasks, TypeOK, TasksOfStage, Paired, Recognizing, Count, Items
<1>14. CASE Unwind(c)
  BY <1>0, <1>14, ConfigAssumption DEF Unwind, Goto, LeaveRecognizer, Alive, frame, tasks, TypeOK, TasksOfStage, Paired, Recognizing, Count, Items
<1>15. CASE Unlock(c)
  BY <1>0, <1>15, ConfigAssumption DEF Unlock, Goto, frame, tasks, TypeOK, TasksOfStage, Paired, Recognizing, Count, Items
<1>16. CASE Convert(c)
  BY <1>0, <1>16, ConfigAssumption DEF Convert, Goto, Native, frame, tasks, TypeOK, TasksOfStage, Paired, Recognizing, Count, Items
<1>17. CASE Free(c)
  BY <1>0, <1>17, ConfigAssumption DEF Free, Goto, frame, tasks, TypeOK, TasksOfStage, Paired, Recognizing, Count, Items
<1>18. ASSUME NEW w \in Workers, Fetch(c, w) PROVE Paired(c)'
  BY <1>0, <1>18, ConfigAssumption DEF Fetch, Goto, frame, tasks, TypeOK, TasksOfStage, Paired, Recognizing, Count, Items
<1>19. ASSUME NEW w \in Workers, RunBatch(c, w) PROVE Paired(c)'
  BY <1>0, <1>19, ConfigAssumption DEF RunBatch, Goto, Stored, frame, tasks, TypeOK, TasksOfStage, Paired, Recognizing, Count, Items
<1>20. ASSUME NEW w \in Workers, RunBatchThrows(c, w) PROVE Paired(c)'
  BY <1>0, <1>20, ConfigAssumption DEF RunBatchThrows, Goto, frame, tasks, TypeOK, TasksOfStage, Paired, Recognizing, Count, Items
<1>21. QED
  BY <1>1, <1>2, <1>3, <1>4, <1>5, <1>6, <1>7, <1>8, <1>9, <1>10, <1>11, <1>12, <1>13, <1>14, <1>15, <1>16, <1>17, <1>18, <1>19, <1>20 DEF CallAction, CallerStep, TaskStep

\* Regions stay in the order of detection.
LEMMA InOrderStep ==
    ASSUME IInv, TypeOK', NEW c \in Callers, CallAction(c)
    PROVE  InOrder(c)'
<1>0. TypeOK /\ TasksOfStage(c) /\ Paired(c) /\ InOrder(c)
  BY DEF IInv, CallInv
<1>1. CASE Call(c)
  BY <1>0, <1>1, ConfigAssumption DEF Call, Goto, frame, tasks, TypeOK, TasksOfStage, Paired, InOrder, Recognizing, Count, Items, NewRegion
<1>2. CASE Lock(c)
  BY <1>0, <1>2, ConfigAssumption DEF Lock, Goto, frame, tasks, TypeOK, TasksOfStage, Paired, InOrder, Recognizing, Count, Items, NewRegion
<1>3. CASE Detect(c)
  <2>1. CASE kind[c] = "run"
    <3>1. pc'[c] = "crop" /\ regions' = regions /\ kind' = kind /\ regions[c] = <<>>
      BY <1>0, <1>3, <2>1 DEF Detect, Goto, TypeOK, Paired
    <3>2. QED
      BY <2>1, <3>1 DEF InOrder
  <2>2. CASE kind[c] = "batch"
    <3>1. pc'[c] = "classify"
      BY <1>0, <1>3, <2>2, DetectEffect DEF TypeOK
    <3>2. Len(regions'[c]) = found[c] /\ \A i \in 1 .. found[c] : regions'[c][i].src = i
      BY <1>3, <2>2, DetectEffect, NewItems
    <3>3. QED
      BY <3>1, <3>2 DEF InOrder
  <2>3. QED
    BY <1>0, <2>1, <2>2 DEF TypeOK
<1>4. CASE CropRegion(c)
  <2>1. pc[c] = "crop" /\ pc' = pc /\ kind' = kind
    BY <1>0, <1>4 DEF CropRegion, TypeOK
  <2>2. Len(regions[c]) \in Nat /\ cursor[c] \in Nat /\ cursor'[c] = cursor[c] + 1
    BY <1>0, <1>4 DEF CropRegion, TypeOK
  <2>3. /\ \A i \in 1 .. Len(regions[c]) : regions[c][i].src \in Nat /\ regions[c][i].src < cursor[c]
        /\ kind[c] = "run"
        /\ \A i, j \in 1 .. Len(regions[c]) : i < j => regions[c][i].src < regions[c][j].src
    <3>1. \A i \in 1 .. Len(regions[c]) : regions[c][i] \in Region
      BY <1>0 DEF TypeOK
    <3>2. \A i \in 1 .. Len(regions[c]) : regions[c][i].src \in Nat
      BY <3>1, ConfigAssumption DEF Region
    <3>3. QED
      BY <1>0, <2>1, <3>2 DEF InOrder
  <2>4. CASE crops'[c] = crops[c] /\ regions'[c] = regions[c]
    BY <2>1, <2>2, <2>3, <2>4 DEF InOrder
  <2>5. CASE ~(crops'[c] = crops[c] /\ regions'[c] = regions[c])
    <3>1. /\ Len(regions'[c]) = Len(regions[c]) + 1
          /\ \A i \in 1 .. Len(regions[c]) : regions'[c][i] = regions[c][i]
          /\ regions'[c][Len(regions[c]) + 1] = NewRegion(cursor[c])
      BY <1>4, <2>5, CropRegionEffect
    <3>2. regions'[c][Len(regions[c]) + 1].src = cursor[c]
      BY <3>1 DEF NewRegion
    <3>3. ASSUME NEW i \in 1 .. Len(regions[c]) + 1
          PROVE  regions'[c][i].src \in Nat /\ regions'[c][i].src < cursor[c] + 1
      <4>1. CASE i \in 1 .. Len(regions[c])
        <5>1. regions'[c][i] = regions[c][i]
          BY <3>1, <4>1
        <5>2. regions[c][i].src \in Nat /\ regions[c][i].src < cursor[c]
          BY <2>3, <4>1
        <5>3. QED
          BY <2>2, <5>1, <5>2
      <4>2. CASE i = Len(regions[c]) + 1
        BY <2>2, <3>2, <4>2
      <4>3. QED
        BY <2>2, <4>1, <4>2
    <3>4. ASSUME NEW i \in 1 .. Len(regions[c]) + 1, NEW j \in 1 .. Len(regions[c]) + 1, i < j
          PROVE  regions'[c][i].src < regions'[c][j].src
      <4>1. i \in 1 .. Len(regions[c])
        BY <2>2, <3>4
      <4>2. CASE j \in 1 .. Len(regions[c])
        BY <2>3, <3>1, <3>4, <4>1, <4>2
      <4>3. CASE j = Len(regions[c]) + 1
        BY <2>2, <2>3, <3>1, <3>2, <4>1, <4>3
      <4>4. QED
        BY <2>2, <4>2, <4>3
    <3>5. QED
      BY <2>1, <2>2, <2>3, <3>1, <3>3, <3>4 DEF InOrder
  <2>6. QED
    BY <2>4, <2>5
<1>5. CASE CropDone(c)
  BY <1>0, <1>5, ConfigAssumption DEF CropDone, Goto, frame, tasks, TypeOK, TasksOfStage, Paired, InOrder, Recognizing, Count, Items, NewRegion
<1>6. CASE ClassifyBatch(c)
  BY <1>0, <1>6, ConfigAssumption DEF ClassifyBatch, Goto, frame, tasks, TypeOK, TasksOfStage, Paired, InOrder, Recognizing, Count, Items, NewRegion
<1>7. CASE ClassifyDone(c)
  BY <1>0, <1>7, ConfigAssumption DEF ClassifyDone, Goto, frame, tasks, TypeOK, TasksOfStage, Paired, InOrder, Recognizing, Count, Items, NewRegion
<1>8. CASE Split(c)
  BY <1>0, <1>8, ConfigAssumption DEF Split, Goto, frame, tasks, TypeOK, TasksOfStage, Paired, InOrder, Recognizing, Count, Items, NewRegion
<1>9. CASE Launch(c)
  BY <1>0, <1>9, ConfigAssumption DEF Launch, Goto, frame, tasks, TypeOK, TasksOfStage, Paired, InOrder, Recognizing, Count, Items, NewRegion
<1>10. CASE LaunchDone(c)
  BY <1>0, <1>10, ConfigAssumption DEF LaunchDone, Goto, frame, tasks, TypeOK, TasksOfStage, Paired, InOrder, Recognizing, Count, Items, NewRegion
<1>11. CASE Join(c)
  BY <1>0, <1>11, ConfigAssumption DEF Join, Goto, frame, tasks, TypeOK, TasksOfStage, Paired, InOrder, Recognizing, Count, Items, NewRegion
<1>12. CASE JoinDone(c)
  BY <1>0, <1>12, ConfigAssumption DEF JoinDone, Goto, LeaveRecognizer, Alive, frame, tasks, TypeOK, TasksOfStage, Paired, InOrder, Recognizing, Count, Items, NewRegion
<1>13. CASE Throw(c)
  BY <1>0, <1>13, ConfigAssumption DEF Throw, Goto, frame, tasks, TypeOK, TasksOfStage, Paired, InOrder, Recognizing, Count, Items, NewRegion
<1>14. CASE Unwind(c)
  BY <1>0, <1>14, ConfigAssumption DEF Unwind, Goto, LeaveRecognizer, Alive, frame, tasks, TypeOK, TasksOfStage, Paired, InOrder, Recognizing, Count, Items, NewRegion
<1>15. CASE Unlock(c)
  BY <1>0, <1>15, ConfigAssumption DEF Unlock, Goto, frame, tasks, TypeOK, TasksOfStage, Paired, InOrder, Recognizing, Count, Items, NewRegion
<1>16. CASE Convert(c)
  BY <1>0, <1>16, ConfigAssumption DEF Convert, Goto, Native, frame, tasks, TypeOK, TasksOfStage, Paired, InOrder, Recognizing, Count, Items, NewRegion
<1>17. CASE Free(c)
  BY <1>0, <1>17, ConfigAssumption DEF Free, Goto, frame, tasks, TypeOK, TasksOfStage, Paired, InOrder, Recognizing, Count, Items, NewRegion
<1>18. ASSUME NEW w \in Workers, Fetch(c, w) PROVE InOrder(c)'
  <2>1. UNCHANGED <<regions, pc, kind, cursor>>
    BY <1>18 DEF Fetch, frame
  <2>2. QED
    BY <1>0, <2>1 DEF InOrder
<1>19. ASSUME NEW w \in Workers, RunBatch(c, w) PROVE InOrder(c)'
  <2>1. UNCHANGED <<pc, kind, cursor>>
    BY <1>19 DEF RunBatch
  <2>2. pc[c] # "crop" /\ Len(regions'[c]) = Len(regions[c]) /\ Len(regions[c]) = Count(c)
    <3>1. task[c][w] # "none"
      BY <1>19 DEF RunBatch
    <3>2. pc[c] \in Recognizing
      BY <1>0, <3>1 DEF TasksOfStage
    <3>3. Len(regions'[c]) = Count(c) /\ Len(regions[c]) = Count(c)
      BY <1>0, <1>19, <3>2, RunBatchEffect DEF Paired, Recognizing
    <3>4. QED
      BY <3>2, <3>3 DEF Recognizing
  <2>3. ASSUME NEW i \in 1 .. Len(regions[c]) PROVE regions'[c][i].src = regions[c][i].src
    <3>1. regions[c][i] \in Region
      BY <1>0 DEF TypeOK
    <3>2. \/ regions'[c][i] = regions[c][i]
          \/ regions'[c][i] = [regions[c][i] EXCEPT !.text = {crops[c][i]}]
      BY <1>19, <2>2, RunBatchEffect
    <3>3. QED
      BY <3>1, <3>2 DEF Region
  <2>4. QED
    BY <1>0, <2>1, <2>2, <2>3 DEF InOrder
<1>20. ASSUME NEW w \in Workers, RunBatchThrows(c, w) PROVE InOrder(c)'
  <2>1. UNCHANGED <<regions, pc, kind, cursor>>
    BY <1>20 DEF RunBatchThrows, frame
  <2>2. QED
    BY <1>0, <2>1 DEF InOrder
<1>21. QED
  BY <1>1, <1>2, <1>3, <1>4, <1>5, <1>6, <1>7, <1>8, <1>9, <1>10, <1>11, <1>12, <1>13, <1>14, <1>15, <1>16, <1>17, <1>18, <1>19, <1>20 DEF CallAction, CallerStep, TaskStep

\* A stage that adds no region and takes none away leaves what is due complete.
LEMMA StageKeepsComplete ==
    ASSUME TypeOK, NEW c \in Callers, Complete(c), pc[c] \in Working,
           pc'[c] \in Working \cup {"unwind"}, kind'[c] = kind[c], due'[c] = due[c],
           Len(regions'[c]) = Len(regions[c]),
           \A i \in 1 .. Len(regions[c]) : regions'[c][i].src = regions[c][i].src
    PROVE  Complete(c)'
<1>1. Sources(regions'[c]) = Sources(regions[c])
  BY DEF Sources
<1>2. pc'[c] \notin {"idle", "lock", "detect"}
  BY DEF Working
<1>3. Sources(regions[c]) = due[c] /\ (kind[c] = "batch" => due[c] = 1 .. Len(regions[c]))
  BY DEF Complete
<1>4. QED
  BY <1>1, <1>2, <1>3 DEF Complete

\* Every image of a batch, or every region cut of the page, has its region.
LEMMA CompleteStep ==
    ASSUME IInv, TypeOK', NEW c \in Callers, CallAction(c)
    PROVE  Complete(c)'
<1>0. TypeOK /\ Complete(c) /\ Paired(c) /\ InOrder(c) /\ TasksOfStage(c)
  BY DEF IInv, CallInv
<1>1. CASE Call(c)
  <2>1. pc[c] = "idle" /\ pc'[c] = "lock"
    BY <1>0, <1>1 DEF Call, Goto, TypeOK
  <2>2. kind[c] = "run" /\ due[c] = {}
    BY <1>0, <2>1 DEF Complete
  <2>3. CASE kind' = [kind EXCEPT ![c] = "run"] /\ UNCHANGED <<found, due>>
    BY <1>0, <2>1, <2>2, <2>3 DEF Complete, Working, TypeOK
  <2>4. CASE /\ kind' = [kind EXCEPT ![c] = "batch"]
             /\ \E n \in 1 .. MaxItems : /\ found' = [found EXCEPT ![c] = n]
                                         /\ due' = [due EXCEPT ![c] = 1 .. n]
    <3>1. kind'[c] = "batch" /\ due'[c] = 1 .. found'[c]
      BY <1>0, <2>4 DEF TypeOK
    <3>2. QED
      BY <2>1, <3>1 DEF Complete, Working
  <2>5. QED
    BY <1>1, <2>3, <2>4 DEF Call
<1>2. CASE Lock(c)
  <2>1. pc[c] = "lock" /\ pc'[c] = "detect" /\ UNCHANGED <<kind, due, found>>
    BY <1>0, <1>2 DEF Lock, Goto, frame, TypeOK
  <2>2. QED
    BY <1>0, <2>1 DEF Complete, Working
<1>3. CASE Detect(c)
  <2>1. pc[c] = "detect" /\ UNCHANGED <<kind, due>>
    BY <1>3 DEF Detect
  <2>2. CASE kind[c] = "run"
    <3>1. pc'[c] = "crop" /\ regions' = regions
      BY <1>0, <1>3, <2>2 DEF Detect, Goto, TypeOK
    <3>2. due[c] = {} /\ regions[c] = <<>>
      BY <1>0, <2>1, <2>2 DEF Complete, Paired
    <3>3. Sources(regions'[c]) = {}
      BY <3>1, <3>2 DEF Sources
    <3>4. QED
      BY <2>1, <2>2, <3>1, <3>2, <3>3 DEF Complete
  <2>3. CASE kind[c] = "batch"
    <3>1. pc'[c] = "classify"
      BY <1>0, <1>3, <2>3, DetectEffect DEF TypeOK
    <3>2. Len(regions'[c]) = found[c] /\ \A i \in 1 .. found[c] : regions'[c][i].src = i
      BY <1>3, <2>3, DetectEffect, NewItems
    <3>3. Sources(regions'[c]) = 1 .. found[c]
      BY <3>2 DEF Sources
    <3>4. due[c] = 1 .. found[c]
      BY <1>0, <2>1, <2>3 DEF Complete
    <3>5. QED
      BY <2>1, <2>3, <3>1, <3>2, <3>3, <3>4 DEF Complete
  <2>4. QED
    BY <1>0, <2>2, <2>3 DEF TypeOK
<1>4. CASE CropRegion(c)
  <2>1. pc[c] = "crop" /\ pc' = pc /\ kind' = kind
    BY <1>4 DEF CropRegion
  <2>2. kind[c] = "run" /\ Len(regions[c]) \in Nat /\ Sources(regions[c]) = due[c]
    BY <1>0, <2>1 DEF InOrder, Complete, Working, TypeOK
  <2>3. CASE regions'[c] = regions[c] /\ due'[c] = due[c]
    BY <2>1, <2>2, <2>3 DEF Complete
  <2>4. CASE ~(regions'[c] = regions[c] /\ due'[c] = due[c])
    <3>1. /\ Len(regions'[c]) = Len(regions[c]) + 1
          /\ \A i \in 1 .. Len(regions[c]) : regions'[c][i].src = regions[c][i].src
          /\ regions'[c][Len(regions[c]) + 1].src = cursor[c]
          /\ due'[c] = due[c] \cup {cursor[c]}
      BY <1>4, <2>4, CropRegionEffect, NewItems
    <3>2. Sources(regions'[c]) = Sources(regions[c]) \cup {cursor[c]}
      <4> DEFINE n == Len(regions[c])
      <4>1. 1 .. n + 1 = (1 .. n) \cup {n + 1}
        BY <2>2
      <4>2. Sources(regions'[c]) = {regions'[c][i].src : i \in (1 .. n) \cup {n + 1}}
        BY <3>1, <4>1 DEF Sources
      <4>3. Sources(regions'[c]) = {regions'[c][i].src : i \in 1 .. n} \cup {cursor[c]}
        BY <3>1, <4>2
      <4>4. {regions'[c][i].src : i \in 1 .. n} = {regions[c][i].src : i \in 1 .. n}
        BY <3>1
      <4>5. QED
        BY <4>3, <4>4 DEF Sources
    <3>3. QED
      BY <2>1, <2>2, <3>1, <3>2 DEF Complete
  <2>5. QED
    BY <2>3, <2>4
<1>5. CASE ClassifyBatch(c)
  <2>1. pc[c] = "classify" /\ pc' = pc /\ kind' = kind /\ due' = due
    BY <1>5 DEF ClassifyBatch
  <2>2. Len(regions[c]) = Len(crops[c])
    BY <1>0, <2>1 DEF Paired, Count
  <2>3. Len(regions'[c]) = Len(regions[c])
    BY <1>5, <2>2, ClassifyBatchEffect
  <2>4. ASSUME NEW i \in 1 .. Len(regions[c]) PROVE regions'[c][i].src = regions[c][i].src
    <3>1. regions'[c][i] = regions[c][i] \/ regions'[c][i] = [regions[c][i] EXCEPT !.flipped = TRUE]
      BY <1>5, <2>2, ClassifyBatchEffect
    <3>2. regions[c][i] \in Region
      BY <1>0 DEF TypeOK
    <3>3. QED
      BY <3>1, <3>2 DEF Region
  <2>5. QED
    BY <1>0, <2>1, <2>3, <2>4, StageKeepsComplete DEF Working
<1>6. ASSUME NEW w \in Workers, RunBatch(c, w) PROVE Complete(c)'
  <2>1. task[c][w] # "none" /\ pc' = pc /\ kind' = kind /\ due' = due
    BY <1>6 DEF RunBatch
  <2>2. pc[c] \in {"launch", "join", "unwind"}
    BY <1>0, <2>1 DEF TasksOfStage, Recognizing
  <2>3. CASE pc[c] = "unwind"
    BY <2>1, <2>3 DEF Complete, Working
  <2>4. CASE pc[c] # "unwind"
    <3>1. Len(regions[c]) = Count(c)
      BY <1>0, <2>2 DEF Paired
    <3>2. Len(regions'[c]) = Len(regions[c])
      BY <1>6, <3>1, RunBatchEffect
    <3>3. ASSUME NEW i \in 1 .. Len(regions[c]) PROVE regions'[c][i].src = regions[c][i].src
      <4>1. regions'[c][i] = regions[c][i] \/ regions'[c][i] = [regions[c][i] EXCEPT !.text = {crops[c][i]}]
        BY <1>6, <3>1, RunBatchEffect
      <4>2. regions[c][i] \in Region
        BY <1>0, SMTT(30) DEF TypeOK
      <4>3. QED
        BY <4>1, <4>2 DEF Region
    <3>4. QED
      BY <1>0, <2>1, <2>2, <2>4, <3>2, <3>3, StageKeepsComplete DEF Working
  <2>5. QED
    BY <2>3, <2>4
<1>7. ASSUME NEW w \in Workers, Fetch(c, w) \/ RunBatchThrows(c, w) PROVE Complete(c)'
  BY <1>0, <1>7 DEF Fetch, RunBatchThrows, frame, Complete
<1>8. CASE \/ CropDone(c) \/ ClassifyDone(c) \/ Split(c) \/ Launch(c) \/ LaunchDone(c)
           \/ Join(c) \/ JoinDone(c) \/ Unlock(c)
  <2>1. UNCHANGED <<kind, due, regions>>
    BY <1>8 DEF CropDone, ClassifyDone, Split, Launch, LaunchDone, Join, JoinDone, Unlock, frame
  <2>2. pc[c] \in Working
    BY <1>8 DEF CropDone, ClassifyDone, Split, Launch, LaunchDone, Join, JoinDone, Unlock, Working
  <2>3. pc'[c] \in Working \cup {"unwind"}
    <3>1. \/ pc' = pc
          \/ \E s \in {"classify", "unlock", "split", "launch", "join", "unwind", "convert"} : Goto(c, s)
      BY <1>8 DEF CropDone, ClassifyDone, Split, Launch, LaunchDone, Join, JoinDone, Unlock
    <3>2. QED
      BY <1>0, <2>2, <3>1 DEF Goto, TypeOK, Working
  <2>4. QED
    BY <1>0, <2>1, <2>2, <2>3, StageKeepsComplete
<1>9. CASE Throw(c) \/ Unwind(c) \/ Convert(c)
  <2>1. pc'[c] \in {"unwind", "returned"}
    BY <1>0, <1>9 DEF Throw, Unwind, Convert, Goto, TypeOK
  <2>2. QED
    BY <2>1 DEF Complete, Working
<1>10. CASE Free(c)
  <2>1. pc'[c] = "idle" /\ kind'[c] = "run" /\ due'[c] = {}
    BY <1>0, <1>10 DEF Free, Goto, TypeOK
  <2>2. QED
    BY <2>1 DEF Complete, Working
<1>11. QED
  BY <1>1, <1>2, <1>3, <1>4, <1>5, <1>6, <1>7, <1>8, <1>9, <1>10 DEF CallAction, CallerStep, TaskStep

\* The order of a recognition in progress is a permutation of its crops.
LEMMA SortedStep ==
    ASSUME IInv, TypeOK', NEW c \in Callers, CallAction(c)
    PROVE  Sorted(c)'
<1>0. TypeOK /\ TasksOfStage(c) /\ Sorted(c)
  BY DEF IInv, CallInv
<1>1. CASE Call(c)
  BY <1>0, <1>1, ConfigAssumption DEF Call, Goto, frame, tasks, TypeOK, TasksOfStage, Sorted, Recognizing, Count
<1>2. CASE Lock(c)
  BY <1>0, <1>2, ConfigAssumption DEF Lock, Goto, frame, tasks, TypeOK, TasksOfStage, Sorted, Recognizing, Count
<1>3. CASE Detect(c)
  BY <1>0, <1>3, ConfigAssumption DEF Detect, Goto, frame, tasks, TypeOK, TasksOfStage, Sorted, Recognizing, Count
<1>4. CASE CropRegion(c)
  BY <1>0, <1>4, ConfigAssumption DEF CropRegion, Goto, frame, tasks, TypeOK, TasksOfStage, Sorted, Recognizing, Count
<1>5. CASE CropDone(c)
  BY <1>0, <1>5, ConfigAssumption DEF CropDone, Goto, frame, tasks, TypeOK, TasksOfStage, Sorted, Recognizing, Count
<1>6. CASE ClassifyBatch(c)
  BY <1>0, <1>6, ConfigAssumption DEF ClassifyBatch, Goto, frame, tasks, TypeOK, TasksOfStage, Sorted, Recognizing, Count
<1>7. CASE ClassifyDone(c)
  BY <1>0, <1>7, ConfigAssumption DEF ClassifyDone, Goto, frame, tasks, TypeOK, TasksOfStage, Sorted, Recognizing, Count
<1>8. CASE Split(c)
  BY <1>0, <1>8, ConfigAssumption DEF Split, Goto, frame, tasks, TypeOK, TasksOfStage, Sorted, Recognizing, Count
<1>9. CASE Launch(c)
  BY <1>0, <1>9, ConfigAssumption DEF Launch, Goto, frame, tasks, TypeOK, TasksOfStage, Sorted, Recognizing, Count
<1>10. CASE LaunchDone(c)
  BY <1>0, <1>10, ConfigAssumption DEF LaunchDone, Goto, frame, tasks, TypeOK, TasksOfStage, Sorted, Recognizing, Count
<1>11. CASE Join(c)
  BY <1>0, <1>11, ConfigAssumption DEF Join, Goto, frame, tasks, TypeOK, TasksOfStage, Sorted, Recognizing, Count
<1>12. CASE JoinDone(c)
  <2>1. pc'[c] = "unlock"
    BY <1>0, <1>12 DEF JoinDone, Goto, TypeOK
  <2>2. \A w \in Workers : task'[c][w] = "none"
    BY <1>12, NoTaskLeft
  <2>3. QED
    BY <2>1, <2>2 DEF Sorted
<1>13. CASE Throw(c)
  BY <1>0, <1>13, ConfigAssumption DEF Throw, Goto, frame, tasks, TypeOK, TasksOfStage, Sorted, Recognizing, Count
<1>14. CASE Unwind(c)
  BY <1>0, <1>14, ConfigAssumption DEF Unwind, Goto, LeaveRecognizer, Alive, frame, tasks, TypeOK, TasksOfStage, Sorted, Recognizing, Count
<1>15. CASE Unlock(c)
  BY <1>0, <1>15, ConfigAssumption DEF Unlock, Goto, frame, tasks, TypeOK, TasksOfStage, Sorted, Recognizing, Count
<1>16. CASE Convert(c)
  BY <1>0, <1>16, ConfigAssumption DEF Convert, Goto, Native, frame, tasks, TypeOK, TasksOfStage, Sorted, Recognizing, Count
<1>17. CASE Free(c)
  BY <1>0, <1>17, ConfigAssumption DEF Free, Goto, frame, tasks, TypeOK, TasksOfStage, Sorted, Recognizing, Count
<1>18. ASSUME NEW w \in Workers, Fetch(c, w) PROVE Sorted(c)'
  BY <1>0, <1>18, ConfigAssumption DEF Fetch, Goto, frame, tasks, TypeOK, TasksOfStage, Sorted, Recognizing, Count
<1>19. ASSUME NEW w \in Workers, RunBatch(c, w) PROVE Sorted(c)'
  BY <1>0, <1>19, ConfigAssumption DEF RunBatch, Goto, Stored, frame, tasks, TypeOK, TasksOfStage, Sorted, Recognizing, Count
<1>20. ASSUME NEW w \in Workers, RunBatchThrows(c, w) PROVE Sorted(c)'
  BY <1>0, <1>20, ConfigAssumption DEF RunBatchThrows, Goto, frame, tasks, TypeOK, TasksOfStage, Sorted, Recognizing, Count
<1>21. QED
  BY <1>1, <1>2, <1>3, <1>4, <1>5, <1>6, <1>7, <1>8, <1>9, <1>10, <1>11, <1>12, <1>13, <1>14, <1>15, <1>16, <1>17, <1>18, <1>19, <1>20 DEF CallAction, CallerStep, TaskStep

\* A text is the text of its region's own crop.
LEMMA TextsOwnStep ==
    ASSUME IInv, TypeOK', NEW c \in Callers, CallAction(c)
    PROVE  TextsOwn(c)'
<1>0. TypeOK /\ TasksOfStage(c) /\ Paired(c) /\ TextsOwn(c)
  BY DEF IInv, CallInv
<1>1. CASE Call(c)
  BY <1>0, <1>1, ConfigAssumption DEF Call, Goto, frame, tasks, TypeOK, TasksOfStage, TextsOwn, OwnText, Recognizing, Count, NewRegion
<1>2. CASE Lock(c)
  BY <1>0, <1>2, ConfigAssumption DEF Lock, Goto, frame, tasks, TypeOK, TasksOfStage, TextsOwn, OwnText, Recognizing, Count, NewRegion
<1>3. CASE Detect(c)
  <2>1. CASE kind[c] = "run"
    BY <1>0, <1>3, <2>1 DEF Detect, Goto, tasks, TypeOK, Paired, TextsOwn
  <2>2. CASE kind[c] = "batch"
    <3>1. /\ Len(regions'[c]) = found[c]
          /\ \A i \in 1 .. found[c] : regions'[c][i] = NewRegion(i)
      BY <1>3, <2>2, DetectEffect
    <3>2. QED
      BY <3>1, NewItems DEF TextsOwn, OwnText
  <2>3. QED
    BY <1>0, <2>1, <2>2 DEF TypeOK
<1>4. CASE CropRegion(c)
  <2>1. pc[c] = "crop" /\ Len(regions[c]) \in Nat
    BY <1>0, <1>4 DEF CropRegion, TypeOK
  <2>2. \A i \in 1 .. Len(regions[c]) : regions[c][i].text = {}
    BY <1>0, <2>1 DEF TextsOwn
  <2>3. \A i \in 1 .. Len(regions'[c]) : regions'[c][i].text = {}
    <3>1. CASE regions'[c] = regions[c]
      BY <2>2, <3>1
    <3>2. CASE regions'[c] # regions[c]
      <4>1. /\ Len(regions'[c]) = Len(regions[c]) + 1
            /\ \A i \in 1 .. Len(regions[c]) : regions'[c][i] = regions[c][i]
            /\ regions'[c][Len(regions[c]) + 1] = NewRegion(cursor[c])
        BY <1>4, <3>2, CropRegionEffect
      <4>2. \A i \in 1 .. Len(regions'[c]) : i \in 1 .. Len(regions[c]) \/ i = Len(regions[c]) + 1
        BY <2>1, <4>1
      <4>3. NewRegion(cursor[c]).text = {}
        BY DEF NewRegion
      <4>4. QED
        BY <2>2, <4>1, <4>2, <4>3
    <3>3. QED
      BY <3>1, <3>2
  <2>4. QED
    BY <2>3 DEF TextsOwn, OwnText
<1>5. CASE CropDone(c)
  BY <1>0, <1>5, ConfigAssumption DEF CropDone, Goto, frame, tasks, TypeOK, TasksOfStage, TextsOwn, OwnText, Recognizing, Count, NewRegion
<1>6. CASE ClassifyBatch(c)
  <2>1. pc[c] = "classify" /\ Len(regions[c]) = Len(crops[c])
    BY <1>0, <1>6 DEF ClassifyBatch, Paired, Count
  <2>2. \A i \in 1 .. Len(crops[c]) : regions[c][i].text = {} /\ regions[c][i] \in Region
    <3>1. regions[c] \in Seq(Region)
      BY <1>0 DEF TypeOK
    <3>2. \A i \in 1 .. Len(crops[c]) : regions[c][i] \in Region
      BY <2>1, <3>1
    <3>3. QED
      BY <1>0, <2>1, <3>2 DEF TextsOwn
  <2>3. Len(regions'[c]) = Len(crops[c])
    BY <1>6, ClassifyBatchEffect
  <2>4. ASSUME NEW i \in 1 .. Len(crops[c]) PROVE regions'[c][i].text = {}
    <3>1. \/ regions'[c][i] = regions[c][i]
          \/ regions'[c][i] = [regions[c][i] EXCEPT !.flipped = TRUE]
      BY <1>6, ClassifyBatchEffect
    <3>2. QED
      BY <2>2, <3>1 DEF Region
  <2>5. QED
    BY <2>3, <2>4 DEF TextsOwn, OwnText
<1>7. CASE ClassifyDone(c)
  BY <1>0, <1>7, ConfigAssumption DEF ClassifyDone, Goto, frame, tasks, TypeOK, TasksOfStage, TextsOwn, OwnText, Recognizing, Count, NewRegion
<1>8. CASE Split(c)
  BY <1>0, <1>8, ConfigAssumption DEF Split, Goto, frame, tasks, TypeOK, TasksOfStage, TextsOwn, OwnText, Recognizing, Count, NewRegion
<1>9. CASE Launch(c)
  BY <1>0, <1>9, ConfigAssumption DEF Launch, Goto, frame, tasks, TypeOK, TasksOfStage, TextsOwn, OwnText, Recognizing, Count, NewRegion
<1>10. CASE LaunchDone(c)
  BY <1>0, <1>10, ConfigAssumption DEF LaunchDone, Goto, frame, tasks, TypeOK, TasksOfStage, TextsOwn, OwnText, Recognizing, Count, NewRegion
<1>11. CASE Join(c)
  <2>1. regions' = regions /\ pc'[c] \in {"join", "unwind"}
    BY <1>0, <1>11 DEF Join, Goto, frame, TypeOK
  <2>2. QED
    BY <1>0, <2>1 DEF TextsOwn
<1>12. CASE JoinDone(c)
  BY <1>0, <1>12, ConfigAssumption DEF JoinDone, Goto, LeaveRecognizer, Alive, frame, tasks, TypeOK, TasksOfStage, TextsOwn, OwnText, Recognizing, Count, NewRegion
<1>13. CASE Throw(c)
  BY <1>0, <1>13, ConfigAssumption DEF Throw, Goto, frame, tasks, TypeOK, TasksOfStage, TextsOwn, OwnText, Recognizing, Count, NewRegion
<1>14. CASE Unwind(c)
  BY <1>0, <1>14, ConfigAssumption DEF Unwind, Goto, LeaveRecognizer, Alive, frame, tasks, TypeOK, TasksOfStage, TextsOwn, OwnText, Recognizing, Count, NewRegion
<1>15. CASE Unlock(c)
  BY <1>0, <1>15, ConfigAssumption DEF Unlock, Goto, frame, tasks, TypeOK, TasksOfStage, TextsOwn, OwnText, Recognizing, Count, NewRegion
<1>16. CASE Convert(c)
  BY <1>0, <1>16, ConfigAssumption DEF Convert, Goto, Native, frame, tasks, TypeOK, TasksOfStage, TextsOwn, OwnText, Recognizing, Count, NewRegion
<1>17. CASE Free(c)
  BY <1>0, <1>17, ConfigAssumption DEF Free, Goto, frame, tasks, TypeOK, TasksOfStage, TextsOwn, OwnText, Recognizing, Count, NewRegion
<1>18. ASSUME NEW w \in Workers, Fetch(c, w) PROVE TextsOwn(c)'
  BY <1>0, <1>18, ConfigAssumption DEF Fetch, Goto, frame, tasks, TypeOK, TasksOfStage, TextsOwn, OwnText, Recognizing, Count, NewRegion
<1>19. ASSUME NEW w \in Workers, RunBatch(c, w) PROVE TextsOwn(c)'
  <2>1. pc[c] \in Recognizing /\ pc' = pc /\ Len(regions[c]) = Count(c)
    BY <1>19, RunningBatch DEF RunBatch
  <2>2. \A i \in 1 .. Count(c) : /\ crops[c][i] \in Crop /\ regions[c][i] \in Region
                                /\ crops[c][i].src = regions[c][i].src
                                /\ crops[c][i].rotated = regions[c][i].flipped
    BY <1>0, <2>1 DEF TypeOK, Paired, Count, Items, Recognizing
  <2>3. \A i \in 1 .. Count(c) : crops[c][i] = [src |-> regions[c][i].src, rotated |-> regions[c][i].flipped]
    BY <2>2 DEF Crop
  <2>4. ASSUME NEW i \in 1 .. Count(c) PROVE OwnText(regions'[c][i])
    <3>1. CASE regions'[c][i] = regions[c][i]
      BY <1>0, <2>1, <3>1 DEF TextsOwn, OwnText
    <3>2. CASE regions'[c][i] = [regions[c][i] EXCEPT !.text = {crops[c][i]}]
      <4>1. /\ regions'[c][i].text = {crops[c][i]} /\ regions'[c][i].src = regions[c][i].src
            /\ regions'[c][i].flipped = regions[c][i].flipped
        BY <2>2, <3>2 DEF Region
      <4>2. QED
        BY <2>3, <4>1 DEF OwnText
    <3>3. QED
      BY <1>19, <3>1, <3>2, RunBatchEffect
  <2>5. pc'[c] \notin {"crop", "classify", "split"}
    BY <2>1 DEF Recognizing
  <2>6. Len(regions'[c]) = Count(c)
    BY <1>19, RunBatchEffect
  <2>7. QED
    BY <2>4, <2>5, <2>6 DEF TextsOwn, OwnText
<1>20. ASSUME NEW w \in Workers, RunBatchThrows(c, w) PROVE TextsOwn(c)'
  BY <1>0, <1>20, ConfigAssumption DEF RunBatchThrows, Goto, frame, tasks, TypeOK, TasksOfStage, TextsOwn, OwnText, Recognizing, Count, NewRegion
<1>21. QED
  BY <1>1, <1>2, <1>3, <1>4, <1>5, <1>6, <1>7, <1>8, <1>9, <1>10, <1>11, <1>12, <1>13, <1>14, <1>15, <1>16, <1>17, <1>18, <1>19, <1>20 DEF CallAction, CallerStep, TaskStep

\* A batch that no task is busy with any more has been stored.
LEMMA BatchesStoredStep ==
    ASSUME IInv, TypeOK', NEW c \in Callers, CallAction(c)
    PROVE  BatchesStored(c)'
<1>0. TypeOK /\ TasksOfStage(c) /\ Claims(c) /\ Paired(c) /\ Sorted(c) /\ BatchesStored(c)
  BY DEF IInv, CallInv
<1>n. Count(c) \in Nat
  BY DEF IInv, TypeOK, Count
<1>w. /\ Count(c) \in Nat /\ WorkerCount(Count(c)) \in Nat
      /\ WorkerCount(Count(c)) <= RecConcurrency /\ (Count(c) # 0 => WorkerCount(Count(c)) >= 1)
  BY <1>n, WorkerCountBounds
<1>1. CASE Call(c)
  BY <1>0, <1>1, ConfigAssumption DEF Call, Goto, frame, tasks, TypeOK, TasksOfStage, BatchesStored, Recognizing, Count, HasText
<1>2. CASE Lock(c)
  BY <1>0, <1>2, ConfigAssumption DEF Lock, Goto, frame, tasks, TypeOK, TasksOfStage, BatchesStored, Recognizing, Count, HasText
<1>3. CASE Detect(c)
  <2>1. pc'[c] \in {"crop", "classify"}
    BY <1>0, <1>3 DEF Detect, Goto, TypeOK
  <2>2. QED
    BY <2>1 DEF BatchesStored
<1>4. CASE CropRegion(c)
  BY <1>0, <1>4, ConfigAssumption DEF CropRegion, Goto, frame, tasks, TypeOK, TasksOfStage, BatchesStored, Recognizing, Count, HasText
<1>5. CASE CropDone(c)
  BY <1>0, <1>5, ConfigAssumption DEF CropDone, Goto, frame, tasks, TypeOK, TasksOfStage, BatchesStored, Recognizing, Count, HasText
<1>6. CASE ClassifyBatch(c)
  BY <1>0, <1>6, ConfigAssumption DEF ClassifyBatch, Goto, frame, tasks, TypeOK, TasksOfStage, BatchesStored, Recognizing, Count, HasText
<1>7. CASE ClassifyDone(c)
  <2>1. pc'[c] = (IF crops[c] = <<>> THEN "unlock" ELSE "split") /\ regions' = regions
    BY <1>0, <1>7 DEF ClassifyDone, Goto, frame, TypeOK
  <2>2. crops[c] = <<>> => Len(regions[c]) = 0
    BY <1>0, <1>7 DEF ClassifyDone, Paired, Count
  <2>3. QED
    BY <2>1, <2>2 DEF BatchesStored, HasText
<1>8. CASE Split(c)
  BY <1>0, <1>8, ConfigAssumption DEF Split, Goto, frame, tasks, TypeOK, TasksOfStage, BatchesStored, Recognizing, Count, HasText
<1>9. CASE Launch(c)
  <2>1. /\ cursor[c] \in Nat /\ pc[c] = "launch" /\ pc'[c] = "launch" /\ Count(c)' = Count(c)
        /\ regions' = regions /\ sorted' = sorted /\ batch' = batch /\ next_batch' = next_batch
    BY <1>0, <1>9 DEF Launch, Goto, frame, tasks, Count, TypeOK
  <2>2. ASSUME NEW w \in Workers, Claimed(c, w) PROVE Claimed(c, w)'
    <3>1. w < cursor[c]
      BY <1>0, <2>1, <2>2 DEF TasksOfStage, Claimed, Workers
    <3>2. task'[c][w] = task[c][w]
      BY <1>0, <2>1, <3>1, <1>9 DEF Launch, TypeOK, Workers
    <3>3. QED
      BY <2>2, <3>2 DEF Claimed
  <2>3. QED
    BY <1>0, <2>1, <2>2 DEF BatchesStored, HasText
<1>10. CASE LaunchDone(c)
  <2>1. /\ pc[c] = "launch" /\ pc'[c] = "join" /\ Count(c)' = Count(c)
        /\ regions' = regions /\ sorted' = sorted /\ batch' = batch /\ next_batch' = next_batch
    BY <1>0, <1>10 DEF LaunchDone, Goto, frame, tasks, Count, TypeOK
  <2>2. ASSUME NEW w \in Workers, Claimed(c, w) PROVE Claimed(c, w)'
    BY <1>0, <2>1, <2>2, <1>10 DEF LaunchDone, tasks, TypeOK, TasksOfStage, Claimed
  <2>3. QED
    BY <1>0, <2>1, <2>2 DEF BatchesStored, HasText
<1>11. CASE Join(c)
  <2>1. /\ pc[c] = "join" /\ pc'[c] \in {"join", "unwind"} /\ Count(c)' = Count(c) /\ task' = task
        /\ regions' = regions /\ sorted' = sorted /\ batch' = batch /\ next_batch' = next_batch
    BY <1>0, <1>11 DEF Join, Goto, frame, tasks, Count, TypeOK
  <2>2. QED
    BY <1>0, <2>1 DEF BatchesStored, HasText, Claimed
<1>12. CASE JoinDone(c)
  <2>1. pc[c] = "join" /\ pc'[c] = "unlock" /\ regions' = regions /\ Len(regions[c]) = Count(c)
    BY <1>0, <1>12 DEF JoinDone, Goto, TypeOK, Paired
  <2>2. cursor[c] \in Nat /\ cursor[c] > WorkerCount(Count(c)) /\ Count(c) # 0
    BY <1>0, <1>12 DEF JoinDone, TypeOK, Count, Paired
  <2>3. \A w \in Workers : task[c][w] \in {"none", "ended"}
    BY <1>0, <1>w, <2>1, <2>2 DEF TasksOfStage, Workers
  <2>4. next_batch[c] >= BatchCount(Count(c))
    <3>1. 1 \in Workers /\ task[c][1] = "ended"
      BY <1>0, <1>w, <2>1, <2>2, ConfigAssumption DEF TasksOfStage, Workers
    <3>2. QED
      BY <1>0, <3>1 DEF Claims
  <2>5. sorted[c] \in Orders(Count(c))
    BY <1>0, <2>1 DEF Sorted
  <2>6. ASSUME NEW i \in 1 .. Count(c) PROVE HasText(c, i)
    <3>1. PICK p \in 1 .. Count(c) : sorted[c][p] = i
      BY <2>5 DEF Orders, Bijection, Surjection
    <3>2. PICK b \in Nat : b < BatchCount(Count(c)) /\ p \in Slice(Count(c), b)
      BY <1>w, SliceCovers
    <3>3. b \in 0 .. next_batch[c] - 1
      <4>1. next_batch[c] \in Nat /\ BatchCount(Count(c)) \in Nat
        BY <1>0, <1>w, BatchCountBegin DEF TypeOK
      <4>2. QED
        BY <2>4, <3>2, <4>1
    <3>4. \A w \in Workers : ~Claimed(c, w)
      BY <2>3 DEF Claimed
    <3>5. QED
      BY <1>0, <2>1, <3>1, <3>2, <3>3, <3>4 DEF BatchesStored
  <2>7. QED
    BY <2>1, <2>6 DEF BatchesStored, HasText
<1>13. CASE Throw(c)
  <2>1. pc'[c] = "unwind"
    BY <1>0, <1>13 DEF Throw, Goto, TypeOK
  <2>2. QED
    BY <2>1 DEF BatchesStored
<1>14. CASE Unwind(c)
  BY <1>0, <1>14, ConfigAssumption DEF Unwind, Goto, LeaveRecognizer, Alive, frame, tasks, TypeOK, TasksOfStage, BatchesStored, Recognizing, Count, HasText
<1>15. CASE Unlock(c)
  BY <1>0, <1>15, ConfigAssumption DEF Unlock, Goto, frame, tasks, TypeOK, TasksOfStage, BatchesStored, Recognizing, Count, HasText
<1>16. CASE Convert(c)
  BY <1>0, <1>16, ConfigAssumption DEF Convert, Goto, Native, frame, tasks, TypeOK, TasksOfStage, BatchesStored, Recognizing, Count, HasText
<1>17. CASE Free(c)
  BY <1>0, <1>17, ConfigAssumption DEF Free, Goto, frame, tasks, TypeOK, TasksOfStage, BatchesStored, Recognizing, Count, HasText
<1>18. ASSUME NEW w \in Workers, Fetch(c, w) PROVE BatchesStored(c)'
  <2>1. /\ pc' = pc /\ Count(c)' = Count(c) /\ regions' = regions /\ sorted' = sorted
        /\ next_batch[c] \in Nat /\ next_batch'[c] = next_batch[c] + 1 /\ task[c][w] = "fetch"
    BY <1>0, <1>18 DEF Fetch, frame, Count, TypeOK
  <2>2. \A v \in Workers : v # w => task'[c][v] = task[c][v] /\ batch'[c][v] = batch[c][v]
    BY <1>0, <1>18, SMTT(30) DEF Fetch, TypeOK
  <2>3. ASSUME NEW b \in 0 .. next_batch[c], pc[c] \in {"launch", "join"},
               \A v \in Workers : Claimed(c, v)' => batch'[c][v] # b, NEW p \in Slice(Count(c), b)
        PROVE  HasText(c, sorted[c][p])
    <3>1. CASE b < next_batch[c]
      <4>1. b \in 0 .. next_batch[c] - 1
        BY <2>1, <3>1
      <4>2. \A v \in Workers : Claimed(c, v) => batch[c][v] # b
        BY <2>1, <2>2, <2>3 DEF Claimed
      <4>3. QED
        BY <1>0, <2>3, <4>1, <4>2 DEF BatchesStored
    <3>2. CASE b = next_batch[c]
      <4>1. ~(b < BatchCount(Count(c)))
        BY <1>0, <2>3, <3>2, <1>18 DEF Fetch, Claimed, Count, TypeOK
      <4>2. ~(Begin(b) < Count(c)) /\ Begin(b) \in Nat
        BY <1>w, <2>1, <3>2, <4>1, BatchCountBegin, BeginNat
      <4>3. Slice(Count(c), b) = {}
        BY <1>w, <4>2, ConfigAssumption DEF Slice, End
      <4>4. QED
        BY <2>3, <4>3
    <3>3. QED
      BY <2>1, <2>3, <3>1, <3>2
  <2>4. pc[c] \in Recognizing
    BY <1>0, <2>1 DEF TasksOfStage
  <2>5. next_batch'[c] - 1 = next_batch[c] /\ pc'[c] \notin {"unlock", "convert"}
    BY <2>1, <2>4 DEF Recognizing
  <2>6. QED
    BY <2>1, <2>3, <2>5 DEF BatchesStored, HasText
<1>19. ASSUME NEW w \in Workers, RunBatch(c, w) PROVE BatchesStored(c)'
  <2>1. /\ pc' = pc /\ Count(c)' = Count(c) /\ sorted' = sorted /\ batch' = batch
        /\ next_batch' = next_batch /\ task[c][w] = "run"
    BY <1>0, <1>19 DEF RunBatch, Count
  <2>2. \A v \in Workers : v # w => task'[c][v] = task[c][v]
    BY <1>0, <1>19 DEF RunBatch, TypeOK
  <2>3. sorted[c] \in Orders(Count(c)) /\ pc[c] \in Recognizing /\ Len(regions[c]) = Count(c)
    BY <2>1, RunningBatch
  <2>4. \A i \in 1 .. Count(c) : regions[c][i] \in Region
    BY <1>0, <2>3 DEF TypeOK
  <2>5. ASSUME NEW i \in 1 .. Count(c), HasText(c, i) PROVE HasText(c, i)'
    <3>1. \/ regions'[c][i] = regions[c][i]
          \/ regions'[c][i] = [regions[c][i] EXCEPT !.text = {crops[c][i]}]
      BY <1>19, RunBatchEffect
    <3>2. QED
      BY <2>4, <2>5, <3>1 DEF HasText, Region
  <2>6. ASSUME NEW b \in 0 .. next_batch[c] - 1, pc[c] \in {"launch", "join"},
               \A v \in Workers : Claimed(c, v)' => batch[c][v] # b, NEW p \in Slice(Count(c), b)
        PROVE  HasText(c, sorted[c][p])'
    <3>1. p \in 1 .. Count(c)
      <4>1. Begin(b) \in Nat
        BY BeginNat
      <4>2. QED
        BY <1>w, <4>1, ConfigAssumption DEF Slice, End
    <3>2. sorted[c][p] \in 1 .. Count(c)
      BY <2>3, <3>1 DEF Orders, Bijection, Injection
    <3>3. CASE b = batch[c][w]
      <4>1. ShortOutput \/ regions'[c][sorted[c][p]] = [regions[c][sorted[c][p]] EXCEPT !.text = {crops[c][sorted[c][p]]}]
        BY <1>19, <2>6, <3>3, RunBatchEffect
      <4>2. QED
        BY <2>1, <2>4, <3>2, <4>1 DEF HasText, Region
    <3>4. CASE b # batch[c][w]
      <4>1. \A v \in Workers : Claimed(c, v) => batch[c][v] # b
        BY <2>2, <2>6, <3>4 DEF Claimed
      <4>2. HasText(c, sorted[c][p])
        BY <1>0, <2>6, <4>1 DEF BatchesStored
      <4>3. QED
        BY <2>1, <2>5, <3>2, <4>2 DEF HasText
    <3>5. QED
      BY <3>3, <3>4
  <2>7. pc'[c] \notin {"unlock", "convert"}
    BY <2>1, <2>3 DEF Recognizing
  <2>8. QED
    BY <2>1, <2>6, <2>7 DEF BatchesStored
<1>20. ASSUME NEW w \in Workers, RunBatchThrows(c, w) PROVE BatchesStored(c)'
  <2>1. /\ pc' = pc /\ Count(c)' = Count(c) /\ regions' = regions /\ sorted' = sorted
        /\ batch' = batch /\ next_batch' = next_batch
    BY <1>0, <1>20 DEF RunBatchThrows, frame, Count
  <2>2. \A v \in Workers : Claimed(c, v) => Claimed(c, v)'
    BY <1>0, <1>20 DEF RunBatchThrows, TypeOK, Claimed
  <2>3. QED
    BY <1>0, <2>1, <2>2 DEF BatchesStored, HasText
<1>21. QED
  BY <1>1, <1>2, <1>3, <1>4, <1>5, <1>6, <1>7, <1>8, <1>9, <1>10, <1>11, <1>12, <1>13, <1>14, <1>15, <1>16, <1>17, <1>18, <1>19, <1>20 DEF CallAction, CallerStep, TaskStep

------------------------------------------------------------------------------
(* The other calls.                                                        *)

\* What the model keeps of one call.
View(c) == <<pc[c], kind[c], due[c], found[c], cursor[c], crops[c], regions[c], sorted[c],
             next_batch[c], task[c], batch[c], status[c], result[c]>>

\* A call touches what is kept of no other call.
LEMMA OthersUntouched ==
    ASSUME TypeOK, NEW c \in Callers, CallAction(c), NEW d \in Callers, d # c
    PROVE  View(d)' = View(d)
<1>1. CASE Call(c)
  BY <1>1 DEF Call, Goto, frame, tasks, View, TypeOK
<1>2. CASE Lock(c)
  BY <1>2 DEF Lock, Goto, frame, tasks, View, TypeOK
<1>3. CASE Detect(c)
  BY <1>3 DEF Detect, Goto, frame, tasks, View, TypeOK
<1>4. CASE CropRegion(c)
  BY <1>4 DEF CropRegion, Goto, frame, tasks, View, TypeOK
<1>5. CASE CropDone(c)
  BY <1>5 DEF CropDone, Goto, frame, tasks, View, TypeOK
<1>6. CASE ClassifyBatch(c)
  BY <1>6 DEF ClassifyBatch, Goto, frame, tasks, View, TypeOK
<1>7. CASE ClassifyDone(c)
  BY <1>7 DEF ClassifyDone, Goto, frame, tasks, View, TypeOK
<1>8. CASE Split(c)
  BY <1>8 DEF Split, Goto, frame, tasks, View, TypeOK
<1>9. CASE Launch(c)
  BY <1>9 DEF Launch, Goto, frame, tasks, View, TypeOK
<1>10. CASE LaunchDone(c)
  BY <1>10 DEF LaunchDone, Goto, frame, tasks, View, TypeOK
<1>11. CASE Join(c)
  BY <1>11 DEF Join, Goto, frame, tasks, View, TypeOK
<1>12. CASE JoinDone(c)
  BY <1>12 DEF JoinDone, Goto, LeaveRecognizer, Alive, frame, tasks, View, TypeOK
<1>13. CASE Throw(c)
  BY <1>13 DEF Throw, Goto, frame, tasks, View, TypeOK
<1>14. CASE Unwind(c)
  BY <1>14 DEF Unwind, Goto, LeaveRecognizer, Alive, frame, tasks, View, TypeOK
<1>15. CASE Unlock(c)
  BY <1>15 DEF Unlock, Goto, frame, tasks, View, TypeOK
<1>16. CASE Convert(c)
  BY <1>16 DEF Convert, Goto, Native, frame, tasks, View, TypeOK
<1>17. CASE Free(c)
  BY <1>17 DEF Free, Goto, frame, tasks, View, TypeOK
<1>18. CASE \E w \in Workers : Fetch(c, w)
  <2>1. PICK w \in Workers : Fetch(c, w)
    BY <1>18
  <2>2. next_batch'[d] = next_batch[d] /\ task'[d] = task[d] /\ batch'[d] = batch[d]
    BY <2>1 DEF Fetch, TypeOK
  <2>3. QED
    BY <2>1, <2>2 DEF Fetch, frame, View
<1>19. CASE \E w \in Workers : RunBatch(c, w)
  BY <1>19 DEF RunBatch, Goto, Stored, frame, tasks, View, TypeOK
<1>20. CASE \E w \in Workers : RunBatchThrows(c, w)
  BY <1>20 DEF RunBatchThrows, Goto, frame, tasks, View, TypeOK
<1>21. QED
  BY <1>1, <1>2, <1>3, <1>4, <1>5, <1>6, <1>7, <1>8, <1>9, <1>10, <1>11, <1>12, <1>13, <1>14, <1>15, <1>16, <1>17, <1>18, <1>19, <1>20 DEF CallAction, CallerStep, TaskStep

\* The invariant of a call depends on that call alone.
LEMMA CallInvLocal ==
    ASSUME NEW d \in Callers, CallInv(d), View(d)' = View(d)
    PROVE  CallInv(d)'
<1>1. TasksOfStage(d)'
  BY DEF View, CallInv, TasksOfStage, Count
<1>2. Claims(d)'
  BY DEF View, CallInv, Claims, Claimed, Count
<1>3. Paired(d)'
  BY DEF View, CallInv, Paired, Count, Items
<1>4. InOrder(d)'
  BY DEF View, CallInv, InOrder
<1>5. Sorted(d)'
  BY DEF View, CallInv, Sorted, Count
<1>6. TextsOwn(d)'
  BY DEF View, CallInv, TextsOwn
<1>7. BatchesStored(d)'
  BY DEF View, CallInv, BatchesStored, Claimed, Count, HasText
<1>8. Answered(d)'
  BY DEF View, CallInv, Answered
<1>9. Complete(d)'
  BY DEF View, CallInv, Complete, Sources
<1>10. QED
  BY <1>1, <1>2, <1>3, <1>4, <1>5, <1>6, <1>7, <1>8, <1>9 DEF CallInv

------------------------------------------------------------------------------
(* The mutex, and what a call hands out.                                  *)

\* The mutex follows the lock_guard's scope.
LEMMA MutexHeldStep ==
    ASSUME IInv, NEW c \in Callers, CallAction(c)
    PROVE  MutexHeld'
<1>1. CASE Call(c)
  BY <1>1, ConfigAssumption DEF IInv, Call, Goto, frame, tasks, MutexHeld, TypeOK, Locked, Stages
<1>2. CASE Lock(c)
  BY <1>2, ConfigAssumption DEF IInv, Lock, Goto, frame, tasks, MutexHeld, TypeOK, Locked, Stages
<1>3. CASE Detect(c)
  BY <1>3, ConfigAssumption DEF IInv, Detect, Goto, frame, tasks, MutexHeld, TypeOK, Locked, Stages
<1>4. CASE CropRegion(c)
  BY <1>4, ConfigAssumption DEF IInv, CropRegion, Goto, frame, tasks, MutexHeld, TypeOK, Locked, Stages
<1>5. CASE CropDone(c)
  BY <1>5, ConfigAssumption DEF IInv, CropDone, Goto, frame, tasks, MutexHeld, TypeOK, Locked, Stages
<1>6. CASE ClassifyBatch(c)
  BY <1>6, ConfigAssumption DEF IInv, ClassifyBatch, Goto, frame, tasks, MutexHeld, TypeOK, Locked, Stages
<1>7. CASE ClassifyDone(c)
  BY <1>7, ConfigAssumption DEF IInv, ClassifyDone, Goto, frame, tasks, MutexHeld, TypeOK, Locked, Stages
<1>8. CASE Split(c)
  BY <1>8, ConfigAssumption DEF IInv, Split, Goto, frame, tasks, MutexHeld, TypeOK, Locked, Stages
<1>9. CASE Launch(c)
  BY <1>9, ConfigAssumption DEF IInv, Launch, Goto, frame, tasks, MutexHeld, TypeOK, Locked, Stages
<1>10. CASE LaunchDone(c)
  BY <1>10, ConfigAssumption DEF IInv, LaunchDone, Goto, frame, tasks, MutexHeld, TypeOK, Locked, Stages
<1>11. CASE Join(c)
  BY <1>11, ConfigAssumption DEF IInv, Join, Goto, frame, tasks, MutexHeld, TypeOK, Locked, Stages
<1>12. CASE JoinDone(c)
  BY <1>12, ConfigAssumption DEF IInv, JoinDone, Goto, LeaveRecognizer, Alive, frame, tasks, MutexHeld, TypeOK, Locked, Stages
<1>13. CASE Throw(c)
  BY <1>13, ConfigAssumption DEF IInv, Throw, Goto, frame, tasks, MutexHeld, TypeOK, Locked, Stages
<1>14. CASE Unwind(c)
  BY <1>14, ConfigAssumption DEF IInv, Unwind, Goto, LeaveRecognizer, Alive, frame, tasks, MutexHeld, TypeOK, Locked, Stages
<1>15. CASE Unlock(c)
  BY <1>15, ConfigAssumption DEF IInv, Unlock, Goto, frame, tasks, MutexHeld, TypeOK, Locked, Stages
<1>16. CASE Convert(c)
  BY <1>16, ConfigAssumption DEF IInv, Convert, Goto, frame, tasks, MutexHeld, TypeOK, Locked, Stages
<1>17. CASE Free(c)
  BY <1>17, ConfigAssumption DEF IInv, Free, Goto, frame, tasks, MutexHeld, TypeOK, Locked, Stages
<1>18. ASSUME NEW w \in Workers, Fetch(c, w) PROVE MutexHeld'
  BY <1>18, ConfigAssumption DEF IInv, Fetch, Goto, frame, tasks, MutexHeld, TypeOK, Locked, Stages
<1>19. ASSUME NEW w \in Workers, RunBatch(c, w) PROVE MutexHeld'
  BY <1>19, ConfigAssumption DEF IInv, RunBatch, Goto, frame, tasks, MutexHeld, TypeOK, Locked, Stages
<1>20. ASSUME NEW w \in Workers, RunBatchThrows(c, w) PROVE MutexHeld'
  BY <1>20, ConfigAssumption DEF IInv, RunBatchThrows, Goto, frame, tasks, MutexHeld, TypeOK, Locked, Stages
<1>21. QED
  BY <1>1, <1>2, <1>3, <1>4, <1>5, <1>6, <1>7, <1>8, <1>9, <1>10, <1>11, <1>12, <1>13, <1>14, <1>15, <1>16, <1>17, <1>18, <1>19, <1>20 DEF CallAction, CallerStep, TaskStep

\* Only Convert hands out a result, and what it hands out is faithful.
LEMMA ResultFaithfulStep ==
    ASSUME IInv, NEW c \in Callers, CallAction(c)
    PROVE  ResultFaithful'
<1>1. ASSUME NEW d \in Callers, status'[d] = "OK"
      PROVE  \E r \in result'[d] : result'[d] = {r} /\ FaithfulResult(d, r)'
  <2>1. CASE status'[d] = status[d] /\ View(d)' = View(d)
    <3>1. PICK r \in result[d] : result[d] = {r} /\ FaithfulResult(d, r)
      BY <1>1, <2>1 DEF IInv, ResultFaithful
    <3>2. result'[d] = result[d] /\ kind'[d] = kind[d] /\ due'[d] = due[d]
      BY <2>1 DEF View
    <3>3. FaithfulResult(d, r)'
      BY <3>1, <3>2 DEF FaithfulResult, Sources, OwnText
    <3>4. QED
      BY <3>1, <3>2, <3>3
  <2>2. CASE d # c
    <3>1. View(d)' = View(d)
      BY <2>2, OthersUntouched DEF IInv
    <3>2. QED
      BY <2>1, <3>1 DEF View
  <2>3. CASE d = c /\ Convert(c)
    <3>1. result' = [result EXCEPT ![c] = {Native(c)}]
      BY <1>1, <2>3 DEF Convert, IInv, TypeOK
    <3>2. pc[c] = "convert" /\ Native(c) = regions[c] /\ Native(c) \in Seq(Region)
      BY <2>3, NativeTyped DEF Convert
    <3>3. due' = due /\ kind' = kind
      BY <2>3 DEF Convert
    <3>4. FaithfulResult(c, regions[c])
      <4>1. \A i \in 1 .. Len(regions[c]) : OwnText(regions[c][i]) /\ (ShortOutput \/ regions[c][i].text # {})
        BY <3>2 DEF IInv, CallInv, TextsOwn, BatchesStored, HasText
      <4>2. \A i, j \in 1 .. Len(regions[c]) : i < j => regions[c][i].src < regions[c][j].src
        BY DEF IInv, CallInv, InOrder
      <4>3. kind[c] = "batch" => \A i \in 1 .. Len(regions[c]) : regions[c][i].src = i
        BY DEF IInv, CallInv, InOrder
      <4>4. /\ Sources(regions[c]) = due[c]
            /\ kind[c] = "batch" => due[c] = 1 .. Len(regions[c])
        BY <3>2 DEF IInv, CallInv, Complete, Working
      <4>5. QED
        BY <4>1, <4>2, <4>3, <4>4 DEF FaithfulResult
    <3>5. PICK r : r = regions[c]
      OBVIOUS
    <3>6. FaithfulResult(d, r)'
      BY <2>3, <3>3, <3>4, <3>5 DEF FaithfulResult, Sources, OwnText
    <3>7. result'[d] = {r}
      BY <2>3, <3>1, <3>2, <3>5 DEF IInv, TypeOK
    <3>8. QED
      BY <3>6, <3>7
  <2>4. CASE d = c /\ ~Convert(c)
    <3>1. status[c] = "OK" => pc[c] = "returned"
      BY DEF IInv, CallInv, Answered
    <3>2. status'[c] # "OK"
      <4>1. CASE Unwind(c) \/ Free(c)
        BY <4>1 DEF Unwind, Free, IInv, TypeOK
      <4>2. CASE pc[c] # "returned" /\ status' = status
        BY <3>1, <4>2
      <4>3. CASE \E w \in Workers : TaskStep(c, w)
        <5>1. PICK w \in Workers : TaskStep(c, w)
          BY <4>3
        <5>2. task[c][w] # "none" /\ status' = status
          BY <5>1 DEF TaskStep, Fetch, RunBatch, RunBatchThrows
        <5>3. pc[c] # "returned"
          BY <5>2 DEF IInv, CallInv, TasksOfStage, Recognizing
        <5>4. QED
          BY <4>2, <5>2, <5>3
      <4>4. QED
        BY <2>4, <4>1, <4>2, <4>3
           DEF CallAction, CallerStep, Call, Lock, Detect, CropRegion, CropDone, ClassifyBatch,
               ClassifyDone, Split, Launch, LaunchDone, Join, JoinDone, Throw, Unlock
    <3>3. QED
      BY <1>1, <2>4, <3>2
  <2>5. QED
    BY <2>2, <2>3, <2>4
<1>2. QED
  BY <1>1 DEF ResultFaithful

------------------------------------------------------------------------------
\* The initial states satisfy the invariant.
LEMMA InitIInv == Init => IInv
<1> SUFFICES ASSUME Init PROVE IInv
  OBVIOUS
<1>1. TypeOK
  <2>1. <<>> \in Seq(Crop) /\ <<>> \in Seq(Region) /\ <<>> \in Seq(Nat)
    OBVIOUS
  <2>2. 0 \in 0 .. MaxItems
    BY ConfigAssumption
  <2>3. QED
    BY <2>1, <2>2 DEF Init, TypeOK, Stages
<1>2. MutexHeld
  BY ConfigAssumption DEF Init, MutexHeld, Locked
<1>3. ASSUME NEW c \in Callers PROVE CallInv(c)
  <2>1. /\ pc[c] = "idle" /\ crops[c] = <<>> /\ regions[c] = <<>> /\ kind[c] = "run"
        /\ due[c] = {} /\ status[c] = "none" /\ result[c] = {}
        /\ \A w \in Workers : task[c][w] = "none"
    BY DEF Init
  <2>2. Len(regions[c]) = 0 /\ Count(c) = 0
    BY <2>1 DEF Count
  <2>3. TasksOfStage(c) /\ Claims(c) /\ Sorted(c) /\ Answered(c)
    BY <2>1 DEF TasksOfStage, Claims, Claimed, Sorted, Answered
  <2>4. Paired(c) /\ InOrder(c) /\ TextsOwn(c) /\ BatchesStored(c)
    BY <2>1, <2>2 DEF Paired, InOrder, TextsOwn, BatchesStored, Items, Count
  <2>5. Complete(c)
    BY <2>1 DEF Complete, Working
  <2>6. QED
    BY <2>3, <2>4, <2>5 DEF CallInv
<1>4. ResultFaithful
  BY DEF Init, ResultFaithful
<1>5. QED
  BY <1>1, <1>2, <1>3, <1>4 DEF IInv

\* Every step preserves it.
LEMMA NextIInv == IInv /\ [Next]_vars => IInv'
<1> SUFFICES ASSUME IInv, [Next]_vars PROVE IInv'
  OBVIOUS
<1>1. TypeOK'
  BY TypeOKStep
<1>2. ASSUME NEW c \in Callers, CallAction(c) PROVE IInv'
  <2>1. MutexHeld' /\ ResultFaithful'
    BY <1>2, MutexHeldStep, ResultFaithfulStep
  <2>2. CallInv(c)'
    <3>1. TasksOfStage(c)' /\ Claims(c)' /\ Paired(c)' /\ InOrder(c)'
      BY <1>1, <1>2, TasksOfStageStep, ClaimsStep, PairedStep, InOrderStep
    <3>2. Sorted(c)' /\ TextsOwn(c)' /\ BatchesStored(c)' /\ Answered(c)'
      BY <1>1, <1>2, SortedStep, TextsOwnStep, BatchesStoredStep, AnsweredStep
    <3>3. Complete(c)'
      BY <1>1, <1>2, CompleteStep
    <3>4. QED
      BY <3>1, <3>2, <3>3 DEF CallInv
  <2>3. ASSUME NEW d \in Callers, d # c PROVE CallInv(d)'
    <3>1. View(d)' = View(d) /\ CallInv(d)
      BY <1>2, <2>3, OthersUntouched DEF IInv
    <3>2. QED
      BY <3>1, CallInvLocal
  <2>4. QED
    BY <1>1, <2>1, <2>2, <2>3 DEF IInv
<1>3. CASE UNCHANGED vars
  <2>1. MutexHeld' /\ ResultFaithful'
    BY <1>3 DEF vars, IInv, MutexHeld, ResultFaithful, FaithfulResult, Sources
  <2>2. ASSUME NEW c \in Callers PROVE CallInv(c)'
    <3>1. View(c)' = View(c) /\ CallInv(c)
      BY <1>3 DEF vars, View, IInv
    <3>2. QED
      BY <3>1, CallInvLocal
  <2>3. QED
    BY <1>1, <2>1, <2>2 DEF IInv
<1>4. QED
  BY <1>2, <1>3 DEF Next

------------------------------------------------------------------------------
(* The theorems.                                                           *)

\* IInv is an invariant: it holds at the start and every step of a caller or of a
\* task preserves it.
THEOREM Invariance == Spec => []IInv
BY InitIInv, NextIInv, PTL DEF Spec

\* Every variable keeps its type: Run, RecognizeBatch and Recognizer::Run never
\* store anything but crops, regions, batch indices and results of their kind.
THEOREM TypeCorrect == Spec => []TypeOK
<1>1. IInv => TypeOK
  BY DEF IInv
<1>2. QED
  BY Invariance, <1>1, PTL

\* A task exists only in a call that holds run_mutex, and one caller holds it.
LEMMA TaskHoldsMutex ==
    ASSUME IInv, NEW c \in Callers, NEW w \in Workers, task[c][w] # "none"
    PROVE  run_mutex = c
<1>1. pc[c] \in Recognizing
  BY DEF IInv, CallInv, TasksOfStage
<1>2. QED
  BY <1>1 DEF IInv, MutexHeld, Recognizing, Locked

\* nets_[w] is never used by two tasks at once, although each call starts a task
\* for it: run_mutex in Run and RecognizeBatch outlives the tasks of a call.
THEOREM NetsExclusive == Spec => []NetExclusive
<1>1. IInv => NetExclusive
  BY TaskHoldsMutex DEF NetExclusive
<1>2. QED
  BY Invariance, <1>1, PTL

\* No task outlives the locals of Recognizer::Run that it captured by reference,
\* however the call leaves the function.
THEOREM TasksStayInside == Spec => []TasksInsideFrame
<1>1. IInv => TasksInsideFrame
  BY DEF IInv, CallInv, TasksOfStage, TasksInsideFrame, Alive
<1>2. QED
  BY Invariance, <1>1, PTL

\* RunBatch writes regions[indices[k]] without a lock, and needs none: the batches
\* two tasks are running are different, their slices of the order have no position
\* in common, and the order names no crop twice.
THEOREM NoWriteRace == Spec => []WritesDisjoint
<1>1. ASSUME IInv PROVE WritesDisjoint
  <2> SUFFICES ASSUME NEW c \in Callers, NEW v \in Workers, NEW w \in Workers,
                      task[c][v] = "run", task[c][w] = "run", v # w
               PROVE  Indices(c, v) \cap Indices(c, w) = {}
    BY DEF WritesDisjoint
  <2>1. batch[c][v] # batch[c][w]
    BY <1>1 DEF IInv, CallInv, Claims, Claimed
  <2>2. /\ Count(c) \in Nat /\ batch[c][v] \in Nat /\ batch[c][w] \in Nat
        /\ sorted[c] \in Orders(Count(c))
    BY <1>1, RunningBatch
  <2>3. Slice(Count(c), batch[c][v]) \cap Slice(Count(c), batch[c][w]) = {}
    BY <2>1, <2>2, SlicesDisjoint
  <2>4. \A b \in Nat : Slice(Count(c), b) \subseteq 1 .. Count(c)
    <3> SUFFICES ASSUME NEW b \in Nat PROVE Slice(Count(c), b) \subseteq 1 .. Count(c)
      OBVIOUS
    <3>1. Begin(b) \in Nat
      BY BeginNat
    <3>2. QED
      BY <2>2, <3>1, ConfigAssumption DEF Slice, End
  <2>5. \A p, q \in 1 .. Count(c) : sorted[c][p] = sorted[c][q] => p = q
    BY <2>2 DEF Orders, Bijection, Injection, IsInjective
  <2>6. QED
    BY <2>2, <2>3, <2>4, <2>5 DEF Indices, Count
<1>2. QED
  BY Invariance, <1>1, PTL

\* A call that returns success returns one item for every image of the batch, at its
\* position, or for every region cut of the page, in the order of detection, each with
\* the text read from its own crop: sorting by aspect ratio, batching, and workers
\* that finish in any order neither lose, repeat nor exchange an item or a text.
THEOREM ResultsFaithful == Spec => []ResultFaithful
<1>1. IInv => ResultFaithful
  BY DEF IInv
<1>2. QED
  BY Invariance, <1>1, PTL

\* A call that fails leaves the output pointer null: nothing leaks through a caller
\* that does not free what it was not given.
THEOREM ErrorsHaveNoResult == Spec => []ErrorHasNoResult
<1>1. IInv => ErrorHasNoResult
  BY DEF IInv, CallInv, Answered, ErrorHasNoResult
<1>2. QED
  BY Invariance, <1>1, PTL

\* A call one of whose tasks threw leaves recognition only to return an error.
THEOREM FailuresSurface == Spec => FailureSurfaces
<1> DEFINE Surfaces == \A c \in Callers :
              (\E w \in Workers : task[c][w] = "threw") /\ pc'[c] \notin Recognizing
                  => status'[c] = "ERROR"
<1>1. ASSUME IInv, [Next]_vars PROVE [Surfaces]_vars
  <2> SUFFICES ASSUME NEW d \in Callers, NEW v \in Workers, task[d][v] = "threw",
                      pc'[d] \notin Recognizing, Next
               PROVE  status'[d] = "ERROR"
    BY <1>1
  <2>1. pc[d] \in Recognizing /\ v <= WorkerCount(Count(d))
    BY <1>1 DEF IInv, CallInv, TasksOfStage
  <2>2. PICK c \in Callers : CallAction(c)
    BY DEF Next
  <2>3. c = d
    <3>1. c # d => View(d)' = View(d)
      BY <1>1, <2>2, OthersUntouched DEF IInv
    <3>2. QED
      BY <2>1, <3>1 DEF View
  <2>4. ~JoinDone(d)
    <3> SUFFICES ASSUME JoinDone(d) PROVE FALSE
      OBVIOUS
    <3>1. /\ pc[d] = "join" /\ cursor[d] \in Nat /\ cursor[d] > WorkerCount(Count(d))
          /\ WorkerCount(Count(d)) \in Nat
      BY <1>1, WorkerCountBounds DEF JoinDone, IInv, TypeOK, Count
    <3>2. v < cursor[d]
      BY <2>1, <3>1 DEF Workers
    <3>3. task[d][v] = "ended"
      BY <1>1, <2>1, <3>1, <3>2 DEF IInv, CallInv, TasksOfStage
    <3>4. QED
      BY <3>3
  <2>5. CASE Unwind(d)
    BY <1>1, <2>5 DEF Unwind, IInv, TypeOK
  <2>6. CASE Launch(d) \/ LaunchDone(d) \/ Join(d) \/ Throw(d)
    BY <1>1, <2>1, <2>6 DEF Launch, LaunchDone, Join, Throw, Goto, Recognizing, IInv, TypeOK
  <2>7. CASE \E w \in Workers : TaskStep(d, w)
    BY <2>1, <2>7 DEF TaskStep, Fetch, RunBatch, RunBatchThrows
  <2>8. QED
    BY <2>1, <2>2, <2>3, <2>4, <2>5, <2>6, <2>7
       DEF CallAction, CallerStep, Recognizing, Call, Lock, Detect, CropRegion, CropDone,
           ClassifyBatch, ClassifyDone, Split, Unlock, Convert, Free
<1>2. QED
  BY Invariance, <1>1, PTL DEF Spec, FailureSurfaces

------------------------------------------------------------------------------
(* The engine implements the service.                                      *)

\* What the callers see.
Phases == [c \in Callers |-> Phase(c)]

\* What they asked for.
Askeds == [c \in Callers |-> Asked(c)]

PendingStages == Stages \ {"idle", "returned"}

\* The phase follows pc, one call at a time.
LEMMA PhaseMoves ==
    ASSUME TypeOK, NEW c \in Callers, NEW s \in Stages, Goto(c, s)
    PROVE  /\ s = "idle" => Phases' = [Phases EXCEPT ![c] = "idle"]
           /\ s = "returned" => Phases' = [Phases EXCEPT ![c] = "answered"]
           /\ s \in PendingStages => Phases' = [Phases EXCEPT ![c] = "pending"]
<1>1. pc'[c] = s /\ \A d \in Callers : d # c => pc'[d] = pc[d]
  BY DEF TypeOK, Goto
<1>2. \A d \in Callers : d # c => Phase(d)' = Phase(d)
  BY <1>1 DEF Phase
<1>3. /\ s = "idle" => Phase(c)' = "idle"
      /\ s = "returned" => Phase(c)' = "answered"
      /\ s \in PendingStages => Phase(c)' = "pending"
  BY <1>1 DEF Phase, PendingStages
<1>4. QED
  BY <1>2, <1>3 DEF Phases

LEMMA PhaseOf ==
    ASSUME TypeOK, NEW c \in Callers
    PROVE  /\ pc[c] = "idle" => Phases[c] = "idle"
           /\ pc[c] = "returned" => Phases[c] = "answered"
           /\ pc[c] \in PendingStages => Phases[c] = "pending"
BY DEF Phases, Phase, PendingStages

\* What a call asked for is what a batch is due.
LEMMA AskedMoves ==
    ASSUME TypeOK, NEW c \in Callers,
           \A d \in Callers \ {c} : kind'[d] = kind[d] /\ due'[d] = due[d]
    PROVE  Askeds' = [Askeds EXCEPT ![c] = IF kind'[c] = "batch" THEN due'[c] ELSE {}]
<1>1. \A d \in Callers \ {c} : Asked(d)' = Asked(d)
  BY DEF Asked
<1>2. Asked(c)' = IF kind'[c] = "batch" THEN due'[c] ELSE {}
  BY DEF Asked
<1>3. QED
  BY <1>1, <1>2 DEF Askeds

\* Nothing is asked between the call and the release of its answer: the boxes a page
\* turns out to hold are the engine's own affair.
LEMMA AskedStays ==
    ASSUME IInv, NEW c \in Callers, CallAction(c), ~Call(c), ~Free(c)
    PROVE  UNCHANGED Askeds
<1>1. CASE CropRegion(c)
  <2>1. pc[c] = "crop" /\ kind' = kind
    BY <1>1 DEF CropRegion
  <2>2. kind[c] = "run"
    BY <2>1 DEF IInv, CallInv, InOrder
  <2>3. \A d \in Callers \ {c} : due'[d] = due[d]
    BY <1>1 DEF CropRegion, IInv, TypeOK
  <2>4. \A d \in Callers : Asked(d)' = Asked(d)
    BY <2>1, <2>2, <2>3 DEF Asked
  <2>5. QED
    BY <2>4 DEF Askeds
<1>2. CASE ~CropRegion(c)
  <2>1. kind' = kind /\ due' = due
    BY <1>2 DEF CallAction, CallerStep, TaskStep, Lock, Detect, CropDone, ClassifyBatch, ClassifyDone,
                Split, Launch, LaunchDone, Join, JoinDone, Throw, Unwind, Unlock, Convert,
                Fetch, RunBatch, RunBatchThrows
  <2>2. QED
    BY <2>1 DEF Askeds, Asked
<1>3. QED
  BY <1>1, <1>2

\* As long as a call only moves between the stages of its own, nothing is seen of it.
LEMMA PendingStutters ==
    ASSUME TypeOK, NEW c \in Callers, pc[c] \in PendingStages, NEW s \in PendingStages,
           Goto(c, s) \/ UNCHANGED pc, UNCHANGED <<status, result>>
    PROVE  UNCHANGED <<Phases, status, result>>
<1>1. CASE Goto(c, s)
  <2>1. Phases' = [Phases EXCEPT ![c] = "pending"] /\ Phases[c] = "pending"
    BY <1>1, PhaseMoves, PhaseOf DEF PendingStages
  <2>2. Phases' = Phases
    BY <2>1 DEF Phases
  <2>3. QED
    BY <2>2
<1>2. CASE UNCHANGED pc
  BY <1>2 DEF Phases, Phase
<1>3. QED
  BY <1>1, <1>2

\* Regions come from different boxes, of which there are at most MaxItems.
LEMMA RegionsBounded ==
    ASSUME IInv, NEW c \in Callers
    PROVE  Len(regions[c]) \in 0 .. MaxItems
<1> DEFINE n == Len(regions[c])
           f == [i \in 1 .. n |-> regions[c][i].src]
<1>1. regions[c] \in Seq(Region) /\ n \in Nat
  BY DEF IInv, TypeOK
<1>2. \A i \in 1 .. n : regions[c][i] \in Region
  BY <1>1
<1>3. \A i, j \in 1 .. n : i < j => regions[c][i].src < regions[c][j].src
  BY DEF IInv, CallInv, InOrder
<1>4. f \in [1 .. n -> 1 .. MaxItems]
  BY <1>2 DEF Region
<1>5. \A i, j \in 1 .. n : f[i] = f[j] => i = j
  <2> SUFFICES ASSUME NEW i \in 1 .. n, NEW j \in 1 .. n, f[i] = f[j] PROVE i = j
    OBVIOUS
  <2>1. f[i] \in Int /\ f[i] = regions[c][i].src /\ f[j] = regions[c][j].src
    BY <1>4
  <2>2. ~(i < j) /\ ~(j < i)
    BY <1>3, <2>1
  <2>3. QED
    BY <1>1, <2>2
<1>6. f \in Injection(1 .. n, 1 .. MaxItems)
  BY <1>4, <1>5 DEF Injection, IsInjective
<1>7. IsFiniteSet(1 .. MaxItems) /\ Cardinality(1 .. MaxItems) = MaxItems /\ Cardinality(1 .. n) = n
  <2>1. \A m \in Nat : IsFiniteSet(1 .. m) /\ Cardinality(1 .. m) = IF 1 > m THEN 0 ELSE m - 1 + 1
    BY FS_Interval
  <2>2. \A m \in Nat : IsFiniteSet(1 .. m) /\ Cardinality(1 .. m) = m
    BY <2>1
  <2>3. QED
    BY <1>1, <2>2, ConfigAssumption
<1>8. n <= MaxItems
  BY <1>6, <1>7, FS_Injection
<1>9. QED
  BY <1>1, <1>8, ConfigAssumption

\* What Convert hands out is a reply of the service.
LEMMA NativeIsReply ==
    ASSUME IInv, NEW c \in Callers, pc[c] = "convert"
    PROVE  Native(c) \in Service!Replies(Asked(c))
<1> DEFINE r == regions[c]
<1>1. Native(c) = r /\ r \in Seq(Region) /\ Len(r) \in 0 .. MaxItems
  BY NativeTyped, RegionsBounded
<1>2. \A i \in 1 .. Len(r) : OwnText(r[i]) /\ (ShortOutput \/ r[i].text # {})
  BY DEF IInv, CallInv, TextsOwn, BatchesStored, HasText
<1>3. \A i, j \in 1 .. Len(r) : i < j => r[i].src < r[j].src
  BY DEF IInv, CallInv, InOrder
<1>4. ASSUME NEW i \in 1 .. Len(r)
      PROVE  r[i] \in Service!Item /\ Service!Own(r[i])
  <2>1. r[i] \in Region
    BY <1>1
  <2>2. r[i].text \subseteq {Service!OwnCrop(r[i].src, r[i].flipped)}
    BY <1>2 DEF OwnText, Service!OwnCrop
  <2>3. r[i].text \in SUBSET {Service!OwnCrop(s, f) : s \in 1 .. MaxItems, f \in BOOLEAN}
    BY <2>1, <2>2 DEF Region
  <2>4. r[i] \in Service!Item
    BY <2>1, <2>3 DEF Region, Service!Item
  <2>5. QED
    BY <2>2, <2>4 DEF Service!Own
<1>5. Service!Faithful(r)
  BY <1>2, <1>3, <1>4 DEF Service!Faithful
<1>6. r \in [1 .. Len(r) -> {item \in Service!Item : Service!Own(item)}]
  BY <1>1, <1>4
<1>7. Service!Complete(r, Asked(c))
  <2>1. CASE kind[c] = "batch"
    <3>1. Asked(c) = 1 .. Len(r)
      BY <2>1 DEF Asked, IInv, CallInv, Complete, Working
    <3>2. \A i \in 1 .. Len(r) : r[i].src = i
      BY <2>1 DEF IInv, CallInv, InOrder
    <3>3. QED
      BY <3>1, <3>2 DEF Service!Complete
  <2>2. CASE kind[c] # "batch"
    BY <2>2 DEF Asked, Service!Complete
  <2>3. QED
    BY <2>1, <2>2
<1>8. r \in UNION {[1 .. n -> {item \in Service!Item : Service!Own(item)}] : n \in 0 .. MaxItems}
  BY <1>1, <1>6
<1>9. QED
  BY <1>1, <1>5, <1>7, <1>8 DEF Service!Replies

------------------------------------------------------------------------------
USE DEF Phases, Askeds

\* The call is made.
LEMMA CallInvokes ==
    ASSUME IInv, NEW c \in Callers, Call(c)
    PROVE  Service!Invoke(c)
<1>1. pc[c] = "idle" /\ Goto(c, "lock") /\ status' = status
  BY DEF Call
<1>2. result[c] = {}
  BY <1>1 DEF IInv, CallInv, Answered
<1>3. result' = result
  BY <1>2 DEF Call, IInv, TypeOK
<1>4. Phases[c] = "idle" /\ Phases' = [Phases EXCEPT ![c] = "pending"]
  BY <1>1, PhaseOf, PhaseMoves DEF IInv, Stages, PendingStages
<1>5. \E n \in 0 .. MaxItems : Askeds' = [Askeds EXCEPT ![c] = 1 .. n]
  <2>1. \A d \in Callers \ {c} : kind'[d] = kind[d] /\ due'[d] = due[d]
    BY DEF Call, IInv, TypeOK
  <2> HIDE DEF Askeds
  <2>2. Askeds' = [Askeds EXCEPT ![c] = IF kind'[c] = "batch" THEN due'[c] ELSE {}]
    BY <2>1, AskedMoves DEF IInv
  <2>3. CASE kind' = [kind EXCEPT ![c] = "run"]
    <3>1. kind'[c] # "batch" /\ 1 .. 0 = {} /\ 0 \in 0 .. MaxItems
      BY <2>3, ConfigAssumption DEF IInv, TypeOK
    <3>2. QED
      BY <2>2, <3>1
  <2>4. CASE /\ kind' = [kind EXCEPT ![c] = "batch"]
             /\ \E n \in 1 .. MaxItems : due' = [due EXCEPT ![c] = 1 .. n]
    <3>1. PICK n \in 1 .. MaxItems : due' = [due EXCEPT ![c] = 1 .. n]
      BY <2>4
    <3>2. kind'[c] = "batch" /\ due'[c] = 1 .. n /\ n \in 0 .. MaxItems
      BY <2>4, <3>1, ConfigAssumption DEF IInv, TypeOK
    <3>3. QED
      BY <2>2, <3>2
  <2>5. QED
    BY <2>3, <2>4 DEF Call
<1>6. QED
  BY <1>1, <1>3, <1>4, <1>5 DEF Service!Invoke

\* It is answered where its result is handed out, or where an exception becomes a status.
LEMMA ConvertAnswers ==
    ASSUME IInv, NEW c \in Callers, Convert(c)
    PROVE  Service!Succeed(c) \/ Service!Fail(c)
<1>1. pc[c] = "convert" /\ Goto(c, "returned")
  BY DEF Convert
<1>2. Phases[c] = "pending" /\ Phases' = [Phases EXCEPT ![c] = "answered"]
  BY <1>1, PhaseOf, PhaseMoves DEF IInv, Stages, PendingStages
<1>3. UNCHANGED Askeds
  BY DEF Convert, Asked
<1>4. CASE /\ result' = [result EXCEPT ![c] = {Native(c)}]
           /\ status' = [status EXCEPT ![c] = "OK"]
  <2>1. Native(c) \in Service!Replies(Askeds[c])
    BY <1>1, NativeIsReply
  <2>2. QED
    BY <1>2, <1>3, <1>4, <2>1 DEF Service!Succeed
<1>5. CASE status' = [status EXCEPT ![c] = "ERROR"] /\ UNCHANGED result
  BY <1>2, <1>3, <1>5 DEF Service!Fail
<1>6. QED
  BY <1>4, <1>5 DEF Convert

LEMMA UnwindFails ==
    ASSUME IInv, NEW c \in Callers, Unwind(c)
    PROVE  Service!Fail(c)
<1>1. pc[c] = "unwind" /\ Goto(c, "returned") /\ result' = result
  BY DEF Unwind
<1>2. Phases[c] = "pending" /\ Phases' = [Phases EXCEPT ![c] = "answered"]
  BY <1>1, PhaseOf, PhaseMoves DEF IInv, Stages, PendingStages
<1>3. UNCHANGED Askeds
  BY DEF Unwind, Asked
<1>4. QED
  BY <1>1, <1>2, <1>3 DEF Unwind, Service!Fail

\* The caller has done with the answer.
LEMMA FreeReleases ==
    ASSUME IInv, NEW c \in Callers, Free(c)
    PROVE  Service!Release(c)
<1>1. pc[c] = "returned" /\ Goto(c, "idle")
  BY DEF Free
<1>2. Phases[c] = "answered" /\ Phases' = [Phases EXCEPT ![c] = "idle"]
  BY <1>1, PhaseOf, PhaseMoves DEF IInv, Stages
<1>3. Askeds' = [Askeds EXCEPT ![c] = {}]
  <2>1. /\ kind'[c] = "run"
        /\ \A d \in Callers \ {c} : kind'[d] = kind[d] /\ due'[d] = due[d]
    BY DEF Free, IInv, TypeOK
  <2> HIDE DEF Askeds
  <2>2. QED
    BY <2>1, AskedMoves DEF IInv
<1>4. QED
  BY <1>2, <1>3 DEF Free, Service!Release

\* Everything between is the engine's own affair.
LEMMA RestStutters ==
    ASSUME IInv, NEW c \in Callers, CallAction(c),
           ~Call(c), ~Convert(c), ~Unwind(c), ~Free(c)
    PROVE  UNCHANGED <<Phases, status, result>>
<1>1. CASE \E w \in Workers : TaskStep(c, w)
  BY <1>1 DEF TaskStep, Fetch, RunBatch, RunBatchThrows, Phase
<1>2. CASE Lock(c) \/ CallerStep(c)
  <2>1. UNCHANGED <<status, result>>
    BY <1>2 DEF Lock, CallerStep, Detect, CropRegion, CropDone, ClassifyBatch, ClassifyDone, Split,
                Launch, LaunchDone, Join, JoinDone, Throw, Unlock
  <2>2. pc[c] \in PendingStages
    BY <1>2 DEF Lock, CallerStep, Detect, CropRegion, CropDone, ClassifyBatch, ClassifyDone, Split,
                Launch, LaunchDone, Join, JoinDone, Throw, Unlock, PendingStages, Stages
  <2>3. \E s \in PendingStages : Goto(c, s) \/ UNCHANGED pc
    <3>1. UNCHANGED pc \/ \E s \in {"detect", "crop", "classify", "split", "launch", "join", "unwind",
                                    "unlock", "convert"} : Goto(c, s)
      BY <1>2 DEF Lock, CallerStep, Detect, CropRegion, CropDone, ClassifyBatch, ClassifyDone, Split,
                  Launch, LaunchDone, Join, JoinDone, Throw, Unlock
    <3>2. QED
      BY <3>1 DEF PendingStages, Stages
  <2>4. QED
    BY <2>1, <2>2, <2>3, PendingStutters DEF IInv
<1>3. QED
  BY <1>1, <1>2 DEF CallAction

LEMMA InitMapped == Init => Service!ServiceInit
BY DEF Init, Phase, Asked, Service!ServiceInit

LEMMA StepMapped ==
    ASSUME IInv, [Next]_vars
    PROVE  [Service!ServiceNext]_(Service!serviceVars)
<1>1. ASSUME NEW c \in Callers, CallAction(c)
      PROVE  Service!ServiceNext \/ UNCHANGED <<Phases, Askeds, status, result>>
  <2>1. CASE Call(c)
    BY <2>1, CallInvokes DEF Service!ServiceNext
  <2>2. CASE Convert(c)
    BY <2>2, ConvertAnswers DEF Service!ServiceNext
  <2>3. CASE Unwind(c)
    BY <2>3, UnwindFails DEF Service!ServiceNext
  <2>4. CASE Free(c)
    BY <2>4, FreeReleases DEF Service!ServiceNext
  <2>5. QED
    BY <1>1, <2>1, <2>2, <2>3, <2>4, RestStutters, AskedStays
<1>2. CASE UNCHANGED vars
  BY <1>2 DEF vars, Phase, Asked, Service!serviceVars
<1>3. QED
  BY <1>1, <1>2 DEF Next, Service!serviceVars

\* Whatever its callers can see of an engine, a service that answers each call at one
\* instant could have shown them.
THEOREM EngineRefinesService == Spec => Service!ServiceSpec
BY InitMapped, StepMapped, Invariance, PTL DEF Spec, Service!ServiceSpec
==============================================================================
