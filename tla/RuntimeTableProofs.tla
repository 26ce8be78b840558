-------------------------- MODULE RuntimeTableProofs --------------------------
(***************************************************************************)
(* Between the Loader and a Runtime, for any set of libraries, whatever    *)
(* their tables hold: nothing is lost or released twice, no table is read  *)
(* behind its end, and a Runtime of any release is used as far as it goes. *)
(***************************************************************************)
EXTENDS RuntimeTable, SequenceTheorems, TLAPS

\* The engine is the first thing held and the last one given back, and a recognition
\* comes from a library whose table can take it back.
IInv ==
    /\ held \in [Kinds -> Nat]
    /\ owned = held
    /\ held["engine"] \in {0, 1}
    /\ held["engine"] = 0 => \A k \in Kinds : held[k] = 0
    /\ held["recognition"] > 0 => RuntimeSupportsRecognition(library)

LEMMA KindsOf == Kinds = {"engine", "result", "json", "recognition"}
BY DEF Kinds

\* No function of a Runtime gives what it has not made, or keeps what it made.
LEMMA GivenIsMade ==
    ASSUME NEW l, NEW o \in Outcomes(l)
    PROVE  /\ o.made = o.given
           /\ o.made \in {0, 1}
BY DEF Outcomes

LEMMA CreatedIsMade ==
    ASSUME NEW l, NEW b, NEW o \in CreateOutcomes(l, b)
    PROVE  /\ o.made = o.given
           /\ o.made \in {0, 1}
BY GivenIsMade DEF CreateOutcomes

\* One more of a kind on both sides, or none.
LEMMA CallKeeps ==
    ASSUME IInv, NEW kind \in Kinds, NEW n \in {0, 1},
           owned' = [owned EXCEPT ![kind] = @ + n],
           held' = [held EXCEPT ![kind] = @ + n]
    PROVE  /\ held' \in [Kinds -> Nat]
           /\ owned' = held'
           /\ held'[kind] = held[kind] + n
           /\ \A k \in Kinds \ {kind} : held'[k] = held[k]
BY DEF IInv

LEMMA ReleaseKeeps ==
    ASSUME IInv, NEW kind \in Kinds, held[kind] > 0,
           owned' = [owned EXCEPT ![kind] = @ - 1],
           held' = [held EXCEPT ![kind] = @ - 1]
    PROVE  /\ held' \in [Kinds -> Nat]
           /\ owned' = held'
           /\ held'[kind] = held[kind] - 1
           /\ \A k \in Kinds \ {kind} : held'[k] = held[k]
BY DEF IInv

\* A creation finds nothing held; it ends with an engine and nothing else, or with
\* nothing.
LEMMA CreateIInv ==
    ASSUME IInv, NEW c \in Configs, Create(c)
    PROVE  IInv'
<1> DEFINE l == RuntimeLibraryPath(c)
<1>1. held["engine"] = 0 /\ \A k \in Kinds : held[k] = 0
  BY DEF Create, IInv
<1>2. CASE owned' = owned /\ held' = held
  BY <1>1, <1>2, KindsOf DEF IInv
<1>3. CASE \E n \in {0, 1} : /\ owned' = [owned EXCEPT !["engine"] = @ + n]
                             /\ held' = [held EXCEPT !["engine"] = @ + n]
  <2>1. PICK n \in {0, 1} : /\ owned' = [owned EXCEPT !["engine"] = @ + n]
                            /\ held' = [held EXCEPT !["engine"] = @ + n]
    BY <1>3
  <2>2. /\ held' \in [Kinds -> Nat]
        /\ owned' = held'
        /\ held'["engine"] = n
        /\ \A k \in Kinds \ {"engine"} : held'[k] = 0
    <3>1. "engine" \in Kinds /\ held["engine"] + n = n
      BY <1>1, KindsOf
    <3>2. /\ held' \in [Kinds -> Nat]
          /\ owned' = held'
          /\ held'["engine"] = held["engine"] + n
          /\ \A k \in Kinds \ {"engine"} : held'[k] = held[k]
      BY <2>1, <3>1, CallKeeps
    <3>3. QED
      BY <1>1, <3>1, <3>2
  <2>3. QED
    BY <2>2, KindsOf DEF IInv
<1>4. ASSUME NEW fields, CallThrough(fields, "create", "engine", CreateOutcomes(l, c.backend))
      PROVE  \E n \in {0, 1} : /\ owned' = [owned EXCEPT !["engine"] = @ + n]
                               /\ held' = [held EXCEPT !["engine"] = @ + n]
  <2>1. PICK o \in CreateOutcomes(l, c.backend) :
            /\ owned' = [owned EXCEPT !["engine"] = @ + o.made]
            /\ held' = [held EXCEPT !["engine"] = @ + o.given]
    BY <1>4 DEF CallThrough
  <2>2. o.made = o.given /\ o.made \in {0, 1}
    BY <2>1, CreatedIsMade
  <2>3. QED
    BY <2>1, <2>2
<1>5. ASSUME NEW fields, NEW s, Refuse(fields, s)
      PROVE  owned' = owned /\ held' = held
  BY <1>5 DEF Refuse
<1> HIDE DEF l
<1>6. \/ \E fields, s : Refuse(fields, s)
      \/ \E fields : CallThrough(fields, "create", "engine", CreateOutcomes(l, c.backend))
  <2>1. CASE l = Missing
    BY <2>1 DEF Create, l
  <2>2. CASE l # Missing
    BY <2>2 DEF Create, l
  <2>3. QED
    BY <2>1, <2>2
<1>7. QED
  BY <1>2, <1>3, <1>4, <1>5, <1>6

\* A call adds what it gives on both sides; the engine stays.
LEMMA CallIInv ==
    ASSUME IInv, Open, NEW kind \in Kinds \ {"engine"}, NEW fields, NEW function,
           CallThrough(fields, function, kind, Outcomes(library)), library' = library,
           kind = "recognition" => RuntimeSupportsRecognition(library)
    PROVE  IInv'
<1>1. PICK n \in {0, 1} : /\ owned' = [owned EXCEPT ![kind] = @ + n]
                          /\ held' = [held EXCEPT ![kind] = @ + n]
  <2>1. PICK o \in Outcomes(library) :
            /\ owned' = [owned EXCEPT ![kind] = @ + o.made]
            /\ held' = [held EXCEPT ![kind] = @ + o.given]
    BY DEF CallThrough
  <2>2. o.made = o.given /\ o.made \in {0, 1}
    BY <2>1, GivenIsMade
  <2>3. QED
    BY <2>1, <2>2
<1>2. /\ held' \in [Kinds -> Nat]
      /\ owned' = held'
      /\ held'[kind] = held[kind] + n
      /\ \A k \in Kinds \ {kind} : held'[k] = held[k]
  BY <1>1, CallKeeps
<1>3. held'["engine"] = 1
  BY <1>2, KindsOf DEF Open
<1>4. RuntimeSupportsRecognition(library)' = RuntimeSupportsRecognition(library)
  BY DEF RuntimeSupportsRecognition, AllMet, Meets
<1>5. kind # "recognition" => held'["recognition"] = held["recognition"]
  BY <1>2, KindsOf
<1>6. QED
  BY <1>2, <1>3, <1>4, <1>5 DEF IInv

\* What the client gives back the Runtime releases.
LEMMA ReleaseIInv ==
    ASSUME IInv, NEW kind \in Kinds \ {"engine"}, NEW fields, NEW functions,
           Release(kind, fields, functions), functions # {}
    PROVE  IInv'
<1>1. Open /\ held[kind] > 0 /\ library' = library
  BY DEF Release
<1>2. /\ held' \in [Kinds -> Nat]
      /\ owned' = held'
      /\ held'[kind] = held[kind] - 1
      /\ \A k \in Kinds \ {kind} : held'[k] = held[k]
  BY <1>1, ReleaseKeeps DEF Release
<1>3. held'["engine"] = 1
  BY <1>1, <1>2, KindsOf DEF Open
<1>4. RuntimeSupportsRecognition(library)' = RuntimeSupportsRecognition(library)
  BY <1>1 DEF RuntimeSupportsRecognition, AllMet, Meets
<1>5. held["recognition"] \in Nat /\ (held'["recognition"] > 0 => held["recognition"] > 0)
  BY <1>2, KindsOf DEF IInv
<1>6. QED
  BY <1>2, <1>3, <1>4, <1>5 DEF IInv

\* An engine is destroyed when nothing else is held.
LEMMA DestroyIInv ==
    ASSUME IInv, Destroy
    PROVE  IInv'
<1>1. held["engine"] = 1 /\ \A k \in Kinds \ {"engine"} : held[k] = 0
  BY DEF Destroy, Open
<1>2. /\ held' \in [Kinds -> Nat]
      /\ owned' = held'
      /\ held'["engine"] = 0
      /\ \A k \in Kinds \ {"engine"} : held'[k] = 0
  <2>1. "engine" \in Kinds /\ held \in [Kinds -> Nat] /\ owned = held
    BY KindsOf DEF IInv
  <2>2. held["engine"] - 1 = 0
    BY <1>1
  <2>3. owned' = [held EXCEPT !["engine"] = 0] /\ held' = [held EXCEPT !["engine"] = 0]
    BY <2>1, <2>2 DEF Destroy
  <2>4. QED
    BY <1>1, <2>1, <2>3
<1>3. QED
  BY <1>2, KindsOf DEF IInv

LEMMA UnchangedIInv ==
    ASSUME IInv, UNCHANGED <<library, owned, held>>
    PROVE  IInv'
BY DEF IInv, RuntimeSupportsRecognition, AllMet, Meets

LEMMA NextIInv ==
    ASSUME IInv, [Next]_vars
    PROVE  IInv'
<1>1. CASE \E c \in Configs : Create(c)
  BY <1>1, CreateIInv
<1>2. CASE Run
  BY <1>2, CallIInv, KindsOf DEF Run
<1>3. CASE RunJson
  BY <1>3, CallIInv, KindsOf DEF RunJson
<1>4. CASE RecognizeBatch
  <2>1. CASE RuntimeSupportsRecognition(library)
    BY <1>4, <2>1, CallIInv, KindsOf DEF RecognizeBatch
  <2>2. CASE ~RuntimeSupportsRecognition(library)
    BY <1>4, <2>2, UnchangedIInv DEF RecognizeBatch
  <2>3. QED
    BY <2>1, <2>2
<1>5. CASE GetCapabilities
  BY <1>5, UnchangedIInv DEF GetCapabilities
<1>6. CASE ResultFree
  BY <1>6, ReleaseIInv, KindsOf DEF ResultFree
<1>7. CASE StringFree
  BY <1>7, ReleaseIInv, KindsOf DEF StringFree
<1>8. CASE RecognitionResultFree
  <2>1. RuntimeSupportsRecognition(library)
    BY <1>8 DEF RecognitionResultFree, Release, IInv
  <2>2. QED
    BY <1>8, <2>1, ReleaseIInv, KindsOf DEF RecognitionResultFree
<1>9. CASE Destroy
  BY <1>9, DestroyIInv
<1>10. CASE UNCHANGED vars
  BY <1>10, UnchangedIInv DEF vars
<1>11. QED
  BY <1>1, <1>2, <1>3, <1>4, <1>5, <1>6, <1>7, <1>8, <1>9, <1>10 DEF Next

LEMMA InitIInv == Init => IInv
<1>1. None \in [Kinds -> Nat] /\ \A k \in Kinds : None[k] = 0
  BY DEF None
<1>2. None["engine"] = 0 /\ None["recognition"] = 0
  BY <1>1, KindsOf
<1>3. SUFFICES ASSUME Init PROVE IInv
  OBVIOUS
<1>4. owned = None /\ held = None
  BY <1>3 DEF Init
<1>5. ~(held["recognition"] > 0)
  BY <1>2, <1>4
<1>6. QED
  BY <1>1, <1>2, <1>4, <1>5 DEF IInv

\* IInv is an invariant of the Loader and any library it may load.
THEOREM TableInvariance == Spec => []IInv
BY InitIInv, NextIInv, PTL DEF Spec

\* What a Runtime has allocated is what the client holds: no failing call leaves
\* anything behind, and no release is swallowed because the table is too short.
THEOREM RuntimeLosesNothing == Spec => []OwnedIsHeld
<1>1. IInv => OwnedIsHeld
  BY DEF IInv, OwnedIsHeld
<1>2. QED
  BY TableInvariance, <1>1, PTL

------------------------------------------------------------------------------
(* What is read of a table.                                                *)

\* The fields of v1 are the first sixteen, in the order the Loader looks at them up to
\* the names; those of v1.1 follow.
V1Fields == {Fields[i] : i \in 1 .. V1Size}

LEMMA FieldsDiffer ==
    /\ DOMAIN Fields = 1 .. V1_1Size
    /\ \A i, j \in 1 .. V1_1Size : Fields[i] = Fields[j] => i = j
BY DEF Fields, V1_1Size

LEMMA PositionOf ==
    ASSUME NEW i \in 1 .. V1_1Size
    PROVE  Position(Fields[i]) = i
BY FieldsDiffer DEF Position

LEMMA PositionInV1 ==
    ASSUME NEW field \in V1Fields
    PROVE  Position(field) <= V1Size
<1>1. PICK i \in 1 .. V1Size : field = Fields[i]
  BY DEF V1Fields
<1>2. i \in 1 .. V1_1Size
  BY DEF V1Size, V1_1Size
<1>3. QED
  BY <1>1, <1>2, PositionOf

LEMMA PositionInV1_1 ==
    ASSUME NEW field \in {Fields[i] : i \in 1 .. V1_1Size}
    PROVE  Position(field) <= V1_1Size
BY PositionOf

\* Joining two sequences, element by element.
LEMMA Joined ==
    ASSUME NEW S, NEW s \in Seq(S), NEW t \in Seq(S)
    PROVE  /\ s \o t \in Seq(S)
           /\ Len(s \o t) = Len(s) + Len(t)
           /\ \A i \in 1 .. Len(s) : (s \o t)[i] = s[i]
           /\ \A i \in 1 .. Len(t) : (s \o t)[Len(s) + i] = t[i]
OBVIOUS

LEMMA Elements ==
    ASSUME NEW S, NEW s \in Seq(S)
    PROVE  DOMAIN s = 1 .. Len(s) /\ \A i \in 1 .. Len(s) : s[i] \in S
OBVIOUS

\* The conditions name fields of the release they are about, and the length first.
LEMMA ApiConditions ==
    /\ DOMAIN RuntimeApiConditions = 1 .. 15
    /\ RuntimeApiConditions[1] = "struct_size"
    /\ \A i \in 1 .. 15 : RuntimeApiConditions[i] \in V1Fields
    /\ \A i \in 1 .. 8 : RuntimeApiConditions[2 + i] = V1Functions[i]
<1> DEFINE a == <<"struct_size", "api_version">>
           c == <<"public_config_size", "public_image_size", "public_result_size",
                  "public_capabilities_size", "public_abi_fingerprint">>
<1>1. /\ a[1] = "struct_size" /\ \A i \in 1 .. 2 : a[i] \in V1Fields
      /\ \A i \in 1 .. 8 : V1Functions[i] \in V1Fields
      /\ \A i \in 1 .. 5 : c[i] \in V1Fields
  BY DEF V1Fields, Fields, V1Size, V1Functions
<1>2. /\ a = [i \in 1 .. 2 |-> a[i]] /\ Len(a) = 2
      /\ V1Functions = [i \in 1 .. 8 |-> V1Functions[i]] /\ Len(V1Functions) = 8
      /\ c = [i \in 1 .. 5 |-> c[i]] /\ Len(c) = 5
  BY DEF V1Functions
<1>3. RuntimeApiConditions = (a \o V1Functions) \o c
  BY DEF RuntimeApiConditions
<1> HIDE DEF a, c
<1>4. a \in Seq(V1Fields) /\ V1Functions \in Seq(V1Fields) /\ c \in Seq(V1Fields)
  BY <1>1, <1>2
<1>5. a \o V1Functions \in Seq(V1Fields) /\ Len(a \o V1Functions) = 10
  BY <1>2, <1>4, Joined
<1>6. /\ \A i \in 1 .. 2 : (a \o V1Functions)[i] = a[i]
      /\ \A i \in 1 .. 8 : (a \o V1Functions)[2 + i] = V1Functions[i]
  BY <1>2, <1>4, Joined
<1>7. RuntimeApiConditions \in Seq(V1Fields) /\ Len(RuntimeApiConditions) = 15
  BY <1>2, <1>3, <1>4, <1>5, Joined
<1>8. \A i \in 1 .. 10 : RuntimeApiConditions[i] = (a \o V1Functions)[i]
  BY <1>3, <1>4, <1>5, Joined
<1>9. DOMAIN RuntimeApiConditions = 1 .. 15 /\ \A i \in 1 .. 15 : RuntimeApiConditions[i] \in V1Fields
  BY <1>7, Elements
<1>10. RuntimeApiConditions[1] = "struct_size"
  <2>1. 1 \in 1 .. 10 /\ 1 \in 1 .. 2
    OBVIOUS
  <2>2. RuntimeApiConditions[1] = (a \o V1Functions)[1] /\ (a \o V1Functions)[1] = a[1]
    BY <1>6, <1>8, <2>1, Zenon
  <2>3. QED
    BY <1>1, <2>2
<1>11. ASSUME NEW i \in 1 .. 8 PROVE RuntimeApiConditions[2 + i] = V1Functions[i]
  <2>1. 2 + i \in 1 .. 10
    OBVIOUS
  <2>2. QED
    BY <1>6, <1>8, <2>1
<1>12. QED
  BY <1>9, <1>10, <1>11

LEMMA RecognitionFields ==
    /\ DOMAIN RecognitionConditions = 1 .. 5
    /\ RecognitionConditions[1] = "struct_size"
    /\ \A i \in 1 .. 5 : RecognitionConditions[i] \in {Fields[j] : j \in 1 .. V1_1Size}
BY DEF RecognitionConditions, Fields, V1_1Size

\* All that is looked at after the length lies within the length it was compared with.
LEMMA ReadBehindLength ==
    ASSUME NEW l, NEW size \in Nat, l.size \in Nat \ {0},
           NEW conditions, NEW n \in Nat \ {0}, DOMAIN conditions = 1 .. n,
           conditions[1] = "struct_size",
           \A i \in 1 .. n : conditions[i] \in {Fields[j] : j \in 1 .. size}, size <= V1_1Size,
           NEW field \in ReadBy(l, conditions, size)
    PROVE  Position(field) <= l.size
<1>1. PICK i \in 1 .. n : field = conditions[i] /\ \A k \in 1 .. i - 1 : Meets(l, conditions[k], size)
  BY DEF ReadBy
<1>2. CASE i = 1
  <2>1. Position("struct_size") = 1
    BY PositionOf DEF Fields, V1_1Size
  <2>2. QED
    BY <1>1, <1>2, <2>1
<1>3. CASE i # 1
  <2>1. Meets(l, "struct_size", size)
    BY <1>1, <1>3
  <2>2. l.size >= size
    BY <2>1 DEF Meets
  <2>3. PICK j \in 1 .. size : field = Fields[j]
    BY <1>1
  <2>4. j \in 1 .. V1_1Size /\ j <= size
    BY DEF V1_1Size
  <2>5. Position(field) = j
    BY <2>3, <2>4, PositionOf
  <2>6. QED
    BY <2>2, <2>4, <2>5
<1>4. QED
  BY <1>2, <1>3

\* A call that looked at these fields and called these functions kept to the table of l.
Respects(l, fields, functions) ==
    /\ \A field \in fields \cup functions : Position(field) <= l.size
    /\ functions \cap l.null = {}
    /\ {"recognize_batch", "recognition_result_free"} \cap functions # {} =>
          {"public_recognition_size", "public_recognition_result_size"} \cap l.shorter = {}

LEMMA ReadInsideMeans ==
    TableReadInside <=> LET l == RuntimeLibraryPath(config) IN l # Missing => Respects(l, read, called)
BY DEF TableReadInside, Respects

V1Called == {V1Functions[i] : i \in 1 .. 8}

LEMMA V1CalledAre ==
    /\ V1Called \subseteq V1Fields
    /\ {"create", "run", "run_json", "result_free", "string_free", "get_capabilities",
        "get_last_error", "destroy"} \subseteq V1Called
    /\ {"recognize_batch", "recognition_result_free"} \cap V1Called = {}
BY DEF V1Called, V1Functions, V1Fields, Fields, V1Size

\* A complete table has the functions of v1.
LEMMA CompleteTable ==
    ASSUME NEW l, RuntimeApiIsComplete(l)
    PROVE  l.size >= V1Size /\ V1Called \cap l.null = {}
<1>1. \A i \in 1 .. 15 : Meets(l, RuntimeApiConditions[i], V1Size)
  BY ApiConditions DEF RuntimeApiIsComplete, AllMet
<1>2. l.size >= V1Size
  <2>1. 1 \in 1 .. 15
    OBVIOUS
  <2>2. Meets(l, "struct_size", V1Size)
    BY <1>1, <2>1, ApiConditions, Zenon
  <2>3. QED
    BY <2>2 DEF Meets
<1>3. ASSUME NEW i \in 1 .. 8 PROVE V1Functions[i] \notin l.null
  <2>1. 2 + i \in 1 .. 15
    OBVIOUS
  <2>2. Meets(l, V1Functions[i], V1Size)
    BY <1>1, <2>1, ApiConditions
  <2>3. V1Functions[i] \notin {"struct_size", "api_version", "public_abi_fingerprint"}
    BY DEF V1Functions
  <2>4. QED
    BY <2>2, <2>3 DEF Meets
<1>4. QED
  BY <1>2, <1>3 DEF V1Called

\* A table that supports recognition has what v1.1 added.
LEMMA SupportingTable ==
    ASSUME NEW l
    PROVE  RuntimeSupportsRecognition(l) <=>
               /\ l.size >= V1_1Size
               /\ {"recognize_batch", "recognition_result_free", "public_recognition_size",
                   "public_recognition_result_size"} \cap (l.null \cup l.shorter) = {}
<1>1. DOMAIN RecognitionConditions = 1 .. 5
  BY RecognitionFields
<1>2. RuntimeSupportsRecognition(l) <=>
          /\ Meets(l, "struct_size", V1_1Size)
          /\ Meets(l, "recognize_batch", V1_1Size)
          /\ Meets(l, "recognition_result_free", V1_1Size)
          /\ Meets(l, "public_recognition_size", V1_1Size)
          /\ Meets(l, "public_recognition_result_size", V1_1Size)
  BY <1>1 DEF RuntimeSupportsRecognition, AllMet, RecognitionConditions
<1>3. QED
  BY <1>2 DEF Meets

LEMMA Sizes == V1Size = 16 /\ V1_1Size = 20
BY DEF V1Size, V1_1Size

\* Looking for a complete table stays inside it, whatever comes of it.
LEMMA LookingRespects ==
    ASSUME NEW l, l.size \in Nat \ {0}
    PROVE  /\ Respects(l, ReadBy(l, RuntimeApiConditions, V1Size), {})
           /\ Respects(l, ReadBy(l, RecognitionConditions, V1_1Size), {})
           /\ Respects(l, {}, {})
<1>1. \A field \in ReadBy(l, RuntimeApiConditions, V1Size) : Position(field) <= l.size
  <2>1. \A i \in 1 .. 15 : RuntimeApiConditions[i] \in {Fields[j] : j \in 1 .. V1Size}
    BY ApiConditions DEF V1Fields
  <2>2. V1Size \in Nat /\ V1Size <= V1_1Size /\ 15 \in Nat \ {0}
    BY Sizes
  <2>3. DOMAIN RuntimeApiConditions = 1 .. 15 /\ RuntimeApiConditions[1] = "struct_size"
    BY ApiConditions
  <2>4. QED
    BY <2>1, <2>2, <2>3, ReadBehindLength, Zenon
<1>2. \A field \in ReadBy(l, RecognitionConditions, V1_1Size) : Position(field) <= l.size
  <2>1. V1_1Size \in Nat /\ V1_1Size <= V1_1Size /\ 5 \in Nat \ {0}
    BY Sizes
  <2>2. QED
    BY <2>1, ReadBehindLength, RecognitionFields, Zenon
<1>3. QED
  BY <1>1, <1>2 DEF Respects

\* The functions of v1 of a complete table may be called.
LEMMA CallingRespects ==
    ASSUME NEW l, l.size \in Nat \ {0}, RuntimeApiIsComplete(l),
           NEW functions \in SUBSET V1Called
    PROVE  /\ Respects(l, {}, functions)
           /\ Respects(l, ReadBy(l, RuntimeApiConditions, V1Size), functions)
<1>1. \A field \in functions : Position(field) <= l.size
  <2> SUFFICES ASSUME NEW field \in functions PROVE Position(field) <= l.size
    OBVIOUS
  <2>1. PICK i \in 1 .. V1Size : field = Fields[i]
    BY V1CalledAre DEF V1Fields
  <2>2. Position(field) = i
    BY <2>1, PositionOf, Sizes
  <2>3. QED
    BY <2>2, CompleteTable, Sizes
<1>2. functions \cap l.null = {} /\ {"recognize_batch", "recognition_result_free"} \cap functions = {}
  BY CompleteTable, V1CalledAre
<1>3. QED
  BY <1>1, <1>2, LookingRespects DEF Respects

\* So may those of v1.1, when the table supports recognition.
LEMMA RecognizingRespects ==
    ASSUME NEW l, l.size \in Nat \ {0}, RuntimeApiIsComplete(l), RuntimeSupportsRecognition(l),
           NEW functions \in SUBSET {"recognize_batch", "recognition_result_free", "get_last_error"}
    PROVE  Respects(l, ReadBy(l, RecognitionConditions, V1_1Size), functions)
<1>1. l.size >= V1_1Size
  BY SupportingTable
<1>2. Position("recognize_batch") = 17 /\ Position("recognition_result_free") = 18 /\ Position("get_last_error") = 10
  <2>1. Fields[17] = "recognize_batch" /\ Fields[18] = "recognition_result_free" /\ Fields[10] = "get_last_error"
    BY DEF Fields
  <2>2. 17 \in 1 .. V1_1Size /\ 18 \in 1 .. V1_1Size /\ 10 \in 1 .. V1_1Size
    BY Sizes
  <2>3. Position(Fields[17]) = 17 /\ Position(Fields[18]) = 18 /\ Position(Fields[10]) = 10
    BY <2>2, PositionOf, Zenon
  <2>4. QED
    BY <2>1, <2>3
<1>3. \A field \in functions : Position(field) <= l.size
  BY <1>1, <1>2, Sizes
<1>4. "get_last_error" \notin l.null
  BY CompleteTable, V1CalledAre
<1>5. functions \cap l.null = {}
  BY <1>4, SupportingTable
<1>6. {"public_recognition_size", "public_recognition_result_size"} \cap l.shorter = {}
  BY SupportingTable
<1>7. QED
  BY <1>3, <1>5, <1>6, LookingRespects DEF Respects

\* A published table is complete, and supports recognition from v1.1 on.
LEMMA PublishedTable ==
    ASSUME NEW l, Published(l)
    PROVE  /\ RuntimeApiIsComplete(l) /\ GetApi(l) = {TRUE}
           /\ l.size # V1Size => RuntimeSupportsRecognition(l)
<1>1. /\ l.null = {} /\ l.shorter = {} /\ l.api_version = 1 /\ l.exports
      /\ l.size \in {16, 20, 22} /\ l.fingerprint \in {"v1", "v1.1", "later"}
  BY Sizes DEF Published
<1>2. \A i \in 1 .. 15 : Meets(l, RuntimeApiConditions[i], V1Size)
  BY <1>1, Sizes DEF Meets
<1>3. RuntimeApiIsComplete(l)
  BY <1>2, ApiConditions DEF RuntimeApiIsComplete, AllMet
<1>4. QED
  BY <1>1, <1>3, SupportingTable, Sizes DEF GetApi

------------------------------------------------------------------------------
(* The table in use.                                                       *)

\* The engine is the library's whose path the configuration gives; its table has been
\* found complete, and its backend is the one asked for.
TableInv ==
    /\ config \in Configs
    /\ Open => /\ library = RuntimeLibraryPath(config) /\ library # Missing
               /\ RuntimeApiIsComplete(library)
               /\ config.backend \in library.backends
    /\ TableReadInside
    /\ ReleasesFit

LEMMA LibraryOf ==
    ASSUME NEW c \in Configs, RuntimeLibraryPath(c) # Missing
    PROVE  LET l == RuntimeLibraryPath(c) IN
           l.size \in Nat \ {0} /\ (l.checked => \E b \in Backends : l.backends = {b})
<1>1. RuntimeLibraryPath(c) \in (Libraries \cup {Installed[b] : b \in DOMAIN Installed}) \ {Missing}
  BY DEF RuntimeLibraryPath, Configs
<1>2. QED
  BY <1>1, LibraryAssumption

\* Statuses of the functions of a Runtime; that of another backend says so.
LEMMA OutcomeStatus ==
    ASSUME NEW l, NEW o \in Outcomes(l)
    PROVE  o.status \in GuardStatuses \cup {"OK"} /\ (o.given = 1 => o.status = "OK")
BY DEF Outcomes, ErrorStatuses, StubStatuses, GuardStatuses

LEMMA CreateStatus ==
    ASSUME NEW l, NEW b, NEW o \in CreateOutcomes(l, b)
    PROVE  /\ o.status \in GuardStatuses \cup {"OK", "UNSUPPORTED"}
           /\ o.status = "UNSUPPORTED" => b \notin l.backends
           /\ o.given = 1 => o.status = "OK" /\ b \in l.backends
<1>1. CASE b \in l.backends
  BY <1>1, OutcomeStatus DEF CreateOutcomes, GuardStatuses
<1>2. CASE b \notin l.backends
  BY <1>2 DEF CreateOutcomes
<1>3. QED
  BY <1>1, <1>2

\* A call through the table of the engine in use.
LEMMA InUse ==
    ASSUME TableInv, Open, UNCHANGED <<config, library>>,
           Respects(library, read', called'),
           \/ status' = status
           \/ status' \in GuardStatuses \cup {"OK"}
           \/ status' = "UNSUPPORTED" /\ ~RuntimeSupportsRecognition(library),
           reported' \in {reported, config.backend}
    PROVE  TableInv'
<1>1. RuntimeLibraryPath(config)' = RuntimeLibraryPath(config) /\ RuntimeLibraryPath(config) = library
  BY DEF RuntimeLibraryPath, TableInv
<1>2. /\ library # Missing /\ RuntimeApiIsComplete(library)
      /\ config \in Configs /\ config.backend \in library.backends
  BY DEF TableInv
<1>3. RuntimeApiIsComplete(library)' = RuntimeApiIsComplete(library) /\ Published(library)' = Published(library)
  BY DEF RuntimeApiIsComplete, AllMet, Meets, Published
<1>4. TableReadInside'
  BY <1>1, <1>2, ReadInsideMeans DEF TableReadInside, Respects
<1>5. ReleasesFit'
  <2>1. /\ Published(library) =>
              /\ status # "RUNTIME_INCOMPATIBLE"
              /\ status = "UNSUPPORTED" => config.backend \notin library.backends \/ library.size = V1Size
        /\ reported # "" => reported = config.backend
    BY <1>1, <1>2 DEF TableInv, ReleasesFit
  <2>2. Published(library) =>
            /\ status' # "RUNTIME_INCOMPATIBLE"
            /\ status' = "UNSUPPORTED" => config.backend \notin library.backends \/ library.size = V1Size
    BY <2>1, PublishedTable DEF GuardStatuses
  <2>3. QED
    BY <1>1, <1>2, <1>3, <2>1, <2>2 DEF ReleasesFit
<1>6. QED
  BY <1>1, <1>2, <1>3, <1>4, <1>5 DEF TableInv

\* A call that may give something to the caller, and asks for the text when it fails.
LEMMA CallInUse ==
    ASSUME TableInv, Open, UNCHANGED <<config, library, reported>>,
           NEW fields, NEW function, NEW kind,
           CallThrough(fields, function, kind, Outcomes(library)),
           Respects(library, fields, {function}),
           Respects(library, fields, {function, "get_last_error"})
    PROVE  TableInv'
<1>1. PICK o \in Outcomes(library) :
          /\ status' = o.status /\ read' = fields
          /\ called' = {function} \cup IF o.status = "OK" THEN {} ELSE {"get_last_error"}
  BY DEF CallThrough
<1>2. status' \in GuardStatuses \cup {"OK"}
  BY <1>1, OutcomeStatus
<1>3. called' = {function} \/ called' = {function, "get_last_error"}
  BY <1>1
<1>4. Respects(library, read', called')
  BY <1>1, <1>3
<1>5. QED
  BY <1>2, <1>4, InUse

LEMMA NotHeld ==
    ASSUME held'["engine"] # 1
    PROVE  ~Open'
BY DEF Open

\* Creating leaves an engine of the library the path names, or none.
LEMMA CreateTableInv ==
    ASSUME IInv, NEW c \in Configs, Create(c)
    PROVE  TableInv'
<1> DEFINE l == RuntimeLibraryPath(c)
<1>1. config' = c /\ held["engine"] = 0
  BY DEF Create
<1>1a. reported' = ""
  BY DEF Create
<1>2. RuntimeLibraryPath(config)' = l
  BY <1>1 DEF RuntimeLibraryPath
<1>3. CASE l = Missing
  <2>1. Refuse({}, "RUNTIME_NOT_FOUND")
    BY <1>3 DEF Create
  <2>2. ~Open'
    BY <1>1, <2>1, NotHeld DEF Refuse
  <2>3. TableReadInside' /\ ReleasesFit'
    BY <1>1, <1>1a, <1>2, <1>3, <2>2 DEF TableReadInside, ReleasesFit
  <2>4. QED
    BY <1>1, <2>2, <2>3 DEF TableInv
<1>4. CASE l # Missing
  <2>1. l.size \in Nat \ {0}
    BY <1>4, LibraryOf
  <2>2. PICK table \in GetApi(l) :
          LET fields == IF table THEN ReadBy(l, RuntimeApiConditions, V1Size) ELSE {} IN
          IF table /\ RuntimeApiIsComplete(l)
          THEN \/ /\ CallThrough(fields, "create", "engine", CreateOutcomes(l, c.backend))
                  /\ library' = IF status' = "OK" THEN l ELSE Missing
               \/ Refuse(fields, "OUT_OF_MEMORY")
          ELSE Refuse(fields, "RUNTIME_INCOMPATIBLE")
    BY <1>4 DEF Create
  <2> DEFINE fields == IF table THEN ReadBy(l, RuntimeApiConditions, V1Size) ELSE {}
  <2>3. Respects(l, fields, {})
    BY <2>1, LookingRespects
  <2> HIDE DEF l, fields
  <2>4. ASSUME NEW s \in {"OUT_OF_MEMORY", "RUNTIME_INCOMPATIBLE"}, Refuse(fields, s),
               s = "RUNTIME_INCOMPATIBLE" => ~Published(l)
        PROVE  TableInv'
    <3>1. ~Open' /\ read' = fields /\ called' = {} /\ status' = s
      BY <1>1, <2>4, NotHeld DEF Refuse
    <3>2. TableReadInside'
      BY <1>2, <2>3, <3>1 DEF TableReadInside, Respects
    <3>3. ReleasesFit'
      BY <1>1, <1>1a, <1>2, <2>4, <3>1 DEF ReleasesFit, Published
    <3>4. QED
      BY <1>1, <3>1, <3>2, <3>3 DEF TableInv
  <2>5. CASE /\ table /\ RuntimeApiIsComplete(l)
             /\ CallThrough(fields, "create", "engine", CreateOutcomes(l, c.backend))
             /\ library' = IF status' = "OK" THEN l ELSE Missing
    <3>1. PICK o \in CreateOutcomes(l, c.backend) :
            /\ status' = o.status /\ read' = fields
            /\ called' = {"create"} \cup IF o.status = "OK" THEN {} ELSE {"get_last_error"}
            /\ owned' = [owned EXCEPT !["engine"] = @ + o.made]
            /\ held' = [held EXCEPT !["engine"] = @ + o.given]
      BY <2>5 DEF CallThrough
    <3>2. held'["engine"] = o.given
      <4>1. o.made = o.given /\ o.given \in {0, 1} /\ "engine" \in Kinds
        BY CreatedIsMade, KindsOf
      <4>2. held'["engine"] = held["engine"] + o.given
        BY <3>1, <4>1, CallKeeps
      <4>3. QED
        BY <1>1, <4>1, <4>2
    <3>3. Open' => library' = l /\ c.backend \in l.backends
      BY <2>5, <3>1, <3>2, CreateStatus DEF Open
    <3>4. RuntimeApiIsComplete(l)'
      BY <2>5, <1>1 DEF l, RuntimeApiIsComplete, AllMet, Meets
    <3>5. Respects(l, read', called')
      <4>1. called' \in SUBSET V1Called
        BY <3>1, V1CalledAre
      <4>2. fields = ReadBy(l, RuntimeApiConditions, V1Size)
        BY <2>5 DEF fields
      <4>3. QED
        BY <2>1, <2>5, <3>1, <4>1, <4>2, CallingRespects
    <3>6. TableReadInside'
      BY <1>2, <3>5 DEF TableReadInside, Respects
    <3>7. status' # "RUNTIME_INCOMPATIBLE" /\ (status' = "UNSUPPORTED" => c.backend \notin l.backends)
      BY <3>1, CreateStatus DEF GuardStatuses
    <3>8. ReleasesFit'
      BY <1>1, <1>1a, <1>2, <3>3, <3>7 DEF ReleasesFit
    <3>9. Open' => library' = l /\ library' # Missing /\ RuntimeApiIsComplete(library)'
      BY <1>4, <3>3, <3>4 DEF RuntimeApiIsComplete, AllMet, Meets
    <3>10. QED
      BY <1>1, <1>2, <3>3, <3>6, <3>8, <3>9 DEF TableInv
  <2>6. Published(l) => table /\ RuntimeApiIsComplete(l)
    <3> SUFFICES ASSUME Published(l) PROVE table /\ RuntimeApiIsComplete(l)
      OBVIOUS
    <3>1. GetApi(l) = {TRUE} /\ RuntimeApiIsComplete(l)
      BY PublishedTable
    <3>2. table \in GetApi(l)
      BY <2>2
    <3>3. table = TRUE
      BY <3>1, <3>2
    <3>4. QED
      BY <3>1, <3>3
  <2>7. CASE ~(table /\ RuntimeApiIsComplete(l))
    BY <2>2, <2>4, <2>6, <2>7 DEF fields, l
  <2>8. CASE table /\ RuntimeApiIsComplete(l) /\ Refuse(fields, "OUT_OF_MEMORY")
    BY <2>4, <2>8
  <2>9. QED
    BY <2>2, <2>5, <2>7, <2>8 DEF fields, l
<1>5. QED
  BY <1>3, <1>4

LEMMA DestroyTableInv ==
    ASSUME IInv, TableInv, Destroy
    PROVE  TableInv'
<1>1. /\ Open /\ config' = config /\ status' = status /\ reported' = ""
      /\ read' = {} /\ called' = {"destroy"} /\ library' = Missing
  BY DEF Destroy
<1>2. ~Open'
  <2>1. "engine" \in DOMAIN held
    BY KindsOf DEF IInv
  <2>2. held'["engine"] = 0
    BY <2>1 DEF Destroy
  <2>3. QED
    BY <2>2, NotHeld
<1>3. RuntimeLibraryPath(config)' = RuntimeLibraryPath(config) /\ RuntimeLibraryPath(config) = library
  BY <1>1 DEF RuntimeLibraryPath, TableInv
<1>4. library.size \in Nat \ {0} /\ RuntimeApiIsComplete(library)
  BY <1>1, <1>3, LibraryOf DEF TableInv
<1>5. Respects(library, {}, {"destroy"})
  BY <1>4, CallingRespects, V1CalledAre
<1>6. TableReadInside'
  BY <1>1, <1>3, <1>5 DEF TableReadInside, Respects
<1>7. ReleasesFit'
  BY <1>1, <1>2, <1>3 DEF TableInv, ReleasesFit, Published
<1>8. QED
  BY <1>1, <1>2, <1>6, <1>7 DEF TableInv

LEMMA NextTableInv ==
    ASSUME IInv, TableInv, [Next]_vars
    PROVE  TableInv'
<1>1. ASSUME Open
      PROVE  /\ library.size \in Nat \ {0} /\ RuntimeApiIsComplete(library)
             /\ CapabilitiesBackend(library) = config.backend
  <2>1. /\ library = RuntimeLibraryPath(config) /\ library # Missing /\ RuntimeApiIsComplete(library)
        /\ config \in Configs /\ config.backend \in library.backends
    BY <1>1 DEF TableInv
  <2>2. library.size \in Nat \ {0} /\ (library.checked => \E b \in Backends : library.backends = {b})
    BY <2>1, LibraryOf
  <2>3. CapabilitiesBackend(library) = config.backend
    BY <2>1, <2>2 DEF CapabilitiesBackend
  <2>4. QED
    BY <2>1, <2>2, <2>3
<1>2. ASSUME Open, NEW function \in V1Called
      PROVE  Respects(library, {}, {function}) /\ Respects(library, {}, {function, "get_last_error"})
  BY <1>1, <1>2, CallingRespects, V1CalledAre
<1>3. CASE \E c \in Configs : Create(c)
  BY <1>3, CreateTableInv
<1>4. CASE Run
  BY <1>4, <1>2, CallInUse, V1CalledAre DEF Run
<1>5. CASE RunJson
  BY <1>5, <1>2, CallInUse, V1CalledAre DEF RunJson
<1>6. CASE RecognizeBatch
  <2> DEFINE fields == ReadBy(library, RecognitionConditions, V1_1Size)
  <2>1. Open /\ UNCHANGED <<config, library, reported>>
    BY <1>6 DEF RecognizeBatch
  <2>2. CASE RuntimeSupportsRecognition(library)
    <3>1. CallThrough(fields, "recognize_batch", "recognition", Outcomes(library))
      BY <1>6, <2>2 DEF RecognizeBatch
    <3>2. Respects(library, fields, {"recognize_batch"}) /\ Respects(library, fields, {"recognize_batch", "get_last_error"})
      BY <1>1, <2>1, <2>2, RecognizingRespects
    <3>3. QED
      BY <2>1, <3>1, <3>2, CallInUse
  <2>3. CASE ~RuntimeSupportsRecognition(library)
    <3>1. read' = fields /\ called' = {} /\ status' = "UNSUPPORTED"
      BY <1>6, <2>3 DEF RecognizeBatch
    <3>2. Respects(library, read', called')
      BY <1>1, <2>1, <3>1, LookingRespects
    <3>3. QED
      BY <2>1, <2>3, <3>1, <3>2, InUse
  <2>4. QED
    BY <2>2, <2>3
<1>7. CASE GetCapabilities
  <2>1. Respects(library, read', called')
    BY <1>7, <1>2, V1CalledAre DEF GetCapabilities
  <2>2. reported' = config.backend
    BY <1>7, <1>1 DEF GetCapabilities
  <2>3. QED
    BY <1>7, <2>1, <2>2, InUse DEF GetCapabilities
<1>8. ASSUME NEW kind, NEW fields, NEW functions, Release(kind, fields, functions),
             Open => Respects(library, fields, functions)
      PROVE  TableInv'
  BY <1>8, InUse DEF Release
<1>9. CASE ResultFree
  BY <1>9, <1>2, <1>8, V1CalledAre DEF ResultFree
<1>10. CASE StringFree
  BY <1>10, <1>2, <1>8, V1CalledAre DEF StringFree
<1>11. CASE RecognitionResultFree
  <2> DEFINE fields == ReadBy(library, RecognitionConditions, V1_1Size)
             functions == IF RuntimeSupportsRecognition(library) THEN {"recognition_result_free"} ELSE {}
  <2>1. Open => Respects(library, fields, functions)
    BY <1>1, LookingRespects, RecognizingRespects
  <2>2. Release("recognition", fields, functions)
    BY <1>11 DEF RecognitionResultFree
  <2>3. QED
    BY <1>8, <2>1, <2>2
<1>12. CASE Destroy
  BY <1>12, DestroyTableInv
<1>13. CASE UNCHANGED vars
  BY <1>13 DEF vars, TableInv, Open, RuntimeLibraryPath, RuntimeApiIsComplete, AllMet, Meets,
               TableReadInside, ReleasesFit, Published
<1>14. QED
  BY <1>3, <1>4, <1>5, <1>6, <1>7, <1>9, <1>10, <1>11, <1>12, <1>13 DEF Next

LEMMA InitTableInv == Init => TableInv
<1> SUFFICES ASSUME Init PROVE TableInv
  OBVIOUS
<1>1. config \in Configs
  BY DEF Init, Configs, Backends
<1>2. ~Open
  <2>1. None["engine"] = 0
    BY KindsOf DEF None
  <2>2. held = None
    BY DEF Init
  <2>3. QED
    BY <2>1, <2>2 DEF Open
<1>3. TableReadInside /\ ReleasesFit
  BY <1>2 DEF Init, TableReadInside, ReleasesFit
<1>4. QED
  BY <1>1, <1>2, <1>3 DEF TableInv

\* TableInv is invariant too, for any libraries and whatever each says of its table.
THEOREM TableInUse == Spec => []TableInv
<1>1. IInv /\ TableInv /\ [Next]_vars => TableInv'
  BY NextTableInv
<1>2. QED
  BY InitTableInv, <1>1, TableInvariance, PTL DEF Spec

\* No field behind the end of a table is read, and no null pointer called, whichever
\* library was found: the length is looked at before what it guards.
THEOREM NoTableOverread == Spec => []TableReadInside
<1>1. TableInv => TableReadInside
  BY DEF TableInv
<1>2. QED
  BY TableInUse, <1>1, PTL

\* Every published Runtime stays usable, and an engine is one for the backend asked for.
THEOREM PublishedRuntimesFit == Spec => []ReleasesFit
<1>1. TableInv => ReleasesFit
  BY DEF TableInv
<1>2. QED
  BY TableInUse, <1>1, PTL
==============================================================================
