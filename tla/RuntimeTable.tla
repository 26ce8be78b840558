----------------------------- MODULE RuntimeTable ----------------------------
(***************************************************************************)
(* The table of functions through which the Loader uses a Runtime, across  *)
(* releases of both.  A Runtime library publishes lw_ppocr_runtime_api: a  *)
(* structure that says how long it is and to which later releases append   *)
(* fields.  The Loader reads a table it did not compile, made by an older  *)
(* or a newer Runtime or by some other library the configuration names.    *)
(*                                                                         *)
(* Everything a Runtime hands out is allocated and released on its side    *)
(* of the table; a result or string is freed through the engine it came    *)
(* from, and before the engine is destroyed (the contract of ppocr_api.h). *)
(***************************************************************************)
EXTENDS Integers, Sequences

CONSTANTS
    Libraries,   \* libraries runtime_library_utf8 may name
    Installed,   \* [backend -> library in its folder], for the backends installed
    Missing,     \* no library
    MaxHeld      \* bound: results or strings of one kind the client holds

\* lw_ppocr_runtime_api.  A size counts fields.
Fields ==
    <<"struct_size", "api_version", "runtime_name_utf8", "create", "run", "run_json",
      "result_free", "string_free", "get_capabilities", "get_last_error", "destroy",
      "public_config_size", "public_image_size", "public_result_size",
      "public_capabilities_size", "public_abi_fingerprint",
      "recognize_batch", "recognition_result_free",
      "public_recognition_size", "public_recognition_result_size">>

V1Size == 16
V1_1Size == 20

Backends == {"opencv_dnn", "directml", "openvino", "tensorrt", "onnxruntime"}
Kinds == {"engine", "result", "json", "recognition"}

(***************************************************************************)
(* A Runtime, as it is found by the Loader: the backends it makes engines  *)
(* for, whether it exports the entry point, the version and length of its  *)
(* table, the functions the table leaves null, the structures that are     *)
(* shorter than in the release which introduced them, and the fingerprint. *)
(***************************************************************************)
Runtime(backends) ==
    [backends |-> backends, exports |-> TRUE, api_version |-> 1, size |-> V1_1Size,
     null |-> {}, shorter |-> {}, fingerprint |-> "v1.1", checked |-> TRUE]

OpenCvRuntime == Runtime({"opencv_dnn"})
DirectMlRuntime == Runtime({"directml"})
OnnxRuntime == Runtime({"onnxruntime"})
OpenVinoRuntime == Runtime({"openvino"})
TensorRtRuntime == Runtime({"tensorrt"})

\* The Runtime of the contract tests makes an engine for any backend; built with
\* LW_PPOCR_STUB_FORWARD_COMPAT it passes for a later release.
StubRuntime == [Runtime(Backends) EXCEPT !.checked = FALSE]
ForwardStubRuntime == [StubRuntime EXCEPT !.size = V1_1Size + 2, !.fingerprint = "later"]

\* A table holds at least the field that says how long it is.  A Runtime that compares the
\* backend with its own has one.
ASSUME LibraryAssumption ==
    \A l \in (Libraries \cup {Installed[b] : b \in DOMAIN Installed}) \ {Missing} :
        /\ l.size \in Nat \ {0}
        /\ l.checked => \E b \in Backends : l.backends = {b}

VARIABLES
    config,   \* [backend, library] of the engine
    library,  \* what was loaded for it, or Missing
    read,     \* fields the last call of the Loader looked at
    called,   \* functions it called
    owned,    \* [Kinds -> Nat]: allocated in the Runtime and not released
    held,     \* [Kinds -> Nat]: what the client was given and has not given back
    reported, \* the backend named by the capabilities
    status    \* of the last call

vars == <<config, library, read, called, owned, held, reported, status>>

None == [k \in Kinds |-> 0]

Init ==
    /\ config = [backend |-> "opencv_dnn", library |-> Missing]
    /\ library = Missing
    /\ read = {}
    /\ called = {}
    /\ owned = None
    /\ held = None
    /\ reported = ""
    /\ status = "OK"

------------------------------------------------------------------------------
(* The table is checked.  Conditions are evaluated in their order, up to   *)
(* the first that fails.                                                   *)

V1Functions ==
    <<"create", "run", "run_json", "result_free", "string_free", "get_capabilities",
      "get_last_error", "destroy">>

\* Mutant: the length is looked at last.
RuntimeApiConditionsSizeLast ==
    <<"api_version">> \o V1Functions \o
    <<"public_config_size", "public_image_size", "public_result_size", "public_capabilities_size",
      "public_abi_fingerprint", "struct_size">>

RuntimeApiConditions ==
    <<"struct_size", "api_version">> \o V1Functions \o
    <<"public_config_size", "public_image_size", "public_result_size", "public_capabilities_size",
      "public_abi_fingerprint">>

RecognitionConditions ==
    <<"struct_size", "recognize_batch", "recognition_result_free",
      "public_recognition_size", "public_recognition_result_size">>

\* Mutant: the fingerprint is compared with the Loader's own.
MeetsExactly(l, field, size) ==
    CASE field = "struct_size" -> l.size >= size
      [] field = "api_version" -> l.api_version = 1
      [] field = "public_abi_fingerprint" -> l.fingerprint = "v1.1"
      [] OTHER -> field \notin l.null \cup l.shorter

\* One condition of a table; size is the length asked for.  A fingerprint belongs to
\* the family from v1 on.
Meets(l, field, size) ==
    CASE field = "struct_size" -> l.size >= size
      [] field = "api_version" -> l.api_version = 1
      [] field = "public_abi_fingerprint" -> l.fingerprint \in {"v1", "v1.1", "later"}
      [] OTHER -> field \notin l.null \cup l.shorter

AllMet(l, conditions, size) == \A i \in DOMAIN conditions : Meets(l, conditions[i], size)

ReadBy(l, conditions, size) ==
    {conditions[i] : i \in {j \in DOMAIN conditions : \A k \in 1 .. j - 1 : Meets(l, conditions[k], size)}}

RuntimeApiIsComplete(l) == AllMet(l, RuntimeApiConditions, V1Size)

\* Mutant: the functions of v1.1 are looked for in every table.
RuntimeSupportsRecognitionUnsized(l) == AllMet(l, Tail(RecognitionConditions), V1_1Size)

RuntimeSupportsRecognition(l) == AllMet(l, RecognitionConditions, V1_1Size)

------------------------------------------------------------------------------
(* The functions of a Runtime.                                             *)

\* Guard: no exception leaves a Runtime.
GuardStatuses == {"INFERENCE_ERROR", "OUT_OF_MEMORY", "INTERNAL_ERROR"}

\* Nothing in the functions of the stub fails but an allocation.
StubStatuses == {"OUT_OF_MEMORY"}

ErrorStatuses(l) == IF l.checked THEN GuardStatuses ELSE StubStatuses

\* Mutant: the object is released before the last step that may throw.
OutcomesReleaseEarly(l) ==
    {[status |-> "OK", made |-> 1, given |-> 1]} \cup
    {[status |-> s, made |-> n, given |-> 0] : s \in ErrorStatuses(l), n \in 0 .. 1}

\* Run, RunJson, RecognizeBatch and the making of an engine: what is made is given to
\* the caller as the last thing, and goes with the exception before that.
Outcomes(l) ==
    {[status |-> "OK", made |-> 1, given |-> 1]} \cup
    {[status |-> s, made |-> 0, given |-> 0] : s \in ErrorStatuses(l)}

\* Mutant: the backend of the configuration is not compared.
CreateOutcomesAny(l, backend) == Outcomes(l)

CreateOutcomes(l, backend) ==
    IF backend \in l.backends THEN Outcomes(l)
    ELSE {[status |-> "UNSUPPORTED", made |-> 0, given |-> 0]}

\* GetCapabilities: a Runtime names its own backend, the stub that of its configuration.
CapabilitiesBackend(l) ==
    IF l.checked THEN CHOOSE b \in l.backends : TRUE ELSE config.backend

------------------------------------------------------------------------------
(* The calls of the Loader.                                                *)

\* A call through the table that may give one thing of a kind to the caller.  When it
\* fails the Loader asks the Runtime for the text.
CallThrough(fields, function, kind, outcomes) ==
    \E o \in outcomes :
        /\ status' = o.status
        /\ read' = fields
        /\ called' = {function} \cup IF o.status = "OK" THEN {} ELSE {"get_last_error"}
        /\ owned' = [owned EXCEPT ![kind] = @ + o.made]
        /\ held' = [held EXCEPT ![kind] = @ + o.given]

\* The named library, or the one in the folder of the backend.
RuntimeLibraryPath(c) ==
    IF c.library # Missing THEN c.library
    ELSE IF c.backend \in DOMAIN Installed THEN Installed[c.backend] ELSE Missing

\* get_api hands out a table.  The Runtimes do for the version asked for only; of a
\* library with another version that does all the same, the Loader sees it itself.
GetApi(l) == IF ~l.exports THEN {FALSE} ELSE IF l.api_version = 1 THEN {TRUE} ELSE BOOLEAN

Refuse(fields, s) ==
    /\ library' = Missing
    /\ read' = fields
    /\ called' = {}
    /\ status' = s
    /\ UNCHANGED <<owned, held>>

\* lw_ppocr_create: the library, its entry point, the table, the Loader's own engine and
\* that of the Runtime; a library that made no engine is closed again.
Create(c) ==
    LET l == RuntimeLibraryPath(c) IN
    /\ held["engine"] = 0
    /\ config' = c
    /\ reported' = ""
    /\ IF l = Missing THEN Refuse({}, "RUNTIME_NOT_FOUND")
       ELSE \E table \in GetApi(l) :
            LET fields == IF table THEN ReadBy(l, RuntimeApiConditions, V1Size) ELSE {} IN
            IF table /\ RuntimeApiIsComplete(l)
            THEN \/ /\ CallThrough(fields, "create", "engine", CreateOutcomes(l, c.backend))
                    /\ library' = IF status' = "OK" THEN l ELSE Missing
                 \/ Refuse(fields, "OUT_OF_MEMORY")
            ELSE Refuse(fields, "RUNTIME_INCOMPATIBLE")

Open == held["engine"] = 1

Fits(kind) == held[kind] < MaxHeld

\* lw_ppocr_run and lw_ppocr_run_json.
Run ==
    /\ Open /\ Fits("result")
    /\ CallThrough({}, "run", "result", Outcomes(library))
    /\ UNCHANGED <<config, library, reported>>

RunJson ==
    /\ Open /\ Fits("json")
    /\ CallThrough({}, "run_json", "json", Outcomes(library))
    /\ UNCHANGED <<config, library, reported>>

\* lw_ppocr_recognize_batch.
RecognizeBatch ==
    LET fields == ReadBy(library, RecognitionConditions, V1_1Size) IN
    /\ Open /\ Fits("recognition")
    /\ IF RuntimeSupportsRecognition(library)
       THEN CallThrough(fields, "recognize_batch", "recognition", Outcomes(library))
       ELSE read' = fields /\ called' = {} /\ status' = "UNSUPPORTED" /\ UNCHANGED <<owned, held>>
    /\ UNCHANGED <<config, library, reported>>

\* The client gives one back, and the Runtime releases it where the Loader calls it.
Release(kind, fields, functions) ==
    /\ Open /\ held[kind] > 0
    /\ held' = [held EXCEPT ![kind] = @ - 1]
    /\ owned' = [owned EXCEPT ![kind] = IF functions # {} THEN @ - 1 ELSE @]
    /\ read' = fields
    /\ called' = functions
    /\ UNCHANGED <<config, library, reported, status>>

ResultFree == Release("result", {}, {"result_free"})
StringFree == Release("json", {}, {"string_free"})

RecognitionResultFree ==
    Release("recognition", ReadBy(library, RecognitionConditions, V1_1Size),
            IF RuntimeSupportsRecognition(library) THEN {"recognition_result_free"} ELSE {})

GetCapabilities ==
    /\ Open
    /\ read' = {}
    /\ called' = {"get_capabilities"}
    /\ reported' = CapabilitiesBackend(library)
    /\ status' = "OK"
    /\ UNCHANGED <<config, library, owned, held>>

Destroy ==
    /\ Open
    /\ \A k \in Kinds \ {"engine"} : held[k] = 0
    /\ read' = {}
    /\ called' = {"destroy"}
    /\ held' = [held EXCEPT !["engine"] = 0]
    /\ owned' = [owned EXCEPT !["engine"] = @ - 1]
    /\ library' = Missing
    /\ reported' = ""
    /\ UNCHANGED <<config, status>>

Configs == [backend : Backends, library : Libraries \cup {Missing}]

Next ==
    \/ \E c \in Configs : Create(c)
    \/ Run \/ RunJson \/ RecognizeBatch \/ GetCapabilities
    \/ ResultFree \/ StringFree \/ RecognitionResultFree
    \/ Destroy

Spec == Init /\ [][Next]_vars

------------------------------------------------------------------------------
Position(field) == CHOOSE i \in DOMAIN Fields : Fields[i] = field

(* A table is as long as its Runtime says: whichever library was loaded, no    *)
(* call reads a field behind that end, calls through a pointer that is null,   *)
(* or has the Runtime fill a structure it knows a shorter form of.             *)
TableReadInside ==
    LET l == RuntimeLibraryPath(config) IN
    l # Missing =>
        /\ \A field \in read \cup called : Position(field) <= l.size
        /\ called \cap l.null = {}
        /\ {"recognize_batch", "recognition_result_free"} \cap called # {} =>
              {"public_recognition_size", "public_recognition_result_size"} \cap l.shorter = {}

(* Between two calls the Runtime holds exactly what the client can still give  *)
(* back: a call that fails leaves nothing behind in the Runtime, and what a    *)
(* Runtime of any release has handed out, it also takes back.                  *)
OwnedIsHeld == owned = held

(* "so a newer append-only Runtime remains usable through the v1 Loader        *)
(* contract": a Runtime published for v1 or later is never incompatible, and   *)
(* one for v1.1 never lacks recognition; and whichever library a path names,   *)
(* the engine it makes is one for the backend that was asked for.              *)
Published(l) == l.exports /\ l.null = {} /\ l.shorter = {} /\ l.api_version = 1 /\
    <<l.size, l.fingerprint>> \in {<<V1Size, "v1">>, <<V1_1Size, "v1.1">>, <<V1_1Size + 2, "later">>}

ReleasesFit ==
    LET l == RuntimeLibraryPath(config) IN
    /\ l # Missing /\ Published(l) =>
          /\ status # "RUNTIME_INCOMPATIBLE"
          /\ status = "UNSUPPORTED" => config.backend \notin l.backends \/ l.size = V1Size
    /\ Open => config.backend \in library.backends
    /\ reported # "" => reported = config.backend
==============================================================================
