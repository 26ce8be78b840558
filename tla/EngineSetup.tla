----------------------------- MODULE EngineSetup ----------------------------
(***************************************************************************)
(* Building and destroying an engine, for the four Runtimes that own       *)
(* sessions: DirectML and ONNX Runtime (one source, two builds), OpenVINO  *)
(* and TensorRT.  Impl's constructor selects a device, loads the manifest  *)
(* and opens the sessions of the detector, the recogniser and perhaps the  *)
(* classifier; any of it can throw, and what exists by then is destroyed   *)
(* in the reverse of the order in which Impl declares its members.         *)
(*                                                                         *)
(* ONNX Runtime keeps one flag use_gpu for all sessions, which a session   *)
(* that falls back to the CPU clears.  OpenVINO and TensorRT keep compiled *)
(* models by path; sessions share them with the cache.                     *)
(***************************************************************************)
EXTENDS OcrAlgorithms

CONSTANTS
    Concurrencies, \* values of rec_concurrency
    Manifests,     \* what LoadModelManifest may find
    CropWidths,    \* widths of crops of height RecHeight
    Sides,         \* widths and heights of images given to the detector
    Limits         \* values of limit_side_len

ASSUME SetupAssumption ==
    /\ Concurrencies \subseteq Nat \ {0}
    /\ CropWidths \subseteq Nat \ {0}
    /\ Sides \subseteq Nat \ {0}
    /\ Limits \subseteq Nat \ {0}
    /\ \A m \in Manifests :
          m.width \in Int /\ m.profile \in Int /\ (m.recognizer.shaped => m.width > 0)

VARIABLES
    config,      \* [backend, device, rec_concurrency, enable_cls]
    pc,          \* where construction or destruction is
    provider,    \* ProviderSelection
    environment, \* Ort::Env, OpenVinoEnvironment or TensorRtEnvironment
    manifest,    \* the manifest loaded
    compiled,    \* [path -> requests the model was compiled for], the cache
    sessions,    \* the sessions that exist, in the order of their creation
    logged,      \* the device named in the log when the engine was ready
    shape        \* of the last input of a network, with what it was made for

vars == <<config, pc, provider, environment, manifest, compiled, sessions, logged, shape>>

Backends == {"directml", "onnxruntime", "openvino", "tensorrt"}
Ort == {"directml", "onnxruntime"}

\* The device asked for in backend_options: unset, one of ONNX Runtime's names, the
\* older use_gpu, or a name no Runtime knows.
Options == {"unset", "cpu", "cuda", "auto", "use_gpu=1", "use_gpu=0", "other"}

\* Impl's constructor, in order.
Building == {"provider", "manifest", "detector", "recognizer", "classifier", "log"}

Selection(use_gpu, allow_gpu_fallback, name) ==
    [use_gpu |-> use_gpu, allow_gpu_fallback |-> allow_gpu_fallback, name |-> name]

\* Mutant: cuda falls back like auto.
SelectProviderLenient(c) ==
    IF c.backend = "onnxruntime" /\ c.device \in {"cuda", "use_gpu=1"} THEN {Selection(TRUE, TRUE, "CUDA")}
    ELSE {Selection(FALSE, FALSE, "CPU")}

\* SelectProvider and SelectDevice: the selection, or none when they throw.  DirectML
\* reads use_gpu only, OpenVINO the device only, and TensorRT neither.
SelectProvider(c) ==
    CASE c.backend = "onnxruntime" ->
            (CASE c.device \in {"unset", "cpu", "use_gpu=0"} -> {Selection(FALSE, FALSE, "CPU")}
               [] c.device \in {"cuda", "use_gpu=1"} -> {Selection(TRUE, FALSE, "CUDA")}
               [] c.device = "auto" -> {Selection(TRUE, TRUE, "CUDA (automatic CPU fallback)")}
               [] OTHER -> {})
      [] c.backend = "directml" ->
            IF c.device = "use_gpu=0" THEN {Selection(FALSE, FALSE, "CPU")}
                                      ELSE {Selection(TRUE, FALSE, "DirectML GPU")}
      [] c.backend = "openvino" ->
            IF c.device \in {"unset", "cpu", "use_gpu=1", "use_gpu=0"} THEN {Selection(FALSE, FALSE, "CPU")} ELSE {}
      [] c.backend = "tensorrt" -> {Selection(TRUE, FALSE, "GPU")}

\* A stage of the manifest: its entry with the backend's artifact, the path of the
\* model, and whether input_shape is N,C,H,W with a height and a width above zero.
StageLoads(stage) == stage.entry = "file"

\* LoadModelManifest returns.  The classifier alone may have no entry.
ManifestLoads(m) ==
    /\ StageLoads(m.detector)
    /\ StageLoads(m.recognizer) /\ m.recognizer.shaped
    /\ m.classifier.entry = "absent" \/ (StageLoads(m.classifier) /\ m.classifier.shaped)

\* RecognitionConcurrency: OpenVINO and TensorRT limit the sessions, ONNX Runtime does not.
RecognitionConcurrency(c) ==
    CASE c.backend = "openvino" -> AtLeast(1, AtMost(c.rec_concurrency, 8))
      [] c.backend = "tensorrt" -> AtLeast(1, AtMost(c.rec_concurrency, 4))
      [] OTHER -> c.rec_concurrency

\* Mutant: what kind of model it is, is not passed on.
CompileAlike(path, recognition_model) ==
    [p \in DOMAIN compiled \cup {path} |-> IF p \in DOMAIN compiled THEN compiled[p] ELSE 1]

\* Compile and LoadEngine: the cache after a path was asked for.  The path alone is the
\* key, so what the model is compiled for is settled by the first who asks.
Compile(path, recognition_model) ==
    [p \in DOMAIN compiled \cup {path} |->
        IF p \in DOMAIN compiled THEN compiled[p]
        ELSE IF recognition_model /\ config.backend = "openvino" THEN RecognitionConcurrency(config)
        ELSE 1]

Of(stage) == {i \in DOMAIN sessions : sessions[i].stage = stage}

Init ==
    /\ config \in [backend : Backends, device : Options, rec_concurrency : Concurrencies, enable_cls : BOOLEAN]
    /\ pc = "provider"
    /\ provider = Selection(FALSE, FALSE, "none")
    /\ environment = "none"
    /\ manifest \in Manifests
    /\ compiled = <<>>
    /\ sessions = <<>>
    /\ logged = "none"
    /\ shape = [stage |-> "none"]

------------------------------------------------------------------------------
(* Construction.                                                           *)

CreateEnvironment ==
    /\ pc = "provider"
    /\ provider' \in SelectProvider(config)
    /\ environment' = "alive"
    /\ pc' = "manifest"
    /\ UNCHANGED <<config, manifest, compiled, sessions, logged, shape>>

LoadManifest ==
    /\ pc = "manifest"
    /\ ManifestLoads(manifest)
    /\ pc' = "detector"
    /\ UNCHANGED <<config, provider, environment, manifest, compiled, sessions, logged, shape>>

\* Mutant: the flag is passed by value.
SessionOutcomesByValue(p) ==
    {[device |-> d, provider |-> p] :
        d \in {IF p.use_gpu THEN "GPU" ELSE "CPU"} \cup IF p.allow_gpu_fallback THEN {"CPU"} ELSE {}}

\* OrtSession: the session on the device of the selection, or, where that may fall
\* back, on the CPU with the selection changed for the sessions to come.
SessionOutcomes(p) ==
    {[device |-> IF p.use_gpu THEN "GPU" ELSE "CPU", provider |-> p]}
    \cup IF p.use_gpu /\ p.allow_gpu_fallback
         THEN {[device |-> "CPU", provider |-> [p EXCEPT !.use_gpu = FALSE]]} ELSE {}

\* The detector is the one who corrects the name of a selection that fell back.
Renamed(stage, p) ==
    IF stage = "detector" /\ ~p.use_gpu /\ p.allow_gpu_fallback
    THEN [p EXCEPT !.name = "CPU (CUDA unavailable)"] ELSE p

\* The constructor of a stage opens a session on the model at path.
Open(stage, path) ==
    /\ \E o \in SessionOutcomes(provider) :
          /\ provider' = Renamed(stage, o.provider)
          /\ sessions' = Append(sessions, [stage |-> stage, device |-> o.device, path |-> path])
    /\ compiled' = IF config.backend \in Ort THEN compiled ELSE Compile(path, stage = "recognizer")
    /\ UNCHANGED <<config, environment, manifest, logged, shape>>

OpenDetector ==
    /\ pc = "detector"
    /\ Open("detector", manifest.detector.path)
    /\ pc' = "recognizer"

OpenRecognizer ==
    /\ pc = "recognizer"
    /\ Cardinality(Of("recognizer")) < RecognitionConcurrency(config)
    /\ Open("recognizer", manifest.recognizer.path)
    /\ UNCHANGED pc

\* Mutant: the width of the profile is not looked at.
RecognizerReadyUnchecked ==
    /\ pc = "recognizer"
    /\ Cardinality(Of("recognizer")) = RecognitionConcurrency(config)
    /\ pc' = IF config.enable_cls THEN "classifier" ELSE "log"
    /\ UNCHANGED <<config, provider, environment, manifest, compiled, sessions, logged, shape>>

\* TensorRT refuses a profile narrower than the width in the manifest.
RecognizerReady ==
    /\ pc = "recognizer"
    /\ Cardinality(Of("recognizer")) = RecognitionConcurrency(config)
    /\ config.backend = "tensorrt" => manifest.width <= manifest.profile
    /\ pc' = IF config.enable_cls THEN "classifier" ELSE "log"
    /\ UNCHANGED <<config, provider, environment, manifest, compiled, sessions, logged, shape>>

OpenClassifier ==
    /\ pc = "classifier"
    /\ StageLoads(manifest.classifier)
    /\ Open("classifier", manifest.classifier.path)
    /\ pc' = "log"

LogDevice ==
    /\ pc = "log"
    /\ logged' = provider.name
    /\ pc' = "ready"
    /\ UNCHANGED <<config, provider, environment, manifest, compiled, sessions, shape>>

\* A step of the constructor throws: what its guard refuses, a file, the backend or memory.
Throw ==
    /\ pc \in Building
    /\ pc' = "unwind"
    /\ UNCHANGED <<config, provider, environment, manifest, compiled, sessions, logged, shape>>

------------------------------------------------------------------------------
(* A ready engine.                                                         *)

\* Detector::Run; the side limit does not change anything else of an engine.
RunDetector ==
    /\ pc = "ready"
    /\ \E w \in Sides, h \in Sides, limit \in Limits :
          shape' = [stage |-> "detector", limit |-> limit,
                    input |-> DetectionShape([width |-> w, height |-> h], limit)]
    /\ UNCHANGED <<config, pc, provider, environment, manifest, compiled, sessions, logged>>

RecHeight == 48

\* The width RunBatch gives the recogniser's input.
BatchWidth(required) ==
    IF config.backend = "tensorrt" THEN ProfileWidth(required, manifest.width, manifest.profile)
                                   ELSE BucketWidth(required, manifest.width)

RunBatch ==
    /\ pc = "ready"
    /\ \E w \in CropWidths :
          LET crop == [width |-> w, height |-> RecHeight]
              required == RequiredWidth({crop}, RecHeight, manifest.width)
              width == BatchWidth(required) IN
          shape' = [stage |-> "recognizer", required |-> required, width |-> width, crop |-> ScaledWidth(crop, RecHeight, width)]
    /\ UNCHANGED <<config, pc, provider, environment, manifest, compiled, sessions, logged>>

Destroy ==
    /\ pc = "ready"
    /\ pc' = "unwind"
    /\ UNCHANGED <<config, provider, environment, manifest, compiled, sessions, logged, shape>>

------------------------------------------------------------------------------
(* Destruction, of a part or of the whole: the recogniser's sessions, the  *)
(* classifier, the detector, then the environment with its cache.          *)

DestroyStage(stage, before) ==
    /\ pc = "unwind"
    /\ Of(stage) # {}
    /\ \A s \in before : Of(s) = {}
    /\ sessions' = [i \in DOMAIN sessions \ Of(stage) |-> sessions[i]]
    /\ UNCHANGED <<config, pc, provider, environment, manifest, compiled, logged, shape>>

DestroyRecognizer == DestroyStage("recognizer", {})
DestroyClassifier == DestroyStage("classifier", {"recognizer"})
DestroyDetector == DestroyStage("detector", {"recognizer", "classifier"})

\* Mutant: the environment is declared behind the detector.
DestroyEnvironmentEarly ==
    /\ pc = "unwind"
    /\ Of("recognizer") = {} /\ Of("classifier") = {}
    /\ environment' = IF environment = "alive" THEN "gone" ELSE environment
    /\ compiled' = <<>>
    /\ pc' = IF sessions = <<>> THEN "ended" ELSE pc
    /\ UNCHANGED <<config, provider, manifest, sessions, logged, shape>>

DestroyEnvironment ==
    /\ pc = "unwind"
    /\ sessions = <<>>
    /\ environment' = IF environment = "alive" THEN "gone" ELSE environment
    /\ compiled' = <<>>
    /\ pc' = "ended"
    /\ UNCHANGED <<config, provider, manifest, sessions, logged, shape>>

Next ==
    \/ CreateEnvironment \/ LoadManifest \/ OpenDetector \/ OpenRecognizer \/ RecognizerReady
    \/ OpenClassifier \/ LogDevice \/ Throw
    \/ RunDetector \/ RunBatch \/ Destroy
    \/ DestroyRecognizer \/ DestroyClassifier \/ DestroyDetector \/ DestroyEnvironment

Spec == Init /\ [][Next]_vars

------------------------------------------------------------------------------
(* The sessions run where the configuration wants them.  cpu and cuda mean     *)
(* every session; under auto a session on the CPU is never followed by one on  *)
(* the GPU; and a log line that names the CPU is true of every session.  That  *)
(* a log line naming CUDA is true of every session is not promised.            *)
DeviceHonoured ==
    /\ config.backend = "onnxruntime" => \A i \in DOMAIN sessions :
          /\ config.device \in {"cpu", "use_gpu=0"} => sessions[i].device = "CPU"
          /\ config.device \in {"cuda", "use_gpu=1"} => sessions[i].device = "GPU"
          /\ \A j \in DOMAIN sessions : i < j /\ sessions[j].device = "GPU" => sessions[i].device = "GPU"
    /\ logged \in {"CPU", "CPU (CUDA unavailable)"} => \A i \in DOMAIN sessions : sessions[i].device = "CPU"

(* Sessions and compiled models use the environment they came from: it is     *)
(* there as long as one of them is, wherever construction stopped, and nothing *)
(* at all is left at the end.                                                  *)
NothingOutlives ==
    /\ sessions # <<>> \/ DOMAIN compiled # {} => environment = "alive"
    /\ pc = "ended" => environment # "alive"

(* "Recognition workers share one compiled model ... and use a throughput      *)
(* scheduling hint": it is compiled for as many requests as there are workers, *)
(* unless the manifest names the detector's file again.                        *)
RequestsForWorkers ==
    pc = "ready" /\ config.backend = "openvino" /\ manifest.recognizer.path # manifest.detector.path =>
        compiled[manifest.recognizer.path] >= Cardinality(Of("recognizer"))

(* "Text crops wider than that profile are resized to the declared maximum     *)
(* instead of being passed to setInputShape with an invalid dimension."  The   *)
(* other engines never squeeze a crop, and use the nine widths of the buckets  *)
(* for everything that fits into them.  The crop is copied inside the input.   *)
(* Detectors are built for sides up to limit_side_len: rounding goes past it   *)
(* by at most 16 pixels, and never when the limit is a multiple of 32.         *)
DetectorFits ==
    \A side \in {shape.input.width, shape.input.height} :
        /\ side % 32 = 0 /\ side >= 32
        /\ side > 32 => side <= shape.limit + 16 /\ (shape.limit % 32 = 0 => side <= shape.limit)

RecognizerFits ==
    /\ shape.crop \in 1 .. shape.width
    /\ IF config.backend = "tensorrt"
       THEN /\ shape.width \in manifest.width .. manifest.profile
            /\ shape.width < shape.required => shape.width = manifest.profile
       ELSE /\ shape.width >= shape.required
            /\ shape.required <= 1280 => shape.width \in Buckets

ShapesFit ==
    /\ shape.stage = "detector" => DetectorFits
    /\ shape.stage = "recognizer" => RecognizerFits
==============================================================================
