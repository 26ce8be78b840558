---------------------------- MODULE ApiValidation ----------------------------
(***************************************************************************)
(* What the Loader checks before a Runtime sees a configuration or images: *)
(* ValidateConfig and ValidateImage, with the widths of the C types their  *)
(* arithmetic is done in.  Behind them a Runtime loops over batches of the *)
(* configured sizes and reads the caller's memory with no check of its own. *)
(***************************************************************************)
EXTENDS Integers, Sequences

CONSTANTS
    IntMax,    \* the largest int32_t
    UIntMax,   \* the largest uint64_t
    NaN,       \* a float that compares with nothing
    NoConfig,  \* no engine has been created
    Images,    \* the images callers pass
    Configs,   \* the configurations they pass
    MaxBatch   \* bound: images in one call

Ints    == -IntMax - 1 .. IntMax
Formats == {"GRAY8", "BGR24", "RGB24", "BGRA32", "RGBA32", "unknown"}

\* Floats are told apart by how they compare with zero and one.
Floats == {-1, 0, 1, 2, NaN}

\* "present": the structure is there and large enough, and so is the image's data.
\* "compatible": it has the version of this API.
Image  == [present : BOOLEAN, compatible : BOOLEAN, width : Ints, height : Ints, stride : Ints,
           format : Formats, data_size : 0 .. UIntMax]
Config == [present : BOOLEAN, compatible : BOOLEAN, backend : {"known", "unknown"},
           manifest : BOOLEAN, limit_side_len : Ints, cls_batch_size : Ints,
           rec_batch_size : Ints, rec_concurrency : Ints, det_db_thresh : Floats,
           det_db_box_thresh : Floats, cls_threshold : Floats]

\* uint64_t holds the product of two positive int32_t.
ASSUME WidthAssumption ==
    /\ IntMax \in Nat
    /\ UIntMax \in Nat
    /\ UIntMax >= IntMax * IntMax

ASSUME InputAssumption ==
    /\ NaN \notin Int
    /\ Images \subseteq Image
    /\ Configs \subseteq Config
    /\ NoConfig \notin Configs
    /\ MaxBatch \in Nat

------------------------------------------------------------------------------
(* ValidateImage                                                           *)

BytesPerPixel(format) ==
    CASE format = "GRAY8" -> 1
      [] format \in {"BGR24", "RGB24"} -> 3
      [] format \in {"BGRA32", "RGBA32"} -> 4
      [] OTHER -> 0

\* Mutant: the product is computed in 32 bits.
RequiredSizeIn32(image) == (image.stride * image.height) % (2 * IntMax + 2)

RequiredSize(image) == (image.stride * image.height) % (UIntMax + 1)

Positive(image) == image.width > 0 /\ image.height > 0 /\ image.stride > 0

Holds(image) ==
    /\ image.stride >= image.width * BytesPerPixel(image.format)
    /\ image.data_size >= RequiredSize(image)

ValidateImage(image) ==
    IF ~image.present \/ ~image.compatible \/ ~Positive(image) THEN "INVALID_ARGUMENT"
    ELSE IF BytesPerPixel(image.format) = 0 THEN "UNSUPPORTED"
    ELSE IF Holds(image) THEN "OK" ELSE "INVALID_ARGUMENT"

------------------------------------------------------------------------------
(* ValidateConfig                                                          *)

Sizes(config) ==
    /\ config.limit_side_len > 0
    /\ config.cls_batch_size > 0
    /\ config.rec_batch_size > 0
    /\ config.rec_concurrency > 0

\* value < 0.0f || value > 1.0f, which is false of NaN
OutOfRange(value) == value # NaN /\ (value < 0 \/ value > 1)

ValidateConfig(config) ==
    IF ~config.present THEN "INVALID_ARGUMENT"
    ELSE IF ~config.compatible THEN "RUNTIME_INCOMPATIBLE"
    ELSE IF config.backend = "unknown" THEN "UNSUPPORTED"
    ELSE IF \/ ~config.manifest
            \/ ~Sizes(config)
            \/ OutOfRange(config.det_db_thresh)
            \/ OutOfRange(config.det_db_box_thresh)
            \/ OutOfRange(config.cls_threshold)
         THEN "INVALID_ARGUMENT"
         ELSE "OK"

------------------------------------------------------------------------------
(* The calls that use them.                                                *)

VARIABLES
    engine,   \* the configuration the Runtime was given, or NoConfig
    images,   \* the images the Runtime is reading
    status    \* of the last call of the Loader

vars == <<engine, images, status>>

Init == engine = NoConfig /\ images = <<>> /\ status = "OK"

\* lw_ppocr_create.  RUNTIME_ERROR stands for all that may fail behind the check, which
\* RuntimeLoader and OcrEngine model.
Create(config) ==
    /\ engine = NoConfig
    /\ status' \in IF ValidateConfig(config) = "OK" THEN {"OK", "RUNTIME_ERROR"}
                   ELSE {ValidateConfig(config)}
    /\ engine' = IF status' = "OK" THEN config ELSE NoConfig
    /\ UNCHANGED images

\* Mutant: only the last image is looked at.
FaultsOfLast(batch) == {i \in {Len(batch)} : ValidateImage(batch[i]) # "OK"}

Faults(batch) == {i \in 1 .. Len(batch) : ValidateImage(batch[i]) # "OK"}

Acceptable(batch) == batch # <<>> /\ Faults(batch) = {}

\* The first image refused gives the status.
Refusal(batch) ==
    IF batch = <<>> THEN "INVALID_ARGUMENT"
    ELSE ValidateImage(batch[CHOOSE i \in Faults(batch) : \A j \in Faults(batch) : i <= j])

\* lw_ppocr_recognize_batch, up to its call of the Runtime; lw_ppocr_run passes one image.
Read(batch) ==
    /\ engine # NoConfig
    /\ images = <<>>
    /\ images' = IF Acceptable(batch) THEN batch ELSE <<>>
    /\ status' = IF Acceptable(batch) THEN status ELSE Refusal(batch)
    /\ UNCHANGED engine

\* The Runtime has converted the images with ToBgr, and run.
ReadDone ==
    /\ images # <<>>
    /\ images' = <<>>
    /\ status' \in {"OK", "RUNTIME_ERROR"}
    /\ UNCHANGED engine

Destroy ==
    /\ engine # NoConfig
    /\ images = <<>>
    /\ engine' = NoConfig
    /\ UNCHANGED <<images, status>>

Batches == UNION {[1 .. n -> Images] : n \in 0 .. MaxBatch}

Next ==
    \/ \E config \in Configs : Create(config)
    \/ \E batch \in Batches : Read(batch)
    \/ ReadDone
    \/ Destroy

Spec == Init /\ [][Next]_vars

------------------------------------------------------------------------------
(* ToBgr reads each row of an image from its stride: every byte of every       *)
(* pixel lies inside the memory the caller said it has, however large the      *)
(* numbers, and for every image of a batch.                                    *)
LastByte(image, row) == row * image.stride + image.width * BytesPerPixel(image.format)

PixelsInside ==
    \A i \in 1 .. Len(images) : \A row \in 0 .. images[i].height - 1 :
        LastByte(images[i], row) <= images[i].data_size

(* "OCR confidence thresholds must be between zero and one"                    *)
ThresholdsInRange ==
    engine # NoConfig =>
        \A value \in {engine.det_db_thresh, engine.det_db_box_thresh, engine.cls_threshold} :
            value \in {0, 1}
==============================================================================
