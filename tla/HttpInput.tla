------------------------------ MODULE HttpInput ------------------------------
(***************************************************************************)
(* The input of the HTTP service, from the limits in its configuration to  *)
(* the images it passes to the Loader: a request is read, its images are   *)
(* decoded from Base64 and then from their file format, and what that      *)
(* gives, converted to int32_t, is validated again by the Loader.          *)
(*                                                                         *)
(* ApiValidation is the other side: the service is one of the clients that *)
(* create an engine and have it read images.  An engine is either that of  *)
(* the service or of a client of its own.                                  *)
(*                                                                         *)
(* An allocation may fail wherever a handler makes one; it makes some at   *)
(* every stage, so any request that reaches a handler may end in a 500.    *)
(***************************************************************************)
EXTENDS ApiValidation, Base64

CONSTANTS
    Documents,       \* configuration files
    Requests,        \* requests clients send
    MinRequestBytes, \* 1024
    MaxRequestBytes, \* 256 MB
    MaxPixels,       \* 200000000
    MaxImages,       \* 256
    FileOf(_)        \* the image file that some bytes are

\* The widest image within the limit has a stride that int32_t holds.
ASSUME LimitsAssumption == MaxPixels \in Nat /\ 3 * MaxPixels <= IntMax

UInt32Max == 2 * IntMax + 1

VARIABLES
    service, \* the service's configuration, or NoService
    request, \* the request whose images are being read, or NoRequest
    answer   \* the HTTP status of the last one answered, or 0

http_vars == <<service, request, answer>>

NoService == [running |-> FALSE]
NoRequest == [path |-> "none"]

HttpInit ==
    /\ Init
    /\ service = NoService
    /\ request = NoRequest
    /\ answer = 0

------------------------------------------------------------------------------
(* A request: path, "key" (is the X-API-Key header the configured one?),   *)
(* the size of its body, "json" (is it valid JSON, and if not, does the    *)
(* parser's message cite bytes of it that are no UTF-8: "unprintable"),    *)
(* and the two members, each absent, of the wrong type, or what its name   *)
(* says.  A file: its size, whether a decoder can read it, and "throws":   *)
(* OpenCV throws for it instead of returning an empty matrix.              *)

Texts(r) ==
    IF r.image_base64.is = "string" THEN <<r.image_base64.text>>
    ELSE [i \in DOMAIN r.images_base64.items |-> r.images_base64.items[i].text]

\* The members of an array are a sequence; width and height of a file are UINT or int.
ASSUME RequestAssumption ==
    /\ NoRequest \notin Requests
    /\ \A r \in Requests :
          DOMAIN r.images_base64.items = 1 .. Len(r.images_base64.items)
    /\ \A n \in {d.max_request_bytes : d \in Documents}, r \in Requests : \A i \in DOMAIN Texts(r) :
          LET file == FileOf(DecodeBase64(Texts(r)[i], n).output) IN
          file.width \in 0 .. UInt32Max /\ file.height \in 0 .. UInt32Max

------------------------------------------------------------------------------
(* Starting.                                                               *)

\* Mutant: a limit may be as large as it likes.
LoadConfigUnlimited(document) ==
    /\ document.readable /\ document.network_in_range
    /\ document.max_request_bytes >= MinRequestBytes
    /\ document.max_image_pixels >= 1

\* LoadConfig returns.  A file that is no JSON object, or has a value of another type,
\* is not readable; port and worker_threads have ranges as well.
LoadConfig(document) ==
    /\ document.readable /\ document.network_in_range
    /\ document.max_request_bytes \in MinRequestBytes .. MaxRequestBytes
    /\ document.max_image_pixels \in 1 .. MaxPixels

\* ParseBackend: all the names it knows have a backend.
ParseBackend(document) == document.backend # "unknown"

\* What the service asks of its engine: fixed, positive sizes and thresholds within
\* their range, and a manifest that is there by default.
ServiceEngine ==
    [present |-> TRUE, compatible |-> TRUE, backend |-> "known", manifest |-> TRUE,
     limit_side_len |-> 1, cls_batch_size |-> 1, rec_batch_size |-> 1, rec_concurrency |-> 1,
     det_db_thresh |-> 1, det_db_box_thresh |-> 1, cls_threshold |-> 1]

StartService(document) ==
    /\ service = NoService
    /\ LoadConfig(document) /\ ParseBackend(document)
    /\ Create(ServiceEngine)
    /\ service' = IF status' = "OK" THEN [running |-> TRUE, settings |-> document] ELSE NoService
    /\ UNCHANGED <<request, answer>>

StopService ==
    /\ service # NoService
    /\ Destroy
    /\ service' = NoService
    /\ answer' = 0
    /\ UNCHANGED request

------------------------------------------------------------------------------
(* Reading the images of a request.                                        *)

\* The member the handler looks for is there, and is what it should be.
WellFormed(r) ==
    \/ r.image_base64.is = "string"
    \/ /\ r.path = "/api/recognize"
       /\ r.images_base64.is = "array"
       /\ Len(r.images_base64.items) \in 1 .. MaxImages
       /\ \A i \in DOMAIN r.images_base64.items : r.images_base64.items[i].is = "string"

Authorized(r) == service.settings.api_key => r.key

\* The buffer of the decoded image has a size of type UINT for Windows Imaging, and of
\* size_t for OpenCV.
BufferMax == IF service.settings.windows THEN UInt32Max ELSE UIntMax

\* Mutant: the pixels are not counted.
FitsUncounted(file) ==
    /\ file.readable
    /\ file.width > 0 /\ file.height > 0
    /\ file.width <= UInt32Max \div 3
    /\ 3 * file.width * file.height <= BufferMax

\* The checks of DecodeImage.
Fits(file) ==
    /\ file.readable
    /\ file.width > 0 /\ file.height > 0
    /\ file.width * file.height <= service.settings.max_image_pixels
    /\ file.width <= UInt32Max \div 3
    /\ 3 * file.width * file.height <= BufferMax

\* DecodeImage returns true, returns false, or passes on what cv::imdecode throws of a
\* file whose header announces more than OpenCV takes, before the pixels are counted.
DecodeImage(bytes) ==
    LET file == FileOf(bytes) IN
    IF ~service.settings.windows /\ file.throws THEN "threw"
    ELSE IF Fits(file) THEN "decoded" ELSE "refused"

Decode(text) == DecodeBase64(text, service.settings.max_request_bytes)

\* One turn of the loop of the handlers.
Outcome(text) == IF Decode(text).error = "none" THEN DecodeImage(Decode(text).output) ELSE "refused"
Decodes(text) == Outcome(text) = "decoded"

\* static_cast<int32_t> of a uint32_t.
ToInt32(n) == IF n > IntMax THEN n - (UInt32Max + 1) ELSE n

\* OcrEngine::Run and RecognizeBatch: the image as the Loader is told of it.
Told(file) ==
    [present |-> TRUE, compatible |-> TRUE, width |-> ToInt32(file.width), height |-> ToInt32(file.height),
     stride |-> ToInt32(3 * file.width), format |-> "BGR24", data_size |-> 3 * file.width * file.height]

\* Mutant: an image that cannot be decoded is left out.
DecodedSkipping(texts) ==
    LET good == SelectSeq(texts, Decodes) IN
    [complete |-> TRUE, images |-> [i \in DOMAIN good |-> Told(FileOf(Decode(good[i]).output))]]

\* The loop of the handlers, which the first image that is not decoded ends.
Decoded(texts) ==
    [complete |-> \A i \in DOMAIN texts : Decodes(texts[i]),
     images |-> [i \in DOMAIN texts |-> Told(FileOf(Decode(texts[i]).output))]]

\* How the first image that is not decoded has ended the loop.
Failure(texts) ==
    LET failed == {i \in DOMAIN texts : ~Decodes(texts[i])} IN
    Outcome(texts[CHOOSE i \in failed : \A j \in failed : i <= j])

\* What a handler answers without calling the Loader; 0 when it calls it.  The message
\* of the parser is written into the answer of the handler of JSON exceptions, whose
\* dump() throws when it is no UTF-8: past all handlers, to httplib, which answers 500.
Verdict(r) ==
    IF ~Authorized(r) THEN 401
    ELSE IF r.json = "unprintable" THEN 500
    ELSE IF r.json = "invalid" \/ ~WellFormed(r) THEN 400
    ELSE IF Decoded(Texts(r)).complete THEN 0
    ELSE IF Failure(Texts(r)) = "threw" THEN 500 ELSE 400

Reply(code) == answer' = code /\ UNCHANGED <<engine, images, status>>

\* The body is read up to the limit before a handler sees it.  The handler answers, or
\* runs out of memory, or calls the Loader, whose refusal is answered like a failure.
Post(r) ==
    /\ service # NoService
    /\ request = NoRequest
    /\ \/ r.size > service.settings.max_request_bytes /\ Reply(413)
       \/ r.size <= service.settings.max_request_bytes /\ Reply(500)
       \/ /\ r.size <= service.settings.max_request_bytes
          /\ Verdict(r) # 0
          /\ Reply(Verdict(r))
       \/ /\ r.size <= service.settings.max_request_bytes
          /\ Verdict(r) = 0
          /\ Read(Decoded(Texts(r)).images)
          /\ answer' = IF images' = <<>> THEN 500 ELSE 0
    /\ request' = IF images' = <<>> THEN NoRequest ELSE r
    /\ UNCHANGED service

\* The engine is done.  A result the JSON library cannot write, a text that is not
\* UTF-8, ends in the handler of JSON exceptions; one it has no memory to write, in the
\* other.
Answer ==
    /\ request # NoRequest
    /\ ReadDone
    /\ answer' \in IF status' = "OK" THEN {200, 400, 500} ELSE {500}
    /\ request' = NoRequest
    /\ UNCHANGED service

HttpNext ==
    \/ service = NoService /\ Next /\ UNCHANGED http_vars
    \/ \E d \in Documents : StartService(d)
    \/ StopService
    \/ \E r \in Requests : Post(r)
    \/ Answer

HttpSpec == HttpInit /\ [][HttpNext]_<<vars, http_vars>>

------------------------------------------------------------------------------
(* The limits of the configuration, the checks of the decoder, the conversion  *)
(* to int32_t and the Loader's own checks fit together: what the service has   *)
(* decoded the Loader never refuses, so that a call of the service's engine    *)
(* fails only where the Runtime did.                                           *)
LoaderNeverRefuses == service # NoService => status \in {"OK", "RUNTIME_ERROR"}

(* Results are matched to images by their position (source_index): the engine  *)
(* reads every image of the request, in their order and at their real size.    *)
ImagesArrive ==
    request # NoRequest =>
        /\ Len(images) = Len(Texts(request))
        /\ \A i \in DOMAIN images :
              LET file == FileOf(Decode(Texts(request)[i]).output) IN
              <<images[i].width, images[i].height, images[i].stride, images[i].data_size>> =
                  <<file.width, file.height, 3 * file.width, 3 * file.width * file.height>>
==============================================================================
