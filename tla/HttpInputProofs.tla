--------------------------- MODULE HttpInputProofs ---------------------------
(***************************************************************************)
(* What the checks of the Loader guarantee for every width of the integer  *)
(* types and every image; and that those of the HTTP service before them   *)
(* pass on what it decoded, for every limit its configuration may set.     *)
(*                                                                         *)
(* And DecodeBase64 on every text: it accepts the encodings of as many     *)
(* bytes as allowed and nothing else, and makes those bytes of them.       *)
(***************************************************************************)
EXTENDS HttpInput, MCOcrAlgorithms, SequenceTheorems, FiniteSetTheorems, WellFoundedInduction, TLAPS

\* What the Runtime holds has been accepted.
Accepted ==
    /\ images \in Seq(Image)
    /\ \A i \in 1 .. Len(images) : ValidateImage(images[i]) = "OK"

\* A product of two positive int32_t is computed without overflow.
LEMMA ProductFits ==
    ASSUME NEW s \in 1 .. IntMax, NEW h \in 1 .. IntMax
    PROVE  s * h \in 0 .. UIntMax
<1>1. s \in Nat /\ h \in Nat /\ IntMax \in Nat /\ UIntMax \in Nat
  BY WidthAssumption
<1>2. s * h <= IntMax * h
  BY <1>1
<1>3. IntMax * h <= IntMax * IntMax
  BY <1>1
<1>4. s * h <= UIntMax
  BY <1>1, <1>2, <1>3, WidthAssumption
<1>5. s * h \in Nat
  BY <1>1
<1>6. QED
  BY <1>1, <1>4, <1>5

\* Reducing a number that is in range changes nothing.
LEMMA InRangeMod ==
    ASSUME NEW u \in Nat, NEW p \in 0 .. u
    PROVE  p % (u + 1) = p
OBVIOUS

\* An accepted image has as many bytes as stride times height, computed exactly.
LEMMA RequiredExact ==
    ASSUME NEW image \in Image, Positive(image)
    PROVE  RequiredSize(image) = image.stride * image.height
<1>1. image.stride \in 1 .. IntMax /\ image.height \in 1 .. IntMax
  BY WidthAssumption DEF Image, Ints, Positive
<1>2. image.stride * image.height \in 0 .. UIntMax
  BY <1>1, ProductFits
<1>3. QED
  BY <1>2, InRangeMod, WidthAssumption DEF RequiredSize

\* The bytes of the last pixel of a row end inside the row, and the row inside the image.
LEMMA RowInside ==
    ASSUME NEW s \in Nat, NEW h \in Nat, NEW row \in 0 .. h - 1, NEW w \in Nat, w <= s
    PROVE  row * s + w <= s * h
<1>1. row + 1 <= h /\ row \in Nat
  OBVIOUS
<1>2. (row + 1) * s <= h * s
  BY <1>1
<1>3. (row + 1) * s = row * s + s
  BY <1>1
<1>4. QED
  BY <1>1, <1>2, <1>3

\* ValidateImage accepts only images whose pixels lie inside their memory.
LEMMA AcceptedInside ==
    ASSUME NEW image \in Image, ValidateImage(image) = "OK", NEW row \in 0 .. image.height - 1
    PROVE  LastByte(image, row) <= image.data_size
<1>1. Positive(image) /\ Holds(image)
  BY DEF ValidateImage
<1>2. image.stride \in Nat /\ image.height \in Nat /\ image.width \in Nat /\ image.data_size \in Nat
  BY <1>1, WidthAssumption DEF Image, Ints, Positive
<1>3. BytesPerPixel(image.format) \in Nat
  BY DEF BytesPerPixel, Image, Formats
<1>4. image.width * BytesPerPixel(image.format) \in Nat
  BY <1>2, <1>3
<1>5. /\ image.width * BytesPerPixel(image.format) <= image.stride
      /\ image.stride * image.height <= image.data_size
  BY <1>1, <1>2, <1>3, <1>4, RequiredExact DEF Holds
<1>6. row * image.stride + image.width * BytesPerPixel(image.format) <= image.stride * image.height
  BY <1>2, <1>4, <1>5, RowInside
<1>7. row \in Nat /\ row * image.stride \in Nat /\ image.stride * image.height \in Nat
  BY <1>2
<1>8. QED
  BY <1>2, <1>4, <1>5, <1>6, <1>7 DEF LastByte

\* Every call keeps what the Runtime holds accepted.
LEMMA AcceptedStep ==
    ASSUME Accepted, [Next]_vars
    PROVE  Accepted'
<1>1. ASSUME NEW config \in Configs, Create(config) PROVE Accepted'
  BY <1>1 DEF Create, Accepted
<1>2. ASSUME NEW batch \in Batches, Read(batch) PROVE Accepted'
  <2>1. PICK n \in 0 .. MaxBatch : batch \in [1 .. n -> Images]
    BY <1>2 DEF Batches
  <2>2. batch \in Seq(Image) /\ Len(batch) = n
    BY <2>1, InputAssumption
  <2>3. CASE Acceptable(batch)
    BY <1>2, <2>2, <2>3 DEF Read, Acceptable, Faults, Accepted
  <2>4. CASE ~Acceptable(batch)
    BY <1>2, <2>4 DEF Read, Accepted
  <2>5. QED
    BY <2>3, <2>4
<1>3. CASE ReadDone
  BY <1>3 DEF ReadDone, Accepted
<1>4. CASE Destroy
  BY <1>4 DEF Destroy, Accepted
<1>5. CASE UNCHANGED vars
  BY <1>5 DEF vars, Accepted
<1>6. QED
  BY <1>1, <1>2, <1>3, <1>4, <1>5 DEF Next

\* The Loader passes on only what it accepted.
LEMMA AcceptedInvariant == Spec => []Accepted
<1>1. Init => Accepted
  BY DEF Init, Accepted
<1>2. QED
  BY <1>1, AcceptedStep, PTL DEF Spec

\* The pixels of accepted images lie inside their memory.
LEMMA AcceptedReadInside == Accepted => PixelsInside
<1> SUFFICES ASSUME Accepted, NEW i \in 1 .. Len(images), NEW row \in 0 .. images[i].height - 1
             PROVE  LastByte(images[i], row) <= images[i].data_size
  BY DEF PixelsInside
<1>1. images[i] \in Image /\ ValidateImage(images[i]) = "OK"
  BY DEF Accepted
<1>2. QED
  BY <1>1, AcceptedInside

\* Whatever image a Runtime is given, ToBgr stays inside the caller's memory; the product
\* of stride and height that ValidateImage relies on never overflows.
THEOREM ImagesReadInside == Spec => []PixelsInside
BY AcceptedInvariant, AcceptedReadInside, PTL

------------------------------------------------------------------------------
(* The service in front.                                                   *)

\* service is what StartService made of one of the configuration files.
Configured(d) == service = [running |-> TRUE, settings |-> d] /\ LoadConfig(d)

\* An engine in the service has images exactly while a request has.
Serving ==
    /\ \E d \in Documents : Configured(d)
    /\ images = <<>> <=> request = NoRequest

\* The images of the request being answered are those its texts decode to.
Reading ==
    /\ request \in Requests /\ WellFormed(request)
    /\ Decoded(Texts(request)).complete
    /\ images = Decoded(Texts(request)).images
    /\ answer = 0

HInv ==
    /\ Accepted
    /\ engine = NoConfig => images = <<>>
    /\ service = NoService => answer = 0 /\ request = NoRequest
    /\ service # NoService => Serving
    /\ request # NoRequest => Reading
    /\ LoaderNeverRefuses

\* Within the limits of the configuration an image has sizes int32_t holds.
LEMMA LimitsFit ==
    ASSUME NEW w \in 1 .. UInt32Max, NEW h \in 1 .. UInt32Max, NEW limit \in 1 .. MaxPixels, w * h <= limit
    PROVE  /\ w \in 1 .. IntMax /\ h \in 1 .. IntMax /\ 3 * w \in 1 .. IntMax
           /\ 3 * w * h \in 1 .. UIntMax
           /\ ToInt32(w) = w /\ ToInt32(h) = h /\ ToInt32(3 * w) = 3 * w
<1>1. IntMax \in Nat /\ UIntMax \in Nat /\ MaxPixels \in Nat /\ w \in Nat /\ h \in Nat /\ w * h \in Nat
  BY WidthAssumption, LimitsAssumption DEF UInt32Max
<1>2. w <= w * h /\ h <= w * h
  <2>1. w * 1 <= w * h /\ 1 * h <= w * h
    BY <1>1
  <2>2. QED
    BY <1>1, <2>1
<1>3. 3 * (w * h) <= IntMax /\ 3 * w <= IntMax
  BY <1>1, <1>2, LimitsAssumption
<1>4. 3 * w * h = 3 * (w * h)
  BY <1>1
<1>5. IntMax <= UIntMax
  <2>1. IntMax >= 1
    BY <1>1, <1>2, <1>3
  <2>2. IntMax * 1 <= IntMax * IntMax
    BY <1>1, <2>1
  <2>3. IntMax * IntMax \in Nat
    BY <1>1
  <2>4. QED
    BY <1>1, <2>2, <2>3, WidthAssumption
<1>6. /\ w \in 1 .. IntMax /\ h \in 1 .. IntMax /\ 3 * w \in 1 .. IntMax
      /\ 3 * w * h \in 1 .. UIntMax
  BY <1>1, <1>2, <1>3, <1>4, <1>5
<1>7. QED
  BY <1>1, <1>6 DEF ToInt32

\* An image the service has decoded is told to the Loader at its real size, and accepted.
LEMMA DecodedIsAccepted ==
    ASSUME NEW d \in Documents, Configured(d), NEW r \in Requests,
           NEW i \in DOMAIN Texts(r), Decodes(Texts(r)[i])
    PROVE  LET file == FileOf(Decode(Texts(r)[i]).output) IN
           /\ Told(file) \in Image
           /\ ValidateImage(Told(file)) = "OK"
           /\ <<Told(file).width, Told(file).height, Told(file).stride, Told(file).data_size>> =
                  <<file.width, file.height, 3 * file.width, 3 * file.width * file.height>>
<1> DEFINE file == FileOf(Decode(Texts(r)[i]).output)
           image == Told(file)
<1>1. Decode(Texts(r)[i]) = DecodeBase64(Texts(r)[i], d.max_request_bytes)
  BY DEF Decode, Configured
<1>2. file.width \in 0 .. UInt32Max /\ file.height \in 0 .. UInt32Max
  BY <1>1, RequestAssumption
<1>3. /\ file.width > 0 /\ file.height > 0
      /\ file.width * file.height <= d.max_image_pixels
      /\ d.max_image_pixels \in 1 .. MaxPixels
  <2>1. DecodeImage(Decode(Texts(r)[i]).output) = "decoded"
    BY DEF Decodes, Outcome
  <2>2. Fits(file)
    BY <2>1 DEF DecodeImage
  <2>3. QED
    BY <2>2 DEF Fits, Configured, LoadConfig
<1> HIDE DEF file
<1>4. file.width \in 1 .. UInt32Max /\ file.height \in 1 .. UInt32Max
  BY <1>2, <1>3, WidthAssumption DEF UInt32Max
<1>5. /\ file.width \in 1 .. IntMax /\ file.height \in 1 .. IntMax /\ 3 * file.width \in 1 .. IntMax
      /\ 3 * file.width * file.height \in 1 .. UIntMax
      /\ ToInt32(file.width) = file.width /\ ToInt32(file.height) = file.height
      /\ ToInt32(3 * file.width) = 3 * file.width
  BY <1>3, <1>4, LimitsFit
<1>6. image = [present |-> TRUE, compatible |-> TRUE, width |-> file.width, height |-> file.height,
               stride |-> 3 * file.width, format |-> "BGR24", data_size |-> 3 * file.width * file.height]
  BY <1>5 DEF Told
<1>7. image \in Image
  BY <1>5, <1>6, WidthAssumption DEF Image, Ints, Formats
<1>8. Positive(image) /\ BytesPerPixel(image.format) = 3
  BY <1>5, <1>6, WidthAssumption DEF Positive, BytesPerPixel
<1>9. Holds(image)
  <2>1. RequiredSize(image) = 3 * file.width * file.height
    BY <1>6, <1>7, <1>8, RequiredExact
  <2>2. image.width * 3 = image.stride /\ image.stride \in Nat /\ image.data_size = RequiredSize(image)
        /\ RequiredSize(image) \in Nat
    BY <1>5, <1>6, <2>1, WidthAssumption
  <2>3. QED
    BY <1>8, <2>2 DEF Holds
<1>10. ValidateImage(image) = "OK"
  BY <1>6, <1>8, <1>9 DEF ValidateImage
<1>11. QED
  BY <1>6, <1>7, <1>10 DEF file

\* The texts of a well-formed request are a sequence, and not an empty one.
LEMMA TextsAreSequence ==
    ASSUME NEW r \in Requests, WellFormed(r)
    PROVE  \E n \in Nat \ {0} : DOMAIN Texts(r) = 1 .. n /\ Len(Texts(r)) = n
<1>1. CASE r.image_base64.is = "string"
  BY <1>1 DEF Texts
<1>2. CASE r.image_base64.is # "string"
  <2> DEFINE items == r.images_base64.items
             n == Len(items)
  <2>1. n \in Nat \ {0}
    BY <1>2 DEF WellFormed
  <2>2. DOMAIN items = 1 .. n
    BY RequestAssumption
  <2>3. Texts(r) = [i \in DOMAIN items |-> items[i].text]
    BY <1>2 DEF Texts
  <2> HIDE DEF items
  <2>4. Texts(r) = [i \in 1 .. n |-> items[i].text]
    BY <2>2, <2>3
  <2> HIDE DEF n
  <2>5. DOMAIN Texts(r) = 1 .. n /\ Len(Texts(r)) = n
    BY <2>1, <2>4
  <2>6. QED
    BY <2>1, <2>5
<1>3. QED
  BY <1>1, <1>2

\* The Loader refuses nothing of what the service has decoded.
LEMMA DecodedIsAcceptable ==
    ASSUME NEW d \in Documents, Configured(d), NEW r \in Requests, WellFormed(r), Decoded(Texts(r)).complete
    PROVE  LET batch == Decoded(Texts(r)).images IN
           /\ Acceptable(batch) /\ batch # <<>> /\ batch \in Seq(Image)
           /\ Len(batch) = Len(Texts(r)) /\ DOMAIN batch = DOMAIN Texts(r)
           /\ \A i \in DOMAIN batch : batch[i] = Told(FileOf(Decode(Texts(r)[i]).output))
<1> DEFINE batch == Decoded(Texts(r)).images
<1>1. PICK n \in Nat \ {0} : DOMAIN Texts(r) = 1 .. n /\ Len(Texts(r)) = n
  BY TextsAreSequence
<1>2. batch = [i \in 1 .. n |-> Told(FileOf(Decode(Texts(r)[i]).output))]
  BY <1>1 DEF Decoded
<1>3. \A i \in 1 .. n : Decodes(Texts(r)[i])
  BY <1>1 DEF Decoded
<1>4. \A i \in 1 .. n : batch[i] \in Image /\ ValidateImage(batch[i]) = "OK"
  BY <1>1, <1>2, <1>3, DecodedIsAccepted
<1>5. batch \in [1 .. n -> Image]
  BY <1>2, <1>4
<1> HIDE DEF batch
<1>6. batch \in Seq(Image) /\ Len(batch) = n /\ batch # <<>> /\ DOMAIN batch = 1 .. n
  BY <1>5
<1>7. Acceptable(batch)
  BY <1>4, <1>6 DEF Acceptable, Faults
<1>8. QED
  BY <1>1, <1>2, <1>6, <1>7 DEF batch

\* Initially there is neither a service nor an engine.
LEMMA InitHInv == HttpInit => HInv
BY DEF HttpInit, Init, HInv, Accepted, NoRequest, LoaderNeverRefuses

\* An engine of another client's, with no service.
LEMMA ClientKeepsHInv ==
    ASSUME HInv, service = NoService, Next, UNCHANGED http_vars
    PROVE  HInv'
<1>1. Accepted'
  BY AcceptedStep DEF HInv
<1>2. (engine = NoConfig => images = <<>>)'
  <2>1. ASSUME NEW config \in Configs, Create(config) PROVE images' = <<>> \/ engine' # NoConfig
    BY <2>1 DEF Create, HInv
  <2>2. ASSUME NEW batch \in Batches, Read(batch) PROVE images' = <<>> \/ engine' # NoConfig
    BY <2>2 DEF Read
  <2>3. ReadDone \/ Destroy => images' = <<>> \/ engine' # NoConfig
    BY DEF ReadDone, Destroy
  <2>4. QED
    BY <2>1, <2>2, <2>3 DEF Next
<1>3. QED
  BY <1>1, <1>2 DEF HInv, http_vars, LoaderNeverRefuses

\* Starting leaves a service without a request, or none.
LEMMA StartKeepsHInv ==
    ASSUME HInv, NEW d \in Documents, StartService(d)
    PROVE  HInv'
<1>1. images = <<>> /\ images' = <<>> /\ request' = NoRequest /\ answer' = 0
  BY DEF StartService, Create, HInv
<1>2. service' # NoService => Configured(d)' /\ status' = "OK"
  BY DEF StartService, Configured, LoadConfig
<1>3. Accepted'
  BY <1>1 DEF Accepted
<1>4. QED
  BY <1>1, <1>2, <1>3 DEF HInv, Serving, LoaderNeverRefuses

\* Stopping waits for the request being answered: it destroys an idle engine.
LEMMA StopKeepsHInv ==
    ASSUME HInv, StopService
    PROVE  HInv'
<1>1. images = <<>> /\ images' = <<>> /\ request' = NoRequest /\ answer' = 0 /\ service' = NoService
  BY DEF StopService, Destroy, HInv, Serving
<1>2. Accepted'
  BY <1>1 DEF Accepted
<1>3. QED
  BY <1>1, <1>2 DEF HInv, LoaderNeverRefuses

\* A request is refused here, or all its images are with the engine.
LEMMA PostKeepsHInv ==
    ASSUME HInv, NEW r \in Requests, Post(r)
    PROVE  HInv'
<1>1. PICK d \in Documents : Configured(d)
  BY DEF Post, HInv, Serving
<1>2. service # NoService /\ request = NoRequest /\ service' = service /\ images = <<>>
  BY DEF Post, HInv, Serving
<1>3. Configured(d)'
  BY <1>1, <1>2 DEF Configured, LoadConfig
<1>4. LoaderNeverRefuses
  BY DEF HInv
<1>5. CASE \E code \in Int : Reply(code)
  <2>1. images' = <<>> /\ request' = NoRequest /\ status' = status
    BY <1>2, <1>5 DEF Reply, Post
  <2>2. Accepted'
    BY <2>1 DEF Accepted
  <2>3. QED
    BY <1>2, <1>3, <1>4, <2>1, <2>2 DEF HInv, Serving, LoaderNeverRefuses
<1>6. CASE /\ Verdict(r) = 0
           /\ Read(Decoded(Texts(r)).images)
           /\ answer' = IF images' = <<>> THEN 500 ELSE 0
  <2> DEFINE batch == Decoded(Texts(r)).images
  <2>1. WellFormed(r) /\ Decoded(Texts(r)).complete
    BY <1>6 DEF Verdict
  <2>2. Acceptable(batch) /\ batch # <<>> /\ batch \in Seq(Image)
    BY <1>1, <2>1, DecodedIsAcceptable
  <2>3. images' = batch /\ engine' # NoConfig /\ status' = status
    BY <1>6, <2>2 DEF Read
  <2>4. answer' = 0 /\ request' = r /\ r # NoRequest
    BY <1>6, <2>2, <2>3, RequestAssumption DEF Post
  <2>5. Accepted'
    BY <2>2, <2>3 DEF Accepted, Acceptable, Faults
  <2>6. Decoded(Texts(r))' = Decoded(Texts(r))
    BY <1>2 DEF Decoded, Decodes, Outcome, Decode, DecodeImage, Fits, BufferMax
  <2>7. Reading'
    BY <2>1, <2>3, <2>4, <2>6 DEF Reading, WellFormed, Texts
  <2>8. QED
    BY <1>2, <1>3, <1>4, <2>2, <2>3, <2>4, <2>5, <2>7 DEF HInv, Serving, LoaderNeverRefuses
<1>7. Verdict(r) \in Int
  BY DEF Verdict
<1>8. QED
  BY <1>5, <1>6, <1>7 DEF Post

\* Once the engine is done the request is over, whatever is answered.
LEMMA AnswerKeepsHInv ==
    ASSUME HInv, Answer
    PROVE  HInv'
<1>1. /\ images' = <<>> /\ request' = NoRequest /\ service' = service /\ service # NoService
      /\ status' \in {"OK", "RUNTIME_ERROR"}
  BY DEF Answer, ReadDone, HInv
<1>2. Accepted'
  BY <1>1 DEF Accepted
<1>3. Serving'
  BY <1>1 DEF HInv, Serving, Configured, LoadConfig
<1>4. QED
  BY <1>1, <1>2, <1>3 DEF HInv, LoaderNeverRefuses

\* The inductive invariant of the service and the Loader behind it.
THEOREM HttpInvariance == HttpSpec => []HInv
<1>1. HInv /\ [HttpNext]_<<vars, http_vars>> => HInv'
  <2> SUFFICES ASSUME HInv, [HttpNext]_<<vars, http_vars>> PROVE HInv'
    OBVIOUS
  <2>1. CASE service = NoService /\ Next /\ UNCHANGED http_vars
    BY <2>1, ClientKeepsHInv
  <2>2. CASE \E d \in Documents : StartService(d)
    BY <2>2, StartKeepsHInv
  <2>3. CASE StopService
    BY <2>3, StopKeepsHInv
  <2>4. CASE \E r \in Requests : Post(r)
    BY <2>4, PostKeepsHInv
  <2>5. CASE Answer
    BY <2>5, AnswerKeepsHInv
  <2>6. CASE UNCHANGED <<vars, http_vars>>
    BY <2>6 DEF vars, http_vars, HInv, Accepted, Serving, Configured, LoadConfig, Reading,
                WellFormed, Decoded, Decodes, Outcome, Decode, DecodeImage, Fits, BufferMax,
                LoaderNeverRefuses
  <2>7. QED
    BY <2>1, <2>2, <2>3, <2>4, <2>5, <2>6 DEF HttpNext
<1>2. QED
  BY InitHInv, <1>1, PTL DEF HttpSpec

\* For every limit a configuration may set and every image a client may send: the
\* Loader refuses nothing the service decoded, so its calls fail only with the Runtime.
THEOREM DecodedNeverRefused == HttpSpec => []LoaderNeverRefuses
<1>1. HInv => LoaderNeverRefuses
  BY DEF HInv
<1>2. QED
  BY HttpInvariance, <1>1, PTL

\* Every image of a request reaches the engine, at its position and its real size, though
\* the sizes are converted to int32_t on the way.
THEOREM ImagesArriveWhole == HttpSpec => []ImagesArrive
<1>1. HInv => ImagesArrive
  <2> SUFFICES ASSUME HInv, request # NoRequest PROVE ImagesArrive
    BY DEF ImagesArrive
  <2>1. PICK d \in Documents : Configured(d)
    BY DEF HInv, Serving
  <2>2. request \in Requests /\ WellFormed(request) /\ Decoded(Texts(request)).complete
        /\ images = Decoded(Texts(request)).images
    BY DEF HInv, Reading
  <2>3. /\ Len(images) = Len(Texts(request)) /\ DOMAIN images = DOMAIN Texts(request)
        /\ \A i \in DOMAIN images : images[i] = Told(FileOf(Decode(Texts(request)[i]).output))
    BY <2>1, <2>2, DecodedIsAcceptable
  <2>4. \A i \in DOMAIN Texts(request) : Decodes(Texts(request)[i])
    BY <2>2 DEF Decoded
  <2>5. ASSUME NEW i \in DOMAIN images
        PROVE  LET file == FileOf(Decode(Texts(request)[i]).output) IN
               <<images[i].width, images[i].height, images[i].stride, images[i].data_size>> =
                   <<file.width, file.height, 3 * file.width, 3 * file.width * file.height>>
    <3>1. i \in DOMAIN Texts(request) /\ Decodes(Texts(request)[i])
          /\ images[i] = Told(FileOf(Decode(Texts(request)[i]).output))
      BY <2>3, <2>4
    <3>2. QED
      BY <2>1, <2>2, <3>1, DecodedIsAccepted
  <2>6. QED
    BY <2>3, <2>5 DEF ImagesArrive
<1>2. QED
  BY HttpInvariance, <1>1, PTL

\* Behind the service too, ToBgr stays inside the memory of the decoded image.
THEOREM DecodedReadInside == HttpSpec => []PixelsInside
BY HttpInvariance, AcceptedReadInside, PTL DEF HInv

------------------------------------------------------------------------------
(* Base64: the least counterexample.                                       *)

\* A set of numbers has a least.
LEMMA Least ==
    ASSUME NEW S \in SUBSET Nat, S # {}
    PROVE  \E x \in S : \A y \in S : x <= y
<1> DEFINE R == OpToRel(<, Nat)
<1>1. IsWellFoundedOn(R, Nat)
  BY NatLessThanWellFounded
<1>2. \A x, y \in Nat : y < x => <<y, x>> \in R
  BY DEF OpToRel
<1> HIDE DEF R
<1>3. PICK x \in S : \A y \in S : ~ (<<y, x>> \in R)
  BY <1>1, WFMin
<1>4. \A y \in S : ~(y < x)
  BY <1>2, <1>3
<1>5. QED
  BY <1>4

LEMMA Elements ==
    ASSUME NEW S, NEW s \in Seq(S)
    PROVE  Len(s) \in Nat /\ \A i \in 1 .. Len(s) : s[i] \in S
OBVIOUS

------------------------------------------------------------------------------
(* Base64: the loop.                                                       *)

Alphabet == 0 .. 66

\* LoopStates of the loop after 0, 1, 2 ... characters.
Runs(f, c, maximum) ==
    f = [i \in 0 .. Len(c) |-> IF i = 0 THEN Started ELSE Step(f[i - 1], c[i], maximum)]

\* There are such states.
LEMMA RunExists ==
    ASSUME NEW c \in Seq(Alphabet), NEW maximum
    PROVE  \E f : Runs(f, c, maximum)
<1> DEFINE After(f, m) == f = [i \in 0 .. m |-> IF i = 0 THEN Started ELSE Step(f[i - 1], c[i], maximum)]
           missing == {m \in Nat : ~\E f : After(f, m)}
<1>1. missing = {}
  <2> SUFFICES ASSUME missing # {} PROVE FALSE
    OBVIOUS
  <2>1. PICK m \in missing : \A k \in missing : m <= k
    BY Least
  <2>2. m # 0
    <3>1. After([i \in 0 .. 0 |-> Started], 0)
      OBVIOUS
    <3>2. QED
      BY <3>1
  <2>3. m - 1 \in Nat /\ ~(m <= m - 1)
    BY <2>2
  <2>4. m - 1 \notin missing
    <3> HIDE DEF missing
    <3>1. QED
      BY <2>1, <2>3
  <2>5. PICK f : After(f, m - 1)
    BY <2>3, <2>4
  <2> DEFINE g == [i \in 0 .. m |-> IF i = m THEN Step(f[m - 1], c[m], maximum) ELSE f[i]]
  <2>6. After(g, m)
    <3>1. \A i \in 0 .. m : g[i] = IF i = 0 THEN Started ELSE Step(g[i - 1], c[i], maximum)
      <4> SUFFICES ASSUME NEW i \in 0 .. m
                   PROVE  g[i] = IF i = 0 THEN Started ELSE Step(g[i - 1], c[i], maximum)
        OBVIOUS
      <4>1. CASE i = m
        <5>1. g[i - 1] = f[m - 1]
          BY <2>2, <2>3, <4>1
        <5>2. QED
          BY <2>2, <4>1, <5>1
      <4>2. CASE i # m
        <5>1. i \in 0 .. m - 1 /\ g[i] = f[i]
          BY <4>2
        <5>2. f[i] = IF i = 0 THEN Started ELSE Step(f[i - 1], c[i], maximum)
          BY <2>5, <5>1
        <5>3. i # 0 => g[i - 1] = f[i - 1]
          BY <5>1
        <5>4. QED
          BY <5>1, <5>2, <5>3
      <4>3. QED
        BY <4>1, <4>2
    <3> DEFINE h == [i \in 0 .. m |-> IF i = 0 THEN Started ELSE Step(g[i - 1], c[i], maximum)]
    <3>2. \A i \in 0 .. m : g[i] = h[i]
      BY <3>1
    <3>3. g = h
      <4>1. DOMAIN g = 0 .. m /\ DOMAIN h = 0 .. m /\ g = [i \in 0 .. m |-> g[i]] /\ h = [i \in 0 .. m |-> h[i]]
        OBVIOUS
      <4> HIDE DEF g, h
      <4>2. QED
        BY <3>2, <4>1
    <3>4. QED
      BY <3>3
  <2>7. QED
    BY <2>6
<1>2. Len(c) \in Nat
  OBVIOUS
<1>3. QED
  BY <1>1, <1>2 DEF Runs

\* What DecodeBase64 makes of the last of them.
LEMMA DecodeIs ==
    ASSUME NEW text, text.characters \in Seq(Alphabet), NEW maximum
    PROVE  \E f : /\ Runs(f, text.characters, maximum)
                  /\ DecodeBase64(text, maximum) =
                        IF text.prefix = "data:" THEN Error("not Base64")
                        ELSE IF Len(text.characters) > EncodedLimit(maximum) THEN Error("too large")
                        ELSE LET s == f[Len(text.characters)] IN
                             IF s.error # "none" THEN Error(s.error)
                             ELSE IF s.output = <<>> THEN Error("empty")
                             ELSE IF ~WellPadded(s) THEN Error("invalid padding")
                             ELSE [error |-> "none", output |-> s.output]
<1> DEFINE c == text.characters
           f == CHOOSE f : f = [i \in 0 .. Len(c) |-> IF i = 0 THEN Started ELSE Step(f[i - 1], c[i], maximum)]
<1>1. Runs(f, c, maximum)
  BY RunExists DEF Runs
<1>2. QED
  BY <1>1, Zenon DEF DecodeBase64

------------------------------------------------------------------------------
(* Base64: white space.                                                    *)

WrittenUpTo(c, i) == {j \in 1 .. i : c[j] # Space}

LEMMA WrittenFinite ==
    ASSUME NEW c, NEW i \in Nat
    PROVE  IsFiniteSet(WrittenUpTo(c, i)) /\ Written(c, i) \in Nat /\ Written(c, i) = Cardinality(WrittenUpTo(c, i))
<1>1. IsFiniteSet(1 .. i)
  BY FS_Interval
<1>2. IsFiniteSet(WrittenUpTo(c, i))
  BY <1>1, FS_Subset DEF WrittenUpTo
<1>3. QED
  BY <1>2, FS_CardinalityType DEF Written, WrittenUpTo

\* Each character but white space counts.
LEMMA WrittenStep ==
    ASSUME NEW c, NEW i \in Nat
    PROVE  /\ Written(c, 0) = 0
           /\ Written(c, i + 1) = IF c[i + 1] = Space THEN Written(c, i) ELSE Written(c, i) + 1
<1>1. WrittenUpTo(c, 0) = {}
  BY DEF WrittenUpTo
<1>2. Written(c, 0) = 0
  BY <1>1, WrittenFinite, FS_EmptySet
<1>3. CASE c[i + 1] = Space
  <2>1. WrittenUpTo(c, i + 1) = WrittenUpTo(c, i)
    BY <1>3 DEF WrittenUpTo
  <2>2. QED
    BY <1>2, <1>3, <2>1 DEF Written, WrittenUpTo
<1>4. CASE c[i + 1] # Space
  <2>1. WrittenUpTo(c, i + 1) = WrittenUpTo(c, i) \cup {i + 1} /\ i + 1 \notin WrittenUpTo(c, i)
    BY <1>4 DEF WrittenUpTo
  <2>2. Cardinality(WrittenUpTo(c, i + 1)) = Cardinality(WrittenUpTo(c, i)) + 1
    BY <2>1, WrittenFinite, FS_AddElement
  <2>3. QED
    BY <1>2, <1>4, <2>2, WrittenFinite
<1>5. QED
  BY <1>3, <1>4

\* What is written later counts further.
LEMMA WrittenGrows ==
    ASSUME NEW c, NEW i \in Nat, NEW j \in Nat, i < j, c[j] # Space
    PROVE  Written(c, i) < Written(c, j)
<1>1. WrittenUpTo(c, i) \subseteq WrittenUpTo(c, j) /\ j \in WrittenUpTo(c, j) /\ j \notin WrittenUpTo(c, i)
  BY DEF WrittenUpTo
<1>2. IsFiniteSet(WrittenUpTo(c, j)) /\ WrittenUpTo(c, i) # WrittenUpTo(c, j)
  BY <1>1, WrittenFinite
<1>3. /\ Cardinality(WrittenUpTo(c, i)) <= Cardinality(WrittenUpTo(c, j))
      /\ Cardinality(WrittenUpTo(c, i)) = Cardinality(WrittenUpTo(c, j)) => WrittenUpTo(c, i) = WrittenUpTo(c, j)
  BY <1>1, <1>2, FS_Subset
<1>4. Cardinality(WrittenUpTo(c, i)) # Cardinality(WrittenUpTo(c, j))
  BY <1>2, <1>3
<1>5. /\ Written(c, i) = Cardinality(WrittenUpTo(c, i)) /\ Written(c, i) \in Nat
      /\ Written(c, j) = Cardinality(WrittenUpTo(c, j)) /\ Written(c, j) \in Nat
  BY WrittenFinite
<1>6. QED
  BY <1>3, <1>4, <1>5

\* The k-th character that is written.
Symbol(c, k) == c[CHOOSE i \in 1 .. Len(c) : c[i] # Space /\ Written(c, i) = k]
Symbols(c) == [k \in 1 .. Written(c, Len(c)) |-> Symbol(c, k)]

LEMMA SymbolIs ==
    ASSUME NEW c \in Seq(Alphabet), NEW i \in 1 .. Len(c), c[i] # Space
    PROVE  Written(c, i) \in 1 .. Written(c, Len(c)) /\ Symbols(c)[Written(c, i)] = c[i]
<1> DEFINE k == Written(c, i)
           at == CHOOSE j \in 1 .. Len(c) : c[j] # Space /\ Written(c, j) = k
<1>1. at \in 1 .. Len(c) /\ c[at] # Space /\ Written(c, at) = k
  OBVIOUS
<1>2. Len(c) \in Nat /\ i \in Nat /\ at \in Nat
  BY <1>1
<1> HIDE DEF at
<1>3. at = i
  <2>1. ~(at < i) /\ ~(i < at)
    BY <1>1, <1>2, WrittenGrows, WrittenFinite
  <2>2. QED
    BY <1>2, <2>1
<1>4. k \in Nat /\ Written(c, Len(c)) \in Nat
  BY <1>2, WrittenFinite
<1>5. k <= Written(c, Len(c))
  <2>1. WrittenUpTo(c, i) \subseteq WrittenUpTo(c, Len(c))
    BY <1>2 DEF WrittenUpTo
  <2>2. QED
    BY <1>2, <2>1, WrittenFinite, FS_Subset
<1>6. k >= 1
  <2>1. Written(c, 0) < k
    BY <1>2, WrittenGrows
  <2>2. QED
    BY <1>4, <2>1, WrittenStep
<1>7. k \in 1 .. Written(c, Len(c))
  BY <1>4, <1>5, <1>6
<1>8. Symbols(c)[k] = Symbol(c, k)
  BY <1>7 DEF Symbols
<1>9. Symbol(c, k) = c[at]
  BY DEF Symbol, at
<1>10. QED
  BY <1>3, <1>7, <1>8, <1>9

------------------------------------------------------------------------------
(* Base64: the invariant of the loop.                                      *)

\* The j-th byte of the letters y.
ByteOf(y, j) ==
    LET first == 4 * ((j - 1) \div 3) + 1 IN
    CASE j % 3 = 1 -> 4 * y[first] + y[first + 1] \div 16
      [] j % 3 = 2 -> 16 * (y[first + 1] % 16) + y[first + 2] \div 4
      [] j % 3 = 0 -> 64 * (y[first + 2] % 4) + y[first + 3]

\* The bits of the m-th letter that are in no byte yet.
BitsLeft(y, m, bits, rest) ==
    /\ m % 4 = 0 => bits = 0 /\ rest = 0
    /\ m % 4 = 1 => bits = 6 /\ rest = y[m]
    /\ m % 4 = 2 => bits = 4 /\ rest = y[m] % 16
    /\ m % 4 = 3 => bits = 2 /\ rest = y[m] % 4

\* The first m of the characters y are letters, and output is their bytes.
ReadLetters(y, m, output, bits, rest) ==
    /\ m \in Nat /\ output \in Seq(0 .. 255)
    /\ \A k \in 1 .. m : y[k] \in 0 .. 63
    /\ BitsLeft(y, m, bits, rest)
    /\ Len(output) = (3 * m) \div 4
    /\ \A j \in 1 .. Len(output) : output[j] = ByteOf(y, j)

\* The arithmetic of a letter behind the six, the four or the two bits another one left.
BehindSix(a, letter) ==
    /\ (64 * a + letter) \div 16 = 4 * a + letter \div 16
    /\ 4 * a + letter \div 16 \in 0 .. 255
    /\ (64 * a + letter) % 16 = letter % 16

BehindFour(a, letter) ==
    /\ (64 * (a % 16) + letter) \div 4 = 16 * (a % 16) + letter \div 4
    /\ 16 * (a % 16) + letter \div 4 \in 0 .. 255
    /\ (64 * (a % 16) + letter) % 4 = letter % 4

BehindTwo(a, letter) ==
    /\ (64 * (a % 4) + letter) \div 1 = 64 * (a % 4) + letter
    /\ 64 * (a % 4) + letter \in 0 .. 255
    /\ (64 * (a % 4) + letter) % 1 = 0

LEMMA LetterBehind ==
    ASSUME NEW a \in 0 .. 63, NEW letter \in 0 .. 63
    PROVE  BehindSix(a, letter) /\ BehindFour(a, letter) /\ BehindTwo(a, letter)
<1>1. BehindSix(a, letter)
  BY DEF BehindSix
<1>2. a % 16 \in 0 .. 15 /\ a % 4 \in 0 .. 3
  OBVIOUS
<1>3. BehindFour(a, letter)
  <2>1. ASSUME NEW b \in 0 .. 15
        PROVE  /\ (64 * b + letter) \div 4 = 16 * b + letter \div 4
               /\ 16 * b + letter \div 4 \in 0 .. 255
               /\ (64 * b + letter) % 4 = letter % 4
    OBVIOUS
  <2>2. QED
    BY <1>2, <2>1, Zenon DEF BehindFour
<1>4. BehindTwo(a, letter)
  <2>1. ASSUME NEW b \in 0 .. 3
        PROVE  /\ (64 * b + letter) \div 1 = 64 * b + letter
               /\ 64 * b + letter \in 0 .. 255
               /\ (64 * b + letter) % 1 = 0
    OBVIOUS
  <2>2. QED
    BY <1>2, <2>1, Zenon DEF BehindTwo
<1>5. QED
  BY <1>1, <1>3, <1>4

\* Letters come in fours and bytes in threes.
LEMMA FourAndThree ==
    ASSUME NEW m \in Nat
    PROVE  \E g \in Nat :
               /\ m % 4 \in {0, 1, 2, 3}
               /\ m % 4 = 0 => /\ m = 4 * g /\ (3 * m) \div 4 = 3 * g
                              /\ (m + 1) % 4 = 1 /\ (3 * (m + 1)) \div 4 = 3 * g
               /\ m % 4 = 1 => /\ m = 4 * g + 1 /\ (3 * m) \div 4 = 3 * g
                              /\ (m + 1) % 4 = 2 /\ (3 * (m + 1)) \div 4 = 3 * g + 1
                              /\ (3 * g + 1) % 3 = 1 /\ (3 * g) \div 3 = g
               /\ m % 4 = 2 => /\ m = 4 * g + 2 /\ (3 * m) \div 4 = 3 * g + 1
                              /\ (m + 1) % 4 = 3 /\ (3 * (m + 1)) \div 4 = 3 * g + 2
                              /\ (3 * g + 2) % 3 = 2 /\ (3 * g + 1) \div 3 = g
               /\ m % 4 = 3 => /\ m = 4 * g + 3 /\ (3 * m) \div 4 = 3 * g + 2
                              /\ (m + 1) % 4 = 0 /\ (3 * (m + 1)) \div 4 = 3 * g + 3
                              /\ (3 * g + 3) % 3 = 0 /\ (3 * g + 2) \div 3 = g
<1>1. PICK g \in Nat : m = 4 * g \/ m = 4 * g + 1 \/ m = 4 * g + 2 \/ m = 4 * g + 3
  <2>1. m \div 4 \in Nat
        /\ (m = 4 * (m \div 4) \/ m = 4 * (m \div 4) + 1 \/ m = 4 * (m \div 4) + 2 \/ m = 4 * (m \div 4) + 3)
    OBVIOUS
  <2>2. QED
    BY <2>1
<1>2. CASE m = 4 * g
  BY <1>2
<1>3. CASE m = 4 * g + 1
  BY <1>3
<1>4. CASE m = 4 * g + 2
  BY <1>4
<1>5. CASE m = 4 * g + 3
  BY <1>5
<1>6. QED
  BY <1>1, <1>2, <1>3, <1>4, <1>5

\* A letter that ends a byte.
LEMMA ByteDone ==
    ASSUME NEW y, NEW m, NEW output, NEW bits, NEW rest, ReadLetters(y, m, output, bits, rest), bits # 0,
           y[m + 1] \in 0 .. 63
    PROVE  /\ bits \in {2, 4, 6}
           /\ ReadLetters(y, m + 1, Append(output, (64 * rest + y[m + 1]) \div Power2(bits - 2)),
                   bits - 2, (64 * rest + y[m + 1]) % Power2(bits - 2))
<1> DEFINE letter == y[m + 1]
           byte == (64 * rest + letter) \div Power2(bits - 2)
           left == (64 * rest + letter) % Power2(bits - 2)
           L == Len(output)
<1>1. /\ m \in Nat /\ output \in Seq(0 .. 255)
      /\ \A k \in 1 .. m : y[k] \in 0 .. 63
      /\ BitsLeft(y, m, bits, rest) /\ L = (3 * m) \div 4
      /\ \A j \in 1 .. L : output[j] = ByteOf(y, j)
  BY DEF ReadLetters
<1>2. letter \in 0 .. 63 /\ L \in Nat
  BY <1>1
<1> HIDE DEF letter, L
<1>3. m # 0 /\ m % 4 # 0
  BY <1>1 DEF BitsLeft
<1>4. y[m] \in 0 .. 63
  <2>1. m \in 1 .. m
    BY <1>1, <1>3
  <2>2. QED
    BY <1>1, <2>1
<1>5. PICK g \in Nat :
               /\ m % 4 \in {0, 1, 2, 3}
               /\ m % 4 = 0 => /\ m = 4 * g /\ (3 * m) \div 4 = 3 * g
                              /\ (m + 1) % 4 = 1 /\ (3 * (m + 1)) \div 4 = 3 * g
               /\ m % 4 = 1 => /\ m = 4 * g + 1 /\ (3 * m) \div 4 = 3 * g
                              /\ (m + 1) % 4 = 2 /\ (3 * (m + 1)) \div 4 = 3 * g + 1
                              /\ (3 * g + 1) % 3 = 1 /\ (3 * g) \div 3 = g
               /\ m % 4 = 2 => /\ m = 4 * g + 2 /\ (3 * m) \div 4 = 3 * g + 1
                              /\ (m + 1) % 4 = 3 /\ (3 * (m + 1)) \div 4 = 3 * g + 2
                              /\ (3 * g + 2) % 3 = 2 /\ (3 * g + 1) \div 3 = g
               /\ m % 4 = 3 => /\ m = 4 * g + 3 /\ (3 * m) \div 4 = 3 * g + 2
                              /\ (m + 1) % 4 = 0 /\ (3 * (m + 1)) \div 4 = 3 * g + 3
                              /\ (3 * g + 3) % 3 = 0 /\ (3 * g + 2) \div 3 = g
  BY <1>1, FourAndThree
<1>6. /\ bits \in {2, 4, 6} /\ byte \in 0 .. 255 /\ byte = ByteOf(y, L + 1)
      /\ BitsLeft(y, m + 1, bits - 2, left) /\ L + 1 = (3 * (m + 1)) \div 4
  <2>1. CASE m % 4 = 1
    <3>1. bits = 6 /\ rest = y[m] /\ bits - 2 = 4 /\ Power2(4) = 16
      BY <1>1, <2>1 DEF BitsLeft, Power2
    <3>2. byte = 4 * y[m] + letter \div 16 /\ left = letter % 16 /\ byte \in 0 .. 255
      <4>1. byte = (64 * y[m] + letter) \div 16 /\ left = (64 * y[m] + letter) % 16
        BY <3>1, Zenon
      <4>2. BehindSix(y[m], letter)
        BY <1>2, <1>4, LetterBehind
      <4> HIDE DEF byte, left
      <4>3. QED
        BY <4>1, <4>2 DEF BehindSix
    <3>3. m = 4 * g + 1 /\ L = 3 * g /\ (m + 1) % 4 = 2 /\ (L + 1) % 3 = 1 /\ (L + 1 - 1) \div 3 = g
          /\ L + 1 = (3 * (m + 1)) \div 4
      <4>1. /\ m = 4 * g + 1 /\ (3 * m) \div 4 = 3 * g /\ (m + 1) % 4 = 2 /\ (3 * (m + 1)) \div 4 = 3 * g + 1
            /\ (3 * g + 1) % 3 = 1 /\ (3 * g) \div 3 = g
        BY <1>5, <2>1, Zenon
      <4>2. L = 3 * g /\ L + 1 = 3 * g + 1 /\ L + 1 - 1 = 3 * g
        BY <1>1, <1>2, <4>1
      <4>3. QED
        BY <4>1, <4>2, Zenon
    <3> HIDE DEF byte, left
    <3>4. ByteOf(y, L + 1) = 4 * y[m] + y[m + 1] \div 16
      BY <3>3 DEF ByteOf
    <3>5. BitsLeft(y, m + 1, 4, left)
      <4>1. left = y[m + 1] % 16 /\ (m + 1) % 4 = 2
        BY <3>2, <3>3, Zenon DEF letter
      <4>2. QED
        BY <4>1 DEF BitsLeft
    <3>6. QED
      BY <3>1, <3>2, <3>3, <3>4, <3>5 DEF letter
  <2>2. CASE m % 4 = 2
    <3>1. bits = 4 /\ rest = y[m] % 16 /\ bits - 2 = 2 /\ Power2(2) = 4
      BY <1>1, <2>2 DEF BitsLeft, Power2
    <3>2. byte = 16 * (y[m] % 16) + letter \div 4 /\ left = letter % 4 /\ byte \in 0 .. 255
      <4>1. byte = (64 * (y[m] % 16) + letter) \div 4 /\ left = (64 * (y[m] % 16) + letter) % 4
        BY <3>1, Zenon
      <4>2. BehindFour(y[m], letter)
        BY <1>2, <1>4, LetterBehind
      <4> HIDE DEF byte, left
      <4>3. QED
        BY <4>1, <4>2 DEF BehindFour
    <3>3. m = 4 * g + 2 /\ L = 3 * g + 1 /\ (m + 1) % 4 = 3 /\ (L + 1) % 3 = 2 /\ (L + 1 - 1) \div 3 = g
          /\ L + 1 = (3 * (m + 1)) \div 4
      <4>1. /\ m = 4 * g + 2 /\ (3 * m) \div 4 = 3 * g + 1 /\ (m + 1) % 4 = 3 /\ (3 * (m + 1)) \div 4 = 3 * g + 2
            /\ (3 * g + 2) % 3 = 2 /\ (3 * g + 1) \div 3 = g
        BY <1>5, <2>2, Zenon
      <4>2. L = 3 * g + 1 /\ L + 1 = 3 * g + 2 /\ L + 1 - 1 = 3 * g + 1
        BY <1>1, <1>2, <4>1
      <4>3. QED
        BY <4>1, <4>2, Zenon
    <3> HIDE DEF byte, left
    <3>4. ByteOf(y, L + 1) = 16 * (y[m] % 16) + y[m + 1] \div 4
      BY <3>3 DEF ByteOf
    <3>5. BitsLeft(y, m + 1, 2, left)
      <4>1. left = y[m + 1] % 4 /\ (m + 1) % 4 = 3
        BY <3>2, <3>3, Zenon DEF letter
      <4>2. QED
        BY <4>1 DEF BitsLeft
    <3>6. QED
      BY <3>1, <3>2, <3>3, <3>4, <3>5 DEF letter
  <2>3. CASE m % 4 = 3
    <3>1. bits = 2 /\ rest = y[m] % 4 /\ bits - 2 = 0 /\ Power2(0) = 1
      BY <1>1, <2>3 DEF BitsLeft, Power2
    <3>2. byte = 64 * (y[m] % 4) + letter /\ left = 0 /\ byte \in 0 .. 255
      <4>1. byte = (64 * (y[m] % 4) + letter) \div 1 /\ left = (64 * (y[m] % 4) + letter) % 1
        BY <3>1, Zenon
      <4>2. BehindTwo(y[m], letter)
        BY <1>2, <1>4, LetterBehind
      <4> HIDE DEF byte, left
      <4>3. QED
        BY <4>1, <4>2 DEF BehindTwo
    <3>3. m = 4 * g + 3 /\ L = 3 * g + 2 /\ (m + 1) % 4 = 0 /\ (L + 1) % 3 = 0 /\ (L + 1 - 1) \div 3 = g
          /\ L + 1 = (3 * (m + 1)) \div 4
      <4>1. /\ m = 4 * g + 3 /\ (3 * m) \div 4 = 3 * g + 2 /\ (m + 1) % 4 = 0 /\ (3 * (m + 1)) \div 4 = 3 * g + 3
            /\ (3 * g + 3) % 3 = 0 /\ (3 * g + 2) \div 3 = g
        BY <1>5, <2>3, Zenon
      <4>2. L = 3 * g + 2 /\ L + 1 = 3 * g + 3 /\ L + 1 - 1 = 3 * g + 2
        BY <1>1, <1>2, <4>1
      <4>3. QED
        BY <4>1, <4>2, Zenon
    <3> HIDE DEF byte, left
    <3>4. ByteOf(y, L + 1) = 64 * (y[m] % 4) + y[m + 1]
      BY <3>3 DEF ByteOf
    <3>5. BitsLeft(y, m + 1, 0, left)
      <4>1. left = 0 /\ (m + 1) % 4 = 0
        BY <3>2, <3>3, Zenon
      <4>2. QED
        BY <4>1 DEF BitsLeft
    <3>6. QED
      BY <3>1, <3>2, <3>3, <3>4, <3>5 DEF letter
  <2>4. QED
    BY <1>3, <1>5, <2>1, <2>2, <2>3
<1> HIDE DEF byte, left
<1> DEFINE next == Append(output, byte)
<1>7. /\ next \in Seq(0 .. 255) /\ Len(next) = L + 1
      /\ \A j \in 1 .. L : next[j] = output[j]
      /\ next[L + 1] = byte
  BY <1>1, <1>6 DEF L
<1> HIDE DEF next
<1>8. \A j \in 1 .. L + 1 : next[j] = ByteOf(y, j)
  <2> SUFFICES ASSUME NEW j \in 1 .. L + 1 PROVE next[j] = ByteOf(y, j)
    OBVIOUS
  <2>1. CASE j = L + 1
    BY <1>6, <1>7, <2>1
  <2>2. CASE j # L + 1
    <3>1. j \in 1 .. L
      BY <1>2, <2>2
    <3>2. QED
      BY <1>1, <1>7, <3>1
  <2>3. QED
    BY <2>1, <2>2
<1>9. \A k \in 1 .. m + 1 : y[k] \in 0 .. 63
  <2> SUFFICES ASSUME NEW k \in 1 .. m + 1 PROVE y[k] \in 0 .. 63
    OBVIOUS
  <2>1. k \in 1 .. m \/ k = m + 1
    BY <1>1
  <2>2. QED
    BY <1>1, <1>2, <2>1 DEF letter
<1>10. m + 1 \in Nat
  BY <1>1
<1>11. ReadLetters(y, m + 1, next, bits - 2, left)
  BY <1>6, <1>7, <1>8, <1>9, <1>10 DEF ReadLetters
<1>12. QED
  BY <1>6, <1>11 DEF next, byte, left, letter

\* A letter that starts a group.
LEMMA ByteBegun ==
    ASSUME NEW y, NEW m, NEW output, NEW bits, NEW rest, ReadLetters(y, m, output, bits, rest), bits = 0,
           y[m + 1] \in 0 .. 63
    PROVE  rest = 0 /\ ReadLetters(y, m + 1, output, 6, y[m + 1])
<1>1. /\ m \in Nat /\ output \in Seq(0 .. 255)
      /\ \A k \in 1 .. m : y[k] \in 0 .. 63
      /\ BitsLeft(y, m, bits, rest) /\ Len(output) = (3 * m) \div 4
      /\ \A j \in 1 .. Len(output) : output[j] = ByteOf(y, j)
  BY DEF ReadLetters
<1>2. m % 4 = 0
  <2>1. m % 4 \in {0, 1, 2, 3}
    BY <1>1
  <2>2. QED
    BY <1>1, <2>1 DEF BitsLeft
<1>3. (m + 1) % 4 = 1 /\ (3 * (m + 1)) \div 4 = (3 * m) \div 4 /\ m + 1 \in Nat
  <2>1. PICK g \in Nat : m = 4 * g
    BY <1>1, <1>2
  <2>2. QED
    BY <2>1
<1>4. BitsLeft(y, m + 1, 6, y[m + 1]) /\ rest = 0
  BY <1>1, <1>2, <1>3 DEF BitsLeft
<1>5. \A k \in 1 .. m + 1 : y[k] \in 0 .. 63
  <2> SUFFICES ASSUME NEW k \in 1 .. m + 1 PROVE y[k] \in 0 .. 63
    OBVIOUS
  <2>1. k \in 1 .. m \/ k = m + 1
    BY <1>1
  <2>2. QED
    BY <1>1, <2>1
<1>6. QED
  BY <1>1, <1>3, <1>4, <1>5 DEF ReadLetters

\* A state without an error: its symbols are the letters and then the padding of y.
LoopStates == [error : {"none"}, output : Seq(0 .. 255), rest : Nat, bits : Nat, symbols : Nat, padding : 0 .. 2]

Reads(y, s, maximum) ==
    /\ s \in LoopStates
    /\ ReadLetters(y, s.symbols - s.padding, s.output, s.bits, s.rest)
    /\ \A k \in s.symbols - s.padding + 1 .. s.symbols : y[k] = Pad
    /\ Len(s.output) <= maximum

\* Before the first character.
LEMMA StartedReads ==
    ASSUME NEW y, NEW maximum \in Nat
    PROVE  Reads(y, Started, maximum) /\ Started.symbols = 0
<1>1. Started \in LoopStates
  BY DEF Started, LoopStates
<1>2. Started.symbols = 0 /\ Started.padding = 0 /\ Started.output = <<>> /\ Started.bits = 0 /\ Started.rest = 0
  BY DEF Started
<1>3. BitsLeft(y, 0, 0, 0)
  BY DEF BitsLeft
<1>4. Len(<<>>) = 0 /\ <<>> \in Seq(0 .. 255) /\ 0 - 0 = 0 /\ (3 * 0) \div 4 = 0
  OBVIOUS
<1>5. ReadLetters(y, 0, <<>>, 0, 0)
  BY <1>3, <1>4 DEF ReadLetters
<1>6. \A k \in 0 - 0 + 1 .. 0 : y[k] = Pad
  OBVIOUS
<1>7. QED
  BY <1>1, <1>2, <1>4, <1>5, <1>6 DEF Reads

\* One more character that is padding.
LEMMA PadReads ==
    ASSUME NEW y, NEW s, NEW maximum \in Nat, Reads(y, s, maximum), y[s.symbols + 1] = Pad, s.padding # 2
    PROVE  /\ Reads(y, [s EXCEPT !.symbols = @ + 1, !.padding = @ + 1], maximum)
<1> DEFINE t == [s EXCEPT !.symbols = @ + 1, !.padding = @ + 1]
           n == s.symbols
           p == s.padding
<1>1. s \in LoopStates /\ n \in Nat /\ p \in {0, 1}
  BY DEF Reads, LoopStates
<1>2. /\ t \in LoopStates /\ t.symbols = n + 1 /\ t.padding = p + 1
      /\ t.output = s.output /\ t.bits = s.bits /\ t.rest = s.rest
  <2> DEFINE n1 == n + 1
             p1 == p + 1
  <2>1. n1 \in Nat /\ p1 \in 0 .. 2
    BY <1>1
  <2>2. t = [s EXCEPT !.symbols = n1, !.padding = p1]
    OBVIOUS
  <2> HIDE DEF t, n1, p1
  <2>3. /\ t \in LoopStates /\ t.symbols = n1 /\ t.padding = p1
        /\ t.output = s.output /\ t.bits = s.bits /\ t.rest = s.rest
    BY <1>1, <2>1, <2>2 DEF LoopStates
  <2>4. QED
    BY <2>3 DEF n1, p1
<1>3. (n + 1) - (p + 1) = n - p
  BY <1>1
<1>4. \A k \in n - p + 1 .. n + 1 : y[k] = Pad
  <2>1. \A k \in n - p + 1 .. n : y[k] = Pad
    BY DEF Reads
  <2>2. \A k \in n - p + 1 .. n + 1 : k \in n - p + 1 .. n \/ k = n + 1
    BY <1>1
  <2>3. y[n + 1] = Pad
    OBVIOUS
  <2> HIDE DEF n, p
  <2>4. QED
    BY <2>1, <2>2, <2>3
<1>5. ReadLetters(y, n - p, s.output, s.bits, s.rest) /\ Len(s.output) <= maximum
  BY DEF Reads
<1> HIDE DEF t, n, p
<1>6. Reads(y, t, maximum)
  BY <1>2, <1>3, <1>4, <1>5 DEF Reads
<1>7. QED
  BY <1>6 DEF t

\* One more letter.
LEMMA LetterReads ==
    ASSUME NEW y, NEW s, NEW maximum \in Nat, Reads(y, s, maximum), s.padding = 0,
           y[s.symbols + 1] \in 0 .. 63
    PROVE  LET t == PutLetter(s, y[s.symbols + 1], maximum) IN
           /\ t.error = "none" => Reads(y, t, maximum) /\ t.symbols = s.symbols + 1
           /\ s.bits = 0 \/ Len(s.output) < maximum => t.error = "none"
<1> DEFINE n == s.symbols
           letter == y[n + 1]
           t == PutLetter(s, letter, maximum)
<1>1. /\ s \in LoopStates /\ n \in Nat /\ s.bits \in Nat /\ s.rest \in Nat /\ s.output \in Seq(0 .. 255)
      /\ s.error = "none" /\ s.padding = 0
  BY DEF Reads, LoopStates
<1>2. n - s.padding = n /\ Len(s.output) \in Nat
  BY <1>1
<1>3. ReadLetters(y, n, s.output, s.bits, s.rest) /\ Len(s.output) <= maximum
  BY <1>2 DEF Reads
<1>4. letter \in 0 .. 63
  OBVIOUS
<1> HIDE DEF letter
<1>5. \A k \in (n + 1) - 0 + 1 .. n + 1 : y[k] = Pad
  BY <1>1
<1>6. (n + 1) - 0 = n + 1 /\ n + 1 \in Nat
  BY <1>1
<1>7. CASE s.bits = 0
  <2>1. s.rest = 0 /\ ReadLetters(y, n + 1, s.output, 6, letter)
    BY <1>3, <1>4, <1>7, ByteBegun DEF letter
  <2>2. t = [s EXCEPT !.symbols = @ + 1, !.rest = letter, !.bits = 6]
    <3>1. s.bits + 6 = 6 /\ 64 * s.rest + letter = letter
      BY <1>4, <1>7, <2>1
    <3>2. 6 < 8
      OBVIOUS
    <3>3. QED
      BY <3>1, <3>2, Zenon DEF PutLetter
  <2> HIDE DEF t, n
  <2>3. /\ t \in LoopStates /\ t.error = "none" /\ t.symbols = n + 1 /\ t.padding = 0
        /\ t.output = s.output /\ t.bits = 6 /\ t.rest = letter
    <3> DEFINE n1 == n + 1
               six == 6
    <3>1. t = [s EXCEPT !.symbols = n1, !.rest = letter, !.bits = six]
      BY <2>2 DEF n
    <3>2. n1 \in Nat /\ letter \in Nat /\ six \in Nat
      BY <1>1, <1>4
    <3> HIDE DEF n1, six
    <3>3. /\ t \in LoopStates /\ t.error = "none" /\ t.symbols = n1 /\ t.padding = 0
          /\ t.output = s.output /\ t.bits = six /\ t.rest = letter
      BY <1>1, <3>1, <3>2 DEF LoopStates
    <3>4. QED
      BY <3>3 DEF n1, six
  <2>4. Reads(y, t, maximum)
    BY <1>3, <1>5, <1>6, <2>1, <2>3 DEF Reads
  <2>5. QED
    BY <2>3, <2>4 DEF t, n, letter
<1>8. CASE s.bits # 0
  <2> DEFINE byte == (64 * s.rest + letter) \div Power2(s.bits - 2)
             left == (64 * s.rest + letter) % Power2(s.bits - 2)
             next == Append(s.output, byte)
  <2>1. s.bits \in {2, 4, 6} /\ ReadLetters(y, n + 1, next, s.bits - 2, left)
    <3>1. ReadLetters(y, n, s.output, s.bits, s.rest) /\ s.bits # 0 /\ y[n + 1] \in 0 .. 63
      BY <1>3, <1>4, <1>8 DEF letter
    <3>2. QED
      BY <3>1, ByteDone, ZenonT(60) DEF letter
  <2> HIDE DEF byte, left, next
  <2>2. s.bits + 6 >= 8 /\ s.bits + 6 - 8 = s.bits - 2 /\ ~(s.bits + 6 < 8) /\ s.bits - 2 \in Nat
    BY <2>1
  <2>3. CASE Len(s.output) >= maximum
    <3>1. t = [s EXCEPT !.error = "too large"]
      BY <2>2, <2>3 DEF PutLetter
    <3> HIDE DEF t
    <3>2. t.error = "too large"
      BY <1>1, <3>1 DEF LoopStates
    <3>3. ~(Len(s.output) < maximum)
      BY <1>2, <2>3
    <3>4. QED
      BY <1>8, <3>2, <3>3 DEF t, n, letter
  <2>4. CASE ~(Len(s.output) >= maximum)
    <3>1. t = [s EXCEPT !.symbols = @ + 1, !.bits = s.bits - 2, !.rest = left, !.output = next]
      <4> DEFINE rest == 64 * s.rest + letter
                 bits == s.bits + 6
      <4>1. t = [s EXCEPT !.symbols = @ + 1, !.bits = bits - 8, !.rest = rest % Power2(bits - 8),
                          !.output = Append(@, rest \div Power2(bits - 8))]
        BY <2>2, <2>4, Zenon DEF PutLetter
      <4>2. bits - 8 = s.bits - 2
        BY <1>1
      <4> HIDE DEF t, bits
      <4>3. QED
        BY <4>1, <4>2, Zenon DEF next, byte, left
    <3>2. left \in Nat
      <4>1. Power2(s.bits - 2) \in {1, 4, 16}
        BY <2>1 DEF Power2
      <4>2. QED
        BY <1>1, <1>4, <4>1 DEF left
    <3>3. next \in Seq(0 .. 255) /\ Len(next) = Len(s.output) + 1
      <4>1. next \in Seq(0 .. 255)
        BY <2>1 DEF ReadLetters
      <4>2. Len(next) = Len(s.output) + 1
        BY <1>1 DEF next
      <4>3. QED
        BY <4>1, <4>2
    <3> HIDE DEF t, left, next, byte
    <3>4. /\ t \in LoopStates /\ t.error = "none" /\ t.symbols = n + 1 /\ t.padding = 0
          /\ t.output = next /\ t.bits = s.bits - 2 /\ t.rest = left
      <4> DEFINE n1 == n + 1
                 b2 == s.bits - 2
      <4>1. t = [s EXCEPT !.symbols = n1, !.bits = b2, !.rest = left, !.output = next] /\ n1 \in Nat /\ b2 \in Nat
        BY <1>1, <2>2, <3>1
      <4> HIDE DEF n1, b2
      <4>2. /\ t \in LoopStates /\ t.error = "none" /\ t.symbols = n1 /\ t.padding = 0
            /\ t.output = next /\ t.bits = b2 /\ t.rest = left
        BY <1>1, <3>2, <3>3, <4>1 DEF LoopStates
      <4>3. QED
        BY <4>2 DEF n1, b2
    <3>5. Len(next) <= maximum
      BY <1>2, <2>4, <3>3
    <3> HIDE DEF n
    <3>6. Reads(y, t, maximum)
      BY <1>5, <1>6, <2>1, <3>4, <3>5 DEF Reads
    <3>7. QED
      BY <3>4, <3>6 DEF t, n, letter
  <2>5. QED
    BY <2>3, <2>4
<1>9. QED
  BY <1>7, <1>8

------------------------------------------------------------------------------
(* Base64: what was read is an encoding.                                   *)

\* The bits of two letters behind one another.
LEMMA FirstBits ==
    ASSUME NEW a \in 0 .. 63, NEW b \in 0 .. 63
    PROVE  /\ (4 * a + b \div 16) \div 4 = a
           /\ (4 * a + b \div 16) % 4 = b \div 16
           /\ 16 * (b \div 16) + (b % 16) = b
           /\ b % 16 = 0 => 16 * (b \div 16) = b
<1> DEFINE bh == b \div 16
           bl == b % 16
<1>1. bh \in 0 .. 3 /\ bl \in 0 .. 15 /\ b = 16 * bh + bl
  OBVIOUS
<1> HIDE DEF bh, bl
<1>2. (4 * a + bh) \div 4 = a /\ (4 * a + bh) % 4 = bh
  BY <1>1
<1>3. 16 * bh + bl = b /\ (bl = 0 => 16 * bh = b)
  BY <1>1
<1>4. QED
  BY <1>2, <1>3 DEF bh, bl

LEMMA MiddleBits ==
    ASSUME NEW b \in 0 .. 63, NEW c \in 0 .. 63
    PROVE  /\ (16 * (b % 16) + c \div 4) \div 16 = b % 16
           /\ (16 * (b % 16) + c \div 4) % 16 = c \div 4
           /\ 4 * (c \div 4) + (c % 4) = c
           /\ c % 4 = 0 => 4 * (c \div 4) = c
<1> DEFINE bl == b % 16
           ch == c \div 4
           cl == c % 4
<1>1. bl \in 0 .. 15 /\ ch \in 0 .. 15 /\ cl \in 0 .. 3 /\ c = 4 * ch + cl
  OBVIOUS
<1> HIDE DEF bl, ch, cl
<1>2. (16 * bl + ch) \div 16 = bl /\ (16 * bl + ch) % 16 = ch
  BY <1>1
<1>3. 4 * ch + cl = c /\ (cl = 0 => 4 * ch = c)
  BY <1>1
<1>4. QED
  BY <1>2, <1>3 DEF bl, ch, cl

LEMMA LastBits ==
    ASSUME NEW c \in 0 .. 63, NEW d \in 0 .. 63
    PROVE  (64 * (c % 4) + d) \div 64 = c % 4 /\ (64 * (c % 4) + d) % 64 = d
<1> DEFINE cl == c % 4
<1>1. cl \in 0 .. 3
  OBVIOUS
<1> HIDE DEF cl
<1>2. (64 * cl + d) \div 64 = cl /\ (64 * cl + d) % 64 = d
  BY <1>1
<1>3. QED
  BY <1>2 DEF cl

\* The places of the letters and the bytes of a group.
LEMMA Places ==
    ASSUME NEW q \in Nat
    PROVE  /\ (4 * q + 1) % 4 = 1 /\ (4 * q + 2) % 4 = 2 /\ (4 * q + 3) % 4 = 3 /\ (4 * q + 4) % 4 = 0
           /\ (4 * q + 1 - 1) \div 4 = q /\ (4 * q + 2 - 1) \div 4 = q
           /\ (4 * q + 3 - 1) \div 4 = q /\ (4 * q + 4 - 1) \div 4 = q
           /\ (3 * q + 1) % 3 = 1 /\ (3 * q + 2) % 3 = 2 /\ (3 * q + 3) % 3 = 0
           /\ (3 * q + 1 - 1) \div 3 = q /\ (3 * q + 2 - 1) \div 3 = q /\ (3 * q + 3 - 1) \div 3 = q
           /\ 4 * q + 1 + 1 = 4 * q + 2 /\ 4 * q + 1 + 2 = 4 * q + 3 /\ 4 * q + 1 + 3 = 4 * q + 4
           /\ 3 * q + 1 + 1 = 3 * q + 2 /\ 3 * q + 1 + 2 = 3 * q + 3
OBVIOUS

LEMMA GroupOfBytes ==
    ASSUME NEW y, NEW q \in Nat
    PROVE  /\ ByteOf(y, 3 * q + 1) = 4 * y[4 * q + 1] + y[4 * q + 2] \div 16
           /\ ByteOf(y, 3 * q + 2) = 16 * (y[4 * q + 2] % 16) + y[4 * q + 3] \div 4
           /\ ByteOf(y, 3 * q + 3) = 64 * (y[4 * q + 3] % 4) + y[4 * q + 4]
<1>1. ByteOf(y, 3 * q + 1) = 4 * y[4 * q + 1] + y[4 * q + 2] \div 16
  BY Places DEF ByteOf
<1>2. ByteOf(y, 3 * q + 2) = 16 * (y[4 * q + 2] % 16) + y[4 * q + 3] \div 4
  BY Places DEF ByteOf
<1>3. ByteOf(y, 3 * q + 3) = 64 * (y[4 * q + 3] % 4) + y[4 * q + 4]
  BY Places DEF ByteOf
<1>4. QED
  BY <1>1, <1>2, <1>3

\* The byte at a place, and 0 behind the end.
ByteAt(bytes, i) == IF i <= Len(bytes) THEN bytes[i] ELSE 0

LEMMA LetterAt ==
    ASSUME NEW bytes, NEW k \in Nat, NEW first, first = 3 * ((k - 1) \div 4) + 1
    PROVE  /\ k % 4 = 1 => Letter(bytes, k) = ByteAt(bytes, first) \div 4
           /\ k % 4 = 2 => Letter(bytes, k) = 16 * (ByteAt(bytes, first) % 4) + ByteAt(bytes, first + 1) \div 16
           /\ k % 4 = 3 => Letter(bytes, k) = IF first + 1 > Len(bytes) THEN Pad
                              ELSE 4 * (ByteAt(bytes, first + 1) % 16) + ByteAt(bytes, first + 2) \div 64
           /\ k % 4 = 0 => Letter(bytes, k) = IF first + 2 > Len(bytes) THEN Pad ELSE ByteAt(bytes, first + 2) % 64
<1>1. CASE k % 4 = 1
  BY <1>1 DEF Letter, ByteAt
<1>2. CASE k % 4 = 2
  BY <1>2 DEF Letter, ByteAt
<1>3. CASE k % 4 = 3
  BY <1>3 DEF Letter, ByteAt
<1>4. CASE k % 4 = 0
  BY <1>4 DEF Letter, ByteAt
<1>5. QED
  BY <1>1, <1>2, <1>3, <1>4

\* The third letter of a group: padding, or the low bits of the second byte and the high ones of the third.
LEMMA ThirdLetter ==
    ASSUME NEW bytes, NEW k \in Nat, NEW first, first = 3 * ((k - 1) \div 4) + 1, k % 4 = 3
    PROVE  Letter(bytes, k) = IF first + 1 > Len(bytes) THEN Pad
                              ELSE 4 * (ByteAt(bytes, first + 1) % 16) + ByteAt(bytes, first + 2) \div 64
BY LetterAt

LEMMA LowBits ==
    ASSUME NEW a \in 0 .. 255
    PROVE  a % 4 \in 0 .. 3 /\ a % 16 \in 0 .. 15 /\ 16 * (a % 4) + 0 = 16 * (a % 4) /\ 4 * (a % 16) + 0 = 4 * (a % 16)
OBVIOUS

LEMMA GroupOfLetters ==
    ASSUME NEW bytes \in Seq(0 .. 255), NEW q \in Nat, 3 * q + 1 <= Len(bytes)
    PROVE  /\ Letter(bytes, 4 * q + 1) = bytes[3 * q + 1] \div 4
           /\ 3 * q + 2 > Len(bytes) =>
                 /\ Letter(bytes, 4 * q + 2) = 16 * (bytes[3 * q + 1] % 4)
                 /\ Letter(bytes, 4 * q + 3) = Pad
           /\ 3 * q + 2 <= Len(bytes) =>
                 Letter(bytes, 4 * q + 2) = 16 * (bytes[3 * q + 1] % 4) + bytes[3 * q + 2] \div 16
           /\ 3 * q + 2 <= Len(bytes) /\ 3 * q + 3 > Len(bytes) =>
                 Letter(bytes, 4 * q + 3) = 4 * (bytes[3 * q + 2] % 16)
           /\ 3 * q + 3 > Len(bytes) => Letter(bytes, 4 * q + 4) = Pad
           /\ 3 * q + 3 <= Len(bytes) =>
                 /\ Letter(bytes, 4 * q + 3) = 4 * (bytes[3 * q + 2] % 16) + bytes[3 * q + 3] \div 64
                 /\ Letter(bytes, 4 * q + 4) = bytes[3 * q + 3] % 64
<1> DEFINE B(i) == ByteAt(bytes, i)
<1>1. /\ Letter(bytes, 4 * q + 1) = B(3 * q + 1) \div 4
      /\ Letter(bytes, 4 * q + 2) = 16 * (B(3 * q + 1) % 4) + B(3 * q + 2) \div 16
      /\ Letter(bytes, 4 * q + 3) = IF 3 * q + 2 > Len(bytes) THEN Pad
                                    ELSE 4 * (B(3 * q + 2) % 16) + B(3 * q + 3) \div 64
      /\ Letter(bytes, 4 * q + 4) = IF 3 * q + 3 > Len(bytes) THEN Pad ELSE B(3 * q + 3) % 64
  <2> DEFINE first == 3 * q + 1
             k1 == 4 * q + 1
             k2 == 4 * q + 2
             k3 == 4 * q + 3
             k4 == 4 * q + 4
  <2>1. first + 1 = 3 * q + 2 /\ first + 2 = 3 * q + 3
    OBVIOUS
  <2>2. k1 \in Nat /\ first = 3 * ((k1 - 1) \div 4) + 1 /\ k1 % 4 = 1
    OBVIOUS
  <2>3. k2 \in Nat /\ first = 3 * ((k2 - 1) \div 4) + 1 /\ k2 % 4 = 2
    OBVIOUS
  <2>4. k3 \in Nat /\ first = 3 * ((k3 - 1) \div 4) + 1 /\ k3 % 4 = 3
    OBVIOUS
  <2>5. k4 \in Nat /\ first = 3 * ((k4 - 1) \div 4) + 1 /\ k4 % 4 = 0
    OBVIOUS
  <2> HIDE DEF first, k1, k2, k3, k4, B
  <2>6. Letter(bytes, k1) = B(first) \div 4
    BY <2>2, LetterAt, ZenonT(60) DEF B
  <2>7. Letter(bytes, k2) = 16 * (B(first) % 4) + B(first + 1) \div 16
    BY <2>3, LetterAt, ZenonT(60) DEF B
  <2>8. Letter(bytes, k3) = IF first + 1 > Len(bytes) THEN Pad
                            ELSE 4 * (B(first + 1) % 16) + B(first + 2) \div 64
    <3>1. Letter(bytes, k3) = IF first + 1 > Len(bytes) THEN Pad
                    ELSE 4 * (ByteAt(bytes, first + 1) % 16) + ByteAt(bytes, first + 2) \div 64
      BY <2>4, ThirdLetter, ZenonT(60)
    <3>2. QED
      BY <3>1, Zenon DEF B
  <2>9. Letter(bytes, k4) = IF first + 2 > Len(bytes) THEN Pad ELSE B(first + 2) % 64
    BY <2>5, LetterAt, ZenonT(60) DEF B
  <2>10. QED
    BY <2>1, <2>6, <2>7, <2>8, <2>9, Zenon DEF first, k1, k2, k3, k4
<1>2. Len(bytes) \in Nat /\ \A i \in 1 .. Len(bytes) : bytes[i] \in 0 .. 255
  BY Elements
<1>2a. bytes[3 * q + 1] \in 0 .. 255 /\ (3 * q + 2 <= Len(bytes) => bytes[3 * q + 2] \in 0 .. 255)
  <2>1. 3 * q + 1 \in 1 .. Len(bytes) /\ (3 * q + 2 <= Len(bytes) => 3 * q + 2 \in 1 .. Len(bytes))
    BY <1>2
  <2>2. QED
    BY <1>2, <2>1
<1>3. /\ B(3 * q + 1) = bytes[3 * q + 1]
      /\ 3 * q + 2 > Len(bytes) => B(3 * q + 2) = 0 /\ B(3 * q + 3) = 0
      /\ 3 * q + 2 <= Len(bytes) => B(3 * q + 2) = bytes[3 * q + 2]
      /\ 3 * q + 3 > Len(bytes) => B(3 * q + 3) = 0
      /\ 3 * q + 3 <= Len(bytes) => B(3 * q + 3) = bytes[3 * q + 3] /\ 3 * q + 2 <= Len(bytes)
  BY <1>2 DEF ByteAt
<1> HIDE DEF B
<1>4. ~(3 * q + 2 <= Len(bytes) /\ 3 * q + 2 > Len(bytes)) /\ ~(3 * q + 3 <= Len(bytes) /\ 3 * q + 3 > Len(bytes))
      /\ 0 \div 16 = 0 /\ 0 \div 64 = 0 /\ (3 * q + 2 > Len(bytes) \/ 3 * q + 2 <= Len(bytes))
  BY <1>2
<1>5. /\ 16 * (bytes[3 * q + 1] % 4) + 0 = 16 * (bytes[3 * q + 1] % 4)
      /\ 3 * q + 2 <= Len(bytes) => 4 * (bytes[3 * q + 2] % 16) + 0 = 4 * (bytes[3 * q + 2] % 16)
  BY <1>2a, LowBits
<1>6. QED
  BY <1>1, <1>3, <1>4, <1>5

\* A group of four letters whose three bytes came out is their encoding.
LEMMA GroupEncodes ==
    ASSUME NEW y, NEW output \in Seq(0 .. 255), NEW q \in Nat, 3 * q + 3 <= Len(output),
           \A j \in 1 .. Len(output) : output[j] = ByteOf(y, j),
           y[4 * q + 1] \in 0 .. 63, y[4 * q + 2] \in 0 .. 63, y[4 * q + 3] \in 0 .. 63, y[4 * q + 4] \in 0 .. 63
    PROVE  /\ Letter(output, 4 * q + 1) = y[4 * q + 1] /\ Letter(output, 4 * q + 2) = y[4 * q + 2]
           /\ Letter(output, 4 * q + 3) = y[4 * q + 3] /\ Letter(output, 4 * q + 4) = y[4 * q + 4]
<1> DEFINE L == Len(output)
<1>1. L \in Nat
  BY Elements
<1>2. 3 * q + 1 \in 1 .. L /\ 3 * q + 2 \in 1 .. L /\ 3 * q + 3 \in 1 .. L
  BY <1>1
<1>3. /\ output[3 * q + 1] = 4 * y[4 * q + 1] + y[4 * q + 2] \div 16
      /\ output[3 * q + 2] = 16 * (y[4 * q + 2] % 16) + y[4 * q + 3] \div 4
      /\ output[3 * q + 3] = 64 * (y[4 * q + 3] % 4) + y[4 * q + 4]
  BY <1>2, GroupOfBytes
<1>4. 3 * q + 1 <= L /\ 3 * q + 2 <= L /\ 3 * q + 3 <= L
  BY <1>2
<1>5. /\ Letter(output, 4 * q + 1) = output[3 * q + 1] \div 4
      /\ Letter(output, 4 * q + 2) = 16 * (output[3 * q + 1] % 4) + output[3 * q + 2] \div 16
      /\ Letter(output, 4 * q + 3) = 4 * (output[3 * q + 2] % 16) + output[3 * q + 3] \div 64
      /\ Letter(output, 4 * q + 4) = output[3 * q + 3] % 64
  BY <1>4, GroupOfLetters
<1> DEFINE a == y[4 * q + 1]
           b == y[4 * q + 2]
           c == y[4 * q + 3]
           d == y[4 * q + 4]
<1>6. a \in 0 .. 63 /\ b \in 0 .. 63 /\ c \in 0 .. 63 /\ d \in 0 .. 63
  OBVIOUS
<1> HIDE DEF a, b, c, d
<1>7. /\ (4 * a + b \div 16) \div 4 = a
      /\ 16 * ((4 * a + b \div 16) % 4) + (16 * (b % 16) + c \div 4) \div 16 = b
      /\ 4 * ((16 * (b % 16) + c \div 4) % 16) + (64 * (c % 4) + d) \div 64 = c
      /\ (64 * (c % 4) + d) % 64 = d
  <2>1. (4 * a + b \div 16) \div 4 = a /\ (4 * a + b \div 16) % 4 = b \div 16 /\ 16 * (b \div 16) + (b % 16) = b
    BY <1>6, FirstBits
  <2>2. /\ (16 * (b % 16) + c \div 4) \div 16 = b % 16 /\ (16 * (b % 16) + c \div 4) % 16 = c \div 4
        /\ 4 * (c \div 4) + (c % 4) = c
    BY <1>6, MiddleBits
  <2>3. (64 * (c % 4) + d) \div 64 = c % 4 /\ (64 * (c % 4) + d) % 64 = d
    BY <1>6, LastBits
  <2>4. QED
    BY <2>1, <2>2, <2>3, Zenon
<1>8. QED
  BY <1>3, <1>5, <1>7, Zenon DEF a, b, c, d

\* Two letters of one byte, with no bits left over, and three of two bytes.
LEMMA TailEncodes ==
    ASSUME NEW y, NEW output \in Seq(0 .. 255), NEW q \in Nat,
           \A j \in 1 .. Len(output) : output[j] = ByteOf(y, j),
           y[4 * q + 1] \in 0 .. 63, y[4 * q + 2] \in 0 .. 63
    PROVE  /\ Len(output) = 3 * q + 1 /\ y[4 * q + 2] % 16 = 0 /\ y[4 * q + 3] \in Nat =>
                 /\ Letter(output, 4 * q + 1) = y[4 * q + 1] /\ Letter(output, 4 * q + 2) = y[4 * q + 2]
                 /\ Letter(output, 4 * q + 3) = Pad /\ Letter(output, 4 * q + 4) = Pad
           /\ Len(output) = 3 * q + 2 /\ y[4 * q + 3] \in 0 .. 63 /\ y[4 * q + 3] % 4 = 0 =>
                 /\ Letter(output, 4 * q + 1) = y[4 * q + 1] /\ Letter(output, 4 * q + 2) = y[4 * q + 2]
                 /\ Letter(output, 4 * q + 3) = y[4 * q + 3] /\ Letter(output, 4 * q + 4) = Pad
<1> DEFINE L == Len(output)
<1>1. L \in Nat
  BY Elements
<1> DEFINE a == y[4 * q + 1]
           b == y[4 * q + 2]
           c == y[4 * q + 3]
<1>2. a \in 0 .. 63 /\ b \in 0 .. 63
  OBVIOUS
<1> HIDE DEF a, b, c
<1>3. CASE L = 3 * q + 1 /\ y[4 * q + 2] % 16 = 0 /\ y[4 * q + 3] \in Nat
  <2>1. 3 * q + 1 \in 1 .. L /\ 3 * q + 1 <= L /\ 3 * q + 2 > L /\ 3 * q + 3 > L /\ L # 3 * q + 2
    BY <1>1, <1>3
  <2>2. output[3 * q + 1] = 4 * y[4 * q + 1] + y[4 * q + 2] \div 16
    BY <2>1, GroupOfBytes
  <2>3. /\ Letter(output, 4 * q + 1) = output[3 * q + 1] \div 4
        /\ Letter(output, 4 * q + 2) = 16 * (output[3 * q + 1] % 4)
        /\ Letter(output, 4 * q + 3) = Pad /\ Letter(output, 4 * q + 4) = Pad
    BY <2>1, GroupOfLetters
  <2>4. b % 16 = 0 => 16 * ((4 * a + b \div 16) % 4) = b /\ (4 * a + b \div 16) \div 4 = a
    BY <1>2, FirstBits, SMTT(30)
  <2>5. QED
    BY <1>3, <2>1, <2>2, <2>3, <2>4, Zenon DEF a, b
<1>4. CASE L = 3 * q + 2 /\ y[4 * q + 3] \in 0 .. 63 /\ y[4 * q + 3] % 4 = 0
  <2>1. 3 * q + 1 \in 1 .. L /\ 3 * q + 2 \in 1 .. L /\ 3 * q + 1 <= L /\ 3 * q + 2 <= L /\ 3 * q + 3 > L
        /\ L # 3 * q + 1
    BY <1>1, <1>4
  <2>2. /\ output[3 * q + 1] = 4 * y[4 * q + 1] + y[4 * q + 2] \div 16
        /\ output[3 * q + 2] = 16 * (y[4 * q + 2] % 16) + y[4 * q + 3] \div 4
    BY <2>1, GroupOfBytes
  <2>3. /\ Letter(output, 4 * q + 1) = output[3 * q + 1] \div 4
        /\ Letter(output, 4 * q + 2) = 16 * (output[3 * q + 1] % 4) + output[3 * q + 2] \div 16
        /\ Letter(output, 4 * q + 3) = 4 * (output[3 * q + 2] % 16)
        /\ Letter(output, 4 * q + 4) = Pad
    BY <2>1, GroupOfLetters
  <2>4. c \in 0 .. 63
    BY <1>4 DEF c
  <2>5. /\ (4 * a + b \div 16) \div 4 = a
        /\ 16 * ((4 * a + b \div 16) % 4) + (16 * (b % 16) + c \div 4) \div 16 = b
        /\ c % 4 = 0 => 4 * ((16 * (b % 16) + c \div 4) % 16) = c
    <3>1. (4 * a + b \div 16) \div 4 = a /\ (4 * a + b \div 16) % 4 = b \div 16 /\ 16 * (b \div 16) + (b % 16) = b
      BY <1>2, FirstBits
    <3>2. /\ (16 * (b % 16) + c \div 4) \div 16 = b % 16 /\ (16 * (b % 16) + c \div 4) % 16 = c \div 4
          /\ c % 4 = 0 => 4 * (c \div 4) = c
      BY <1>2, <2>4, MiddleBits
    <3>3. QED
      BY <3>1, <3>2, Zenon
  <2>6. QED
    BY <1>4, <2>1, <2>2, <2>3, <2>5, Zenon DEF a, b, c
<1>5. QED
  BY <1>3, <1>4

\* The place of a symbol in its group.
LEMMA InGroup ==
    ASSUME NEW k \in Nat, k >= 1
    PROVE  \E q \in Nat : k = 4 * q + 1 \/ k = 4 * q + 2 \/ k = 4 * q + 3 \/ k = 4 * q + 4
<1>1. /\ (k - 1) \div 4 \in Nat
      /\ \/ k = 4 * ((k - 1) \div 4) + 1 \/ k = 4 * ((k - 1) \div 4) + 2
         \/ k = 4 * ((k - 1) \div 4) + 3 \/ k = 4 * ((k - 1) \div 4) + 4
  OBVIOUS
<1>2. QED
  BY <1>1

\* Symbols that end well are the encoding of what came out.
LEMMA EndEncodes ==
    ASSUME NEW y, NEW s, NEW maximum \in Nat, Reads(y, s, maximum), WellPadded(s)
    PROVE  /\ s.symbols = 4 * ((Len(s.output) + 2) \div 3)
           /\ \A k \in 1 .. s.symbols : y[k] = Letter(s.output, k)
<1> DEFINE n == s.symbols
           p == s.padding
           m == n - p
           L == Len(s.output)
<1>1. /\ n \in Nat /\ p \in {0, 1, 2} /\ s.output \in Seq(0 .. 255)
      /\ ReadLetters(y, m, s.output, s.bits, s.rest)
      /\ \A k \in m + 1 .. n : y[k] = Pad
  BY DEF Reads, LoopStates
<1>2. /\ m \in Nat /\ L = (3 * m) \div 4
      /\ \A k \in 1 .. m : y[k] \in 0 .. 63
      /\ BitsLeft(y, m, s.bits, s.rest)
      /\ \A j \in 1 .. L : s.output[j] = ByteOf(y, j)
  BY <1>1 DEF ReadLetters
<1>3. n = m + p
  BY <1>1
<1>4. n % 4 = 0 /\ s.bits # 6 /\ s.rest = 0 /\ (p = 1 => s.bits = 2) /\ (p = 2 => s.bits = 4)
  BY DEF WellPadded
<1> HIDE DEF n, p, m, L
<1>5. PICK g \in Nat :
          /\ m % 4 \in {0, 1, 2, 3}
          /\ m % 4 = 0 => m = 4 * g /\ (3 * m) \div 4 = 3 * g
          /\ m % 4 = 1 => m = 4 * g + 1
          /\ m % 4 = 2 => m = 4 * g + 2 /\ (3 * m) \div 4 = 3 * g + 1
          /\ m % 4 = 3 => m = 4 * g + 3 /\ (3 * m) \div 4 = 3 * g + 2
  BY <1>2, FourAndThree
<1>6. \/ m = 4 * g /\ p = 0 /\ L = 3 * g
      \/ m = 4 * g + 2 /\ p = 2 /\ L = 3 * g + 1 /\ y[m] % 16 = 0
      \/ m = 4 * g + 3 /\ p = 1 /\ L = 3 * g + 2 /\ y[m] % 4 = 0
  <2>1. CASE m % 4 = 0
    <3>1. s.bits = 0
      BY <1>2, <2>1 DEF BitsLeft
    <3>2. QED
      BY <1>1, <1>2, <1>4, <1>5, <2>1, <3>1
  <2>2. CASE m % 4 = 1
    BY <1>2, <1>4, <2>2 DEF BitsLeft
  <2>3. CASE m % 4 = 2
    <3>1. s.bits = 4 /\ s.rest = y[m] % 16
      BY <1>2, <2>3 DEF BitsLeft
    <3>2. p # 0
      BY <1>2, <1>3, <1>4, <2>3
    <3>3. QED
      BY <1>1, <1>2, <1>4, <1>5, <2>3, <3>1, <3>2
  <2>4. CASE m % 4 = 3
    <3>1. s.bits = 2 /\ s.rest = y[m] % 4
      BY <1>2, <2>4 DEF BitsLeft
    <3>2. p # 0
      BY <1>2, <1>3, <1>4, <2>4
    <3>3. QED
      BY <1>1, <1>2, <1>4, <1>5, <2>4, <3>1, <3>2
  <2>5. QED
    BY <1>5, <2>1, <2>2, <2>3, <2>4
<1>7. n = 4 * ((L + 2) \div 3)
  <2>1. (3 * g + 2) \div 3 = g /\ (3 * g + 1 + 2) \div 3 = g + 1 /\ (3 * g + 2 + 2) \div 3 = g + 1
    OBVIOUS
  <2>2. QED
    BY <1>3, <1>6, <2>1
<1>8. ASSUME NEW k \in 1 .. n PROVE y[k] = Letter(s.output, k)
  <2>1. k \in Nat /\ k >= 1 /\ k <= n
    BY <1>1
  <2>2. PICK q \in Nat : k = 4 * q + 1 \/ k = 4 * q + 2 \/ k = 4 * q + 3 \/ k = 4 * q + 4
    BY <2>1, InGroup
  <2>3. CASE q < g
    <3>1. /\ 4 * q + 1 \in 1 .. m /\ 4 * q + 2 \in 1 .. m /\ 4 * q + 3 \in 1 .. m /\ 4 * q + 4 \in 1 .. m
          /\ 3 * q + 3 <= L
      BY <1>6, <2>3
    <3>2. /\ Letter(s.output, 4 * q + 1) = y[4 * q + 1] /\ Letter(s.output, 4 * q + 2) = y[4 * q + 2]
          /\ Letter(s.output, 4 * q + 3) = y[4 * q + 3] /\ Letter(s.output, 4 * q + 4) = y[4 * q + 4]
      BY <1>1, <1>2, <3>1, GroupEncodes DEF L
    <3>3. QED
      BY <2>2, <3>2
  <2>4. CASE q >= g
    <3>1. CASE m = 4 * g /\ p = 0
      BY <1>3, <2>1, <2>2, <2>4, <3>1
    <3>2. CASE m = 4 * g + 2 /\ p = 2 /\ L = 3 * g + 1 /\ y[m] % 16 = 0
      <4>1. q = g
        BY <1>3, <2>1, <2>2, <2>4, <3>2
      <4>2. /\ 4 * q + 1 \in 1 .. m /\ 4 * q + 2 \in 1 .. m /\ 4 * q + 3 \in m + 1 .. n /\ 4 * q + 4 \in m + 1 .. n
            /\ m = 4 * q + 2 /\ L = 3 * q + 1
        BY <1>3, <3>2, <4>1
      <4>3. /\ y[4 * q + 1] \in 0 .. 63 /\ y[4 * q + 2] \in 0 .. 63 /\ y[4 * q + 3] = Pad /\ y[4 * q + 4] = Pad
            /\ y[4 * q + 2] % 16 = 0
        BY <1>1, <1>2, <3>2, <4>2
      <4>4. y[4 * q + 3] \in Nat
        BY <4>3 DEF Pad
      <4>5. /\ Letter(s.output, 4 * q + 1) = y[4 * q + 1] /\ Letter(s.output, 4 * q + 2) = y[4 * q + 2]
            /\ Letter(s.output, 4 * q + 3) = Pad /\ Letter(s.output, 4 * q + 4) = Pad
        <5>1. /\ s.output \in Seq(0 .. 255) /\ Len(s.output) = 3 * q + 1
              /\ \A j \in 1 .. Len(s.output) : s.output[j] = ByteOf(y, j)
          BY <1>1, <1>2, <4>2 DEF L
        <5>2. QED
          BY <4>3, <4>4, <5>1, TailEncodes
      <4>6. QED
        BY <2>2, <4>3, <4>5
    <3>3. CASE m = 4 * g + 3 /\ p = 1 /\ L = 3 * g + 2 /\ y[m] % 4 = 0
      <4>1. q = g
        BY <1>3, <2>1, <2>2, <2>4, <3>3
      <4>2. /\ 4 * q + 1 \in 1 .. m /\ 4 * q + 2 \in 1 .. m /\ 4 * q + 3 \in 1 .. m /\ 4 * q + 4 \in m + 1 .. n
            /\ m = 4 * q + 3 /\ L = 3 * q + 2
        BY <1>3, <3>3, <4>1
      <4>3. /\ y[4 * q + 1] \in 0 .. 63 /\ y[4 * q + 2] \in 0 .. 63 /\ y[4 * q + 3] \in 0 .. 63 /\ y[4 * q + 4] = Pad
            /\ y[4 * q + 3] % 4 = 0
        BY <1>1, <1>2, <3>3, <4>2
      <4>4. /\ Letter(s.output, 4 * q + 1) = y[4 * q + 1] /\ Letter(s.output, 4 * q + 2) = y[4 * q + 2]
            /\ Letter(s.output, 4 * q + 3) = y[4 * q + 3] /\ Letter(s.output, 4 * q + 4) = Pad
        <5>1. /\ s.output \in Seq(0 .. 255) /\ Len(s.output) = 3 * q + 2
              /\ \A j \in 1 .. Len(s.output) : s.output[j] = ByteOf(y, j)
          BY <1>1, <1>2, <4>2 DEF L
        <5>2. QED
          BY <4>3, <5>1, TailEncodes
      <4>5. QED
        BY <2>2, <4>3, <4>4
    <3>4. QED
      BY <1>6, <3>1, <3>2, <3>3
  <2>5. QED
    BY <2>3, <2>4
<1>9. QED
  BY <1>7, <1>8 DEF n, L

\* One step: a character that is the next symbol of y.
LEMMA StepReads ==
    ASSUME NEW y, NEW s, NEW maximum \in Nat, Reads(y, s, maximum), NEW ch \in Alphabet,
           ch # Space => y[s.symbols + 1] = ch
    PROVE  LET t == Step(s, ch, maximum) IN
           /\ ch = Space => t = s
           /\ ch # Space /\ t.error = "none" => Reads(y, t, maximum) /\ t.symbols = s.symbols + 1
           /\ ch = Pad /\ s.padding # 2 => t.error = "none"
           /\ ch \in 0 .. 63 /\ s.padding = 0 /\ (s.bits = 0 \/ Len(s.output) < maximum) => t.error = "none"
<1> DEFINE t == Step(s, ch, maximum)
<1>1. s \in LoopStates /\ s.error = "none" /\ s.padding \in {0, 1, 2} /\ s.symbols \in Nat
  BY DEF Reads, LoopStates
<1>2. CASE ch = Space
  <2>1. t = s
    BY <1>2 DEF Step
  <2>2. ch # Pad /\ ch \notin 0 .. 63
    BY <1>2 DEF Space, Pad
  <2>3. QED
    BY <1>2, <2>1, <2>2
<1>3. CASE ch = Pad
  <2>1. ch # Space /\ ch \notin 0 .. 63
    BY <1>3 DEF Space, Pad
  <2>2. CASE s.padding = 2
    <3>1. t = [s EXCEPT !.error = "invalid padding"]
      BY <1>1, <1>3, <2>1, <2>2 DEF Step
    <3> HIDE DEF t
    <3>2. t.error = "invalid padding"
      BY <1>1, <3>1 DEF LoopStates
    <3>3. QED
      BY <2>1, <2>2, <3>2 DEF t
  <2>3. CASE s.padding # 2
    <3>1. t = [s EXCEPT !.symbols = @ + 1, !.padding = @ + 1]
      BY <1>1, <1>3, <2>1, <2>3 DEF Step
    <3>2. Reads(y, [s EXCEPT !.symbols = @ + 1, !.padding = @ + 1], maximum)
      BY <1>3, <2>1, <2>3, PadReads
    <3> HIDE DEF t
    <3>3. Reads(y, t, maximum)
      BY <3>1, <3>2
    <3>4. t.symbols = s.symbols + 1 /\ t.error = "none"
      BY <1>1, <3>1 DEF LoopStates
    <3>5. QED
      BY <2>1, <3>3, <3>4 DEF t
  <2>4. QED
    BY <2>2, <2>3
<1>4. CASE ch # Space /\ ch # Pad /\ (s.padding > 0 \/ ~IsLetter(ch))
  <2>1. t = [s EXCEPT !.error = "invalid characters"]
    BY <1>1, <1>4 DEF Step
  <2>2. ~(ch \in 0 .. 63 /\ s.padding = 0)
    BY <1>1, <1>4 DEF IsLetter
  <2> HIDE DEF t
  <2>3. t.error = "invalid characters"
    BY <1>1, <2>1 DEF LoopStates
  <2>4. QED
    BY <1>4, <2>2, <2>3 DEF t
<1>5. CASE ch # Space /\ ch # Pad /\ ~(s.padding > 0 \/ ~IsLetter(ch))
  <2>1. ch \in 0 .. 63 /\ s.padding = 0 /\ y[s.symbols + 1] = ch
    BY <1>1, <1>5 DEF IsLetter
  <2>2. t = PutLetter(s, y[s.symbols + 1], maximum)
    BY <1>1, <1>5, <2>1 DEF Step
  <2>3. LET u == PutLetter(s, y[s.symbols + 1], maximum) IN
        /\ u.error = "none" => Reads(y, u, maximum) /\ u.symbols = s.symbols + 1
        /\ s.bits = 0 \/ Len(s.output) < maximum => u.error = "none"
    BY <2>1, LetterReads
  <2> HIDE DEF t
  <2>4. /\ t.error = "none" => Reads(y, t, maximum) /\ t.symbols = s.symbols + 1
        /\ s.bits = 0 \/ Len(s.output) < maximum => t.error = "none"
    BY <2>2, <2>3
  <2>5. QED
    BY <1>5, <2>4 DEF t
<1>6. QED
  BY <1>2, <1>3, <1>4, <1>5

\* After an error nothing is read.
LEMMA ErrorStays ==
    ASSUME NEW s, s.error # "none", NEW ch, NEW maximum
    PROVE  Step(s, ch, maximum) = s
BY DEF Step

\* The symbols of c are, one after another, those of y.
Follows(c, y) == \A i \in 1 .. Len(c) : c[i] # Space => y[Written(c, i)] = c[i]

\* After i characters without an error the symbols are those written up to there.
LEMMA RunReads ==
    ASSUME NEW c \in Seq(Alphabet), NEW maximum \in Nat, NEW f, Runs(f, c, maximum), NEW y, Follows(c, y)
    PROVE  \A i \in 0 .. Len(c) :
               f[i].error # "none" \/ (Reads(y, f[i], maximum) /\ f[i].symbols = Written(c, i))
<1> DEFINE P(i) == f[i].error # "none" \/ (Reads(y, f[i], maximum) /\ f[i].symbols = Written(c, i))
           bad == {i \in 0 .. Len(c) : ~P(i)}
<1>0. Len(c) \in Nat /\ \A i \in 1 .. Len(c) : c[i] \in Alphabet
  BY Elements
<1>1. bad = {}
  <2> SUFFICES ASSUME bad # {} PROVE FALSE
    OBVIOUS
  <2>1. bad \in SUBSET Nat
    BY <1>0
  <2>2. PICK i \in bad : \A k \in bad : i <= k
    <3> HIDE DEF bad
    <3>1. QED
      BY <2>1, Least
  <2>3. i \in 0 .. Len(c) /\ i \in Nat /\ ~P(i)
    BY <2>1, <2>2
  <2>4. i # 0
    <3>1. f[0] = Started
      BY <1>0 DEF Runs
    <3>2. Written(c, 0) = 0
      BY WrittenStep
    <3>3. P(0)
      BY <3>1, <3>2, StartedReads
    <3> HIDE DEF P
    <3>4. QED
      BY <2>3, <3>3
  <2>5. i - 1 \in 0 .. Len(c) /\ i - 1 \in Nat /\ i - 1 + 1 = i /\ ~(i <= i - 1) /\ i \in 1 .. Len(c)
    BY <2>3, <2>4
  <2>6. P(i - 1)
    <3>1. i - 1 \notin bad
      <4> HIDE DEF bad
      <4>1. QED
        BY <2>2, <2>5
    <3> HIDE DEF P
    <3>2. QED
      BY <2>5, <3>1
  <2>7. f[i] = Step(f[i - 1], c[i], maximum)
    BY <2>3, <2>4 DEF Runs
  <2>8. Written(c, i) = IF c[i] = Space THEN Written(c, i - 1) ELSE Written(c, i - 1) + 1
    <3>1. Written(c, i - 1 + 1) = IF c[i - 1 + 1] = Space THEN Written(c, i - 1) ELSE Written(c, i - 1) + 1
      BY <2>5, WrittenStep
    <3>2. QED
      BY <2>5, <3>1
  <2>9. CASE f[i - 1].error # "none"
    <3>1. f[i] = f[i - 1]
      BY <2>7, <2>9, ErrorStays
    <3>2. QED
      BY <2>3, <2>9, <3>1
  <2>10. CASE Reads(y, f[i - 1], maximum) /\ f[i - 1].symbols = Written(c, i - 1)
    <3>1. c[i] \in Alphabet /\ (c[i] # Space => y[f[i - 1].symbols + 1] = c[i])
      BY <1>0, <2>5, <2>8, <2>10 DEF Follows
    <3>2. /\ c[i] = Space => f[i] = f[i - 1]
          /\ c[i] # Space /\ f[i].error = "none" =>
                Reads(y, f[i], maximum) /\ f[i].symbols = f[i - 1].symbols + 1
      BY <2>7, <2>10, <3>1, StepReads
    <3>3. P(i)
      BY <2>8, <2>10, <3>2
    <3> HIDE DEF P
    <3>4. QED
      BY <2>3, <3>3
  <2> HIDE DEF bad
  <2>11. QED
    BY <2>6, <2>9, <2>10
<1>2. QED
  BY <1>1

\* DecodeBase64 accepts nothing but encodings: white space apart, an accepted text is the
\* encoding of the bytes that come out, which are as many as allowed.
THEOREM AcceptedIsEncoded ==
    ASSUME NEW text, text.characters \in Seq(Alphabet), NEW maximum \in Nat,
           DecodeBase64(text, maximum).error = "none"
    PROVE  LET bytes == DecodeBase64(text, maximum).output IN
           /\ bytes \in Seq(0 .. 255) /\ Len(bytes) \in 1 .. maximum
           /\ Encodes(text.characters, bytes)
<1> DEFINE c == text.characters
           result == DecodeBase64(text, maximum)
<1>1. PICK f : /\ Runs(f, c, maximum)
               /\ result =
                        IF text.prefix = "data:" THEN Error("not Base64")
                        ELSE IF Len(c) > EncodedLimit(maximum) THEN Error("too large")
                        ELSE LET s == f[Len(c)] IN
                             IF s.error # "none" THEN Error(s.error)
                             ELSE IF s.output = <<>> THEN Error("empty")
                             ELSE IF ~WellPadded(s) THEN Error("invalid padding")
                             ELSE [error |-> "none", output |-> s.output]
  BY DecodeIs
<1> DEFINE s == f[Len(c)]
           y == Symbols(c)
<1>2. c \in Seq(Alphabet) /\ result.error = "none"
  OBVIOUS
<1> HIDE DEF c, result
<1>3. s.error = "none" /\ s.output # <<>> /\ WellPadded(s) /\ result.output = s.output
  <2>1. \A e : Error(e).error = e
    BY DEF Error
  <2>2. result # Error("not Base64") /\ result # Error("too large") /\ result # Error("empty")
        /\ result # Error("invalid padding")
    <3>1. /\ Error("not Base64").error = "not Base64" /\ Error("too large").error = "too large"
          /\ Error("empty").error = "empty" /\ Error("invalid padding").error = "invalid padding"
      BY <2>1
    <3>2. QED
      BY <1>2, <3>1
  <2>3. s.error = "none"
    BY <1>1, <1>2, <2>1, <2>2
  <2>4. QED
    BY <1>1, <2>2, <2>3
<1>4. Len(c) \in Nat /\ Follows(c, y)
  BY <1>2, SymbolIs, Elements DEF Follows
<1> HIDE DEF y
<1>5. Reads(y, s, maximum) /\ s.symbols = Written(c, Len(c))
  <2>1. Len(c) \in 0 .. Len(c)
    BY <1>4
  <2>2. \A i \in 0 .. Len(c) : f[i].error # "none" \/ (Reads(y, f[i], maximum) /\ f[i].symbols = Written(c, i))
    <3>1. Runs(f, c, maximum)
      BY <1>1
    <3>2. QED
      BY <1>2, <1>4, <3>1, RunReads
  <2>3. QED
    BY <1>3, <2>1, <2>2
<1> DEFINE b == s.output
<1>6. /\ s.symbols = 4 * ((Len(b) + 2) \div 3)
      /\ \A k \in 1 .. s.symbols : y[k] = Letter(b, k)
  BY <1>3, <1>5, EndEncodes
<1>7. b \in Seq(0 .. 255) /\ Len(b) <= maximum
  BY <1>5 DEF Reads, LoopStates
<1> HIDE DEF b
<1>8. Len(b) \in 1 .. maximum
  <2>1. b # <<>>
    BY <1>3 DEF b
  <2>2. Len(b) \in Nat /\ Len(b) # 0
    BY <1>7, <2>1
  <2>3. QED
    BY <1>7, <2>2
<1>9. Encodes(c, b)
  <2>1. Len(Encode(b)) = 4 * ((Len(b) + 2) \div 3) /\ \A k \in 1 .. 4 * ((Len(b) + 2) \div 3) : Encode(b)[k] = Letter(b, k)
    <3>1. 4 * ((Len(b) + 2) \div 3) \in Nat
      BY <1>8
    <3>2. QED
      BY <3>1 DEF Encode
  <2>2. ASSUME NEW i \in DOMAIN c, c[i] # Space PROVE c[i] = Encode(b)[Written(c, i)]
    <3>1. i \in 1 .. Len(c)
      BY <1>2
    <3>2. Written(c, i) \in 1 .. s.symbols /\ y[Written(c, i)] = c[i]
      BY <1>2, <1>5, <2>2, <3>1, SymbolIs DEF y
    <3>3. QED
      BY <1>6, <2>1, <3>2
  <2>3. QED
    BY <1>5, <1>6, <2>1, <2>2 DEF Encodes
<1>10. QED
  BY <1>3, <1>7, <1>8, <1>9 DEF c, result, b

------------------------------------------------------------------------------
(* Base64: an encoding is read.                                            *)

\* The bits of two bytes behind one another.
HighBits(a, b) ==
    /\ a \div 4 \in 0 .. 63 /\ 16 * (a % 4) + b \div 16 \in 0 .. 63
    /\ 4 * (a \div 4) + (16 * (a % 4) + b \div 16) \div 16 = a
    /\ (16 * (a % 4) + b \div 16) % 16 = b \div 16
    /\ 16 * (b \div 16) + (b % 16) = b

LowerBits(b, c) ==
    /\ 4 * (b % 16) + c \div 64 \in 0 .. 63
    /\ (4 * (b % 16) + c \div 64) \div 4 = b % 16
    /\ (4 * (b % 16) + c \div 64) % 4 = c \div 64
    /\ c % 64 \in 0 .. 63
    /\ 64 * (c \div 64) + (c % 64) = c

LEMMA BitsOfBytes ==
    ASSUME NEW a \in 0 .. 255, NEW b \in 0 .. 255
    PROVE  HighBits(a, b) /\ LowerBits(a, b)
<1>1. /\ a \div 4 \in 0 .. 63 /\ a % 4 \in 0 .. 3 /\ 4 * (a \div 4) + (a % 4) = a
      /\ b \div 16 \in 0 .. 15 /\ 16 * (b \div 16) + (b % 16) = b
  OBVIOUS
<1>2. a % 16 \in 0 .. 15 /\ b \div 64 \in 0 .. 3 /\ b % 64 \in 0 .. 63 /\ 64 * (b \div 64) + (b % 64) = b
  OBVIOUS
<1>3. /\ 16 * (a % 4) + b \div 16 \in 0 .. 63
      /\ (16 * (a % 4) + b \div 16) \div 16 = a % 4
      /\ (16 * (a % 4) + b \div 16) % 16 = b \div 16
  <2> DEFINE l == a % 4
             h == b \div 16
  <2>1. l \in 0 .. 3 /\ h \in 0 .. 15
    BY <1>1
  <2> HIDE DEF l, h
  <2>2. 16 * l + h \in 0 .. 63 /\ (16 * l + h) \div 16 = l /\ (16 * l + h) % 16 = h
    BY <2>1
  <2>3. QED
    BY <2>2, Zenon DEF l, h
<1>4. 4 * (a \div 4) + (16 * (a % 4) + b \div 16) \div 16 = a
  BY <1>1, <1>3, Zenon
<1>5. HighBits(a, b)
  BY <1>1, <1>3, <1>4, Zenon DEF HighBits
<1>6. /\ 4 * (a % 16) + b \div 64 \in 0 .. 63
      /\ (4 * (a % 16) + b \div 64) \div 4 = a % 16
      /\ (4 * (a % 16) + b \div 64) % 4 = b \div 64
  <2> DEFINE l == a % 16
             h == b \div 64
  <2>1. l \in 0 .. 15 /\ h \in 0 .. 3
    BY <1>2
  <2> HIDE DEF l, h
  <2>2. 4 * l + h \in 0 .. 63 /\ (4 * l + h) \div 4 = l /\ (4 * l + h) % 4 = h
    BY <2>1
  <2>3. QED
    BY <2>2, Zenon DEF l, h
<1>7. LowerBits(a, b)
  BY <1>2, <1>6, Zenon DEF LowerBits
<1>8. QED
  BY <1>5, <1>7

\* Bytes behind which nothing follows.
LEMMA EndBits ==
    ASSUME NEW a \in 0 .. 255
    PROVE  /\ a \div 4 \in 0 .. 63
           /\ 16 * (a % 4) \in 0 .. 63 /\ (16 * (a % 4)) % 16 = 0
           /\ 4 * (a \div 4) + (16 * (a % 4)) \div 16 = a
           /\ 4 * (a % 16) \in 0 .. 63 /\ (4 * (a % 16)) % 4 = 0 /\ (4 * (a % 16)) \div 4 = a % 16
<1> DEFINE ah == a \div 4
           al == a % 4
           l == a % 16
<1>1. ah \in 0 .. 63 /\ al \in 0 .. 3 /\ a = 4 * ah + al /\ l \in 0 .. 15
  OBVIOUS
<1> HIDE DEF ah, al, l
<1>2. (16 * al) \div 16 = al /\ (16 * al) % 16 = 0 /\ 16 * al \in 0 .. 63
  BY <1>1
<1>3. (4 * l) \div 4 = l /\ (4 * l) % 4 = 0 /\ 4 * l \in 0 .. 63
  BY <1>1
<1>4. 4 * ah + (16 * al) \div 16 = a
  BY <1>1, <1>2
<1>5. QED
  BY <1>1, <1>2, <1>3, <1>4 DEF ah, al, l

\* A full group of encoded bytes.
LEMMA GroupDecodes ==
    ASSUME NEW bytes \in Seq(0 .. 255), NEW y, NEW q \in Nat, 3 * q + 3 <= Len(bytes),
           y[4 * q + 1] = Letter(bytes, 4 * q + 1), y[4 * q + 2] = Letter(bytes, 4 * q + 2),
           y[4 * q + 3] = Letter(bytes, 4 * q + 3), y[4 * q + 4] = Letter(bytes, 4 * q + 4)
    PROVE  /\ y[4 * q + 1] \in 0 .. 63 /\ y[4 * q + 2] \in 0 .. 63
           /\ y[4 * q + 3] \in 0 .. 63 /\ y[4 * q + 4] \in 0 .. 63
           /\ ByteOf(y, 3 * q + 1) = bytes[3 * q + 1] /\ ByteOf(y, 3 * q + 2) = bytes[3 * q + 2]
           /\ ByteOf(y, 3 * q + 3) = bytes[3 * q + 3]
<1> DEFINE L == Len(bytes)
           a == bytes[3 * q + 1]
           b == bytes[3 * q + 2]
           c == bytes[3 * q + 3]
<1>1. L \in Nat /\ \A i \in 1 .. L : bytes[i] \in 0 .. 255
  BY Elements
<1>2. /\ 3 * q + 1 \in 1 .. L /\ 3 * q + 2 \in 1 .. L /\ 3 * q + 3 \in 1 .. L
      /\ 3 * q + 1 <= L /\ 3 * q + 2 <= L
  BY <1>1
<1>3. a \in 0 .. 255 /\ b \in 0 .. 255 /\ c \in 0 .. 255
  BY <1>1, <1>2
<1>4. /\ y[4 * q + 1] = a \div 4 /\ y[4 * q + 2] = 16 * (a % 4) + b \div 16
      /\ y[4 * q + 3] = 4 * (b % 16) + c \div 64 /\ y[4 * q + 4] = c % 64
  BY <1>2, GroupOfLetters
<1> HIDE DEF a, b, c
<1>5. HighBits(a, b) /\ LowerBits(b, c)
  BY <1>3, BitsOfBytes
<1>7. /\ ByteOf(y, 3 * q + 1) = 4 * y[4 * q + 1] + y[4 * q + 2] \div 16
      /\ ByteOf(y, 3 * q + 2) = 16 * (y[4 * q + 2] % 16) + y[4 * q + 3] \div 4
      /\ ByteOf(y, 3 * q + 3) = 64 * (y[4 * q + 3] % 4) + y[4 * q + 4]
  BY GroupOfBytes
<1>8. ByteOf(y, 3 * q + 1) = a
  BY <1>4, <1>5, <1>7, Zenon DEF HighBits
<1>9. ByteOf(y, 3 * q + 2) = b
  <2>1. ByteOf(y, 3 * q + 2) = 16 * (b \div 16) + (b % 16)
    BY <1>4, <1>5, <1>7, Zenon DEF HighBits, LowerBits
  <2>2. QED
    BY <1>5, <2>1, Zenon DEF HighBits
<1>10. ByteOf(y, 3 * q + 3) = c
  BY <1>4, <1>5, <1>7, Zenon DEF LowerBits
<1>11. y[4 * q + 1] \in 0 .. 63 /\ y[4 * q + 2] \in 0 .. 63 /\ y[4 * q + 3] \in 0 .. 63 /\ y[4 * q + 4] \in 0 .. 63
  BY <1>4, <1>5, Zenon DEF HighBits, LowerBits
<1>12. QED
  BY <1>8, <1>9, <1>10, <1>11, Zenon DEF a, b, c

\* A last group of one byte or of two.
LEMMA TailDecodes ==
    ASSUME NEW bytes \in Seq(0 .. 255), NEW y, NEW q \in Nat,
           y[4 * q + 1] = Letter(bytes, 4 * q + 1), y[4 * q + 2] = Letter(bytes, 4 * q + 2),
           y[4 * q + 3] = Letter(bytes, 4 * q + 3), y[4 * q + 4] = Letter(bytes, 4 * q + 4)
    PROVE  /\ Len(bytes) = 3 * q + 1 =>
                 /\ y[4 * q + 1] \in 0 .. 63 /\ y[4 * q + 2] \in 0 .. 63 /\ y[4 * q + 2] % 16 = 0
                 /\ y[4 * q + 3] = Pad /\ y[4 * q + 4] = Pad
                 /\ ByteOf(y, 3 * q + 1) = bytes[3 * q + 1]
           /\ Len(bytes) = 3 * q + 2 =>
                 /\ y[4 * q + 1] \in 0 .. 63 /\ y[4 * q + 2] \in 0 .. 63 /\ y[4 * q + 3] \in 0 .. 63
                 /\ y[4 * q + 3] % 4 = 0 /\ y[4 * q + 4] = Pad
                 /\ ByteOf(y, 3 * q + 1) = bytes[3 * q + 1] /\ ByteOf(y, 3 * q + 2) = bytes[3 * q + 2]
<1> DEFINE L == Len(bytes)
           a == bytes[3 * q + 1]
           b == bytes[3 * q + 2]
<1>1. L \in Nat /\ \A i \in 1 .. L : bytes[i] \in 0 .. 255
  BY Elements
<1>2. /\ ByteOf(y, 3 * q + 1) = 4 * y[4 * q + 1] + y[4 * q + 2] \div 16
      /\ ByteOf(y, 3 * q + 2) = 16 * (y[4 * q + 2] % 16) + y[4 * q + 3] \div 4
  BY GroupOfBytes
<1>3. CASE L = 3 * q + 1
  <2>1. 3 * q + 1 \in 1 .. L /\ 3 * q + 1 <= L /\ 3 * q + 2 > L /\ 3 * q + 3 > L /\ L # 3 * q + 2
    BY <1>1, <1>3
  <2>2. a \in 0 .. 255
    BY <1>1, <2>1
  <2>3. /\ y[4 * q + 1] = a \div 4 /\ y[4 * q + 2] = 16 * (a % 4)
        /\ y[4 * q + 3] = Pad /\ y[4 * q + 4] = Pad
    BY <2>1, GroupOfLetters
  <2> HIDE DEF a
  <2>4. /\ a \div 4 \in 0 .. 63 /\ 16 * (a % 4) \in 0 .. 63 /\ (16 * (a % 4)) % 16 = 0
        /\ 4 * (a \div 4) + (16 * (a % 4)) \div 16 = a
    BY <2>2, EndBits
  <2>5. QED
    BY <1>2, <2>1, <2>3, <2>4, Zenon DEF a
<1>4. CASE L = 3 * q + 2
  <2>1. /\ 3 * q + 1 \in 1 .. L /\ 3 * q + 2 \in 1 .. L /\ 3 * q + 1 <= L /\ 3 * q + 2 <= L
        /\ 3 * q + 3 > L /\ L # 3 * q + 1
    BY <1>1, <1>4
  <2>2. a \in 0 .. 255 /\ b \in 0 .. 255
    BY <1>1, <2>1
  <2>3. /\ y[4 * q + 1] = a \div 4 /\ y[4 * q + 2] = 16 * (a % 4) + b \div 16
        /\ y[4 * q + 3] = 4 * (b % 16) /\ y[4 * q + 4] = Pad
    BY <2>1, GroupOfLetters
  <2> HIDE DEF a, b
  <2>4. HighBits(a, b)
    BY <2>2, BitsOfBytes
  <2>5. 4 * (b % 16) \in 0 .. 63 /\ (4 * (b % 16)) % 4 = 0 /\ (4 * (b % 16)) \div 4 = b % 16
    BY <2>2, EndBits
  <2>6. ByteOf(y, 3 * q + 1) = a
    BY <1>2, <2>3, <2>4, Zenon DEF HighBits
  <2>7. ByteOf(y, 3 * q + 2) = b
    <3>1. ByteOf(y, 3 * q + 2) = 16 * (b \div 16) + (b % 16)
      BY <1>2, <2>3, <2>4, <2>5, Zenon DEF HighBits
    <3>2. QED
      BY <2>4, <3>1, Zenon DEF HighBits
  <2>8. y[4 * q + 1] \in 0 .. 63 /\ y[4 * q + 2] \in 0 .. 63 /\ y[4 * q + 3] \in 0 .. 63 /\ y[4 * q + 3] % 4 = 0
    BY <2>3, <2>4, <2>5, Zenon DEF HighBits
  <2>9. QED
    BY <2>1, <2>3, <2>6, <2>7, <2>8, Zenon DEF a, b
<1>5. QED
  BY <1>3, <1>4

\* How many letters and padding bytes are written with.
SymbolsOf(bytes) == 4 * ((Len(bytes) + 2) \div 3)

\* The symbols y are M letters that hold the bytes, and padding.
Carries(y, M, bytes) ==
    /\ M \in Nat /\ SymbolsOf(bytes) \in Nat /\ SymbolsOf(bytes) % 4 = 0
    /\ \/ M % 4 = 0 /\ SymbolsOf(bytes) = M
       \/ M % 4 = 2 /\ SymbolsOf(bytes) = M + 2 /\ y[M] % 16 = 0
       \/ M % 4 = 3 /\ SymbolsOf(bytes) = M + 1 /\ y[M] % 4 = 0
    /\ \A k \in 1 .. M : y[k] \in 0 .. 63
    /\ \A k \in M + 1 .. SymbolsOf(bytes) : y[k] = Pad
    /\ Len(bytes) = (3 * M) \div 4
    /\ \A j \in 1 .. Len(bytes) : ByteOf(y, j) = bytes[j]

\* The place of a byte in its group.
LEMMA InThree ==
    ASSUME NEW j \in Nat, j >= 1
    PROVE  \E q \in Nat : j = 3 * q + 1 \/ j = 3 * q + 2 \/ j = 3 * q + 3
<1>1. /\ (j - 1) \div 3 \in Nat
      /\ j = 3 * ((j - 1) \div 3) + 1 \/ j = 3 * ((j - 1) \div 3) + 2 \/ j = 3 * ((j - 1) \div 3) + 3
  OBVIOUS
<1>2. QED
  BY <1>1

LEMMA EncodingHolds ==
    ASSUME NEW bytes \in Seq(0 .. 255), NEW y,
           \A k \in 1 .. SymbolsOf(bytes) : y[k] = Letter(bytes, k)
    PROVE  \E M : Carries(y, M, bytes)
<1> DEFINE L == Len(bytes)
           N == SymbolsOf(bytes)
<1>1. L \in Nat
  BY Elements
<1>2. PICK g \in Nat : L = 3 * g \/ L = 3 * g + 1 \/ L = 3 * g + 2
  <2>1. L \div 3 \in Nat /\ (L = 3 * (L \div 3) \/ L = 3 * (L \div 3) + 1 \/ L = 3 * (L \div 3) + 2)
    BY <1>1
  <2> HIDE DEF L
  <2>2. QED
    BY <2>1
<1>3. (L = 3 * g => N = 4 * g) /\ (L = 3 * g + 1 => N = 4 * g + 4) /\ (L = 3 * g + 2 => N = 4 * g + 4)
  <2>1. (3 * g + 2) \div 3 = g /\ (3 * g + 1 + 2) \div 3 = g + 1 /\ (3 * g + 2 + 2) \div 3 = g + 1
    OBVIOUS
  <2>2. QED
    BY <2>1 DEF SymbolsOf
<1>4. \A k \in 1 .. N : y[k] = Letter(bytes, k)
  OBVIOUS
<1> HIDE DEF N
<1>5. ASSUME NEW q \in Nat, q < g
      PROVE  /\ y[4 * q + 1] \in 0 .. 63 /\ y[4 * q + 2] \in 0 .. 63
             /\ y[4 * q + 3] \in 0 .. 63 /\ y[4 * q + 4] \in 0 .. 63
             /\ ByteOf(y, 3 * q + 1) = bytes[3 * q + 1] /\ ByteOf(y, 3 * q + 2) = bytes[3 * q + 2]
             /\ ByteOf(y, 3 * q + 3) = bytes[3 * q + 3]
  <2>1. /\ 4 * q + 1 \in 1 .. N /\ 4 * q + 2 \in 1 .. N /\ 4 * q + 3 \in 1 .. N /\ 4 * q + 4 \in 1 .. N
        /\ 3 * q + 3 <= L
    BY <1>2, <1>3, <1>5
  <2>2. /\ y[4 * q + 1] = Letter(bytes, 4 * q + 1) /\ y[4 * q + 2] = Letter(bytes, 4 * q + 2)
        /\ y[4 * q + 3] = Letter(bytes, 4 * q + 3) /\ y[4 * q + 4] = Letter(bytes, 4 * q + 4)
    BY <1>4, <2>1
  <2>3. QED
    BY <2>1, <2>2, GroupDecodes
<1>6. L # 3 * g =>
         /\ y[4 * g + 1] = Letter(bytes, 4 * g + 1) /\ y[4 * g + 2] = Letter(bytes, 4 * g + 2)
         /\ y[4 * g + 3] = Letter(bytes, 4 * g + 3) /\ y[4 * g + 4] = Letter(bytes, 4 * g + 4)
  <2>1. L # 3 * g => /\ 4 * g + 1 \in 1 .. N /\ 4 * g + 2 \in 1 .. N
                     /\ 4 * g + 3 \in 1 .. N /\ 4 * g + 4 \in 1 .. N
    BY <1>2, <1>3
  <2>2. QED
    BY <1>4, <2>1
<1>7. L = 3 * g + 1 =>
         /\ y[4 * g + 1] \in 0 .. 63 /\ y[4 * g + 2] \in 0 .. 63 /\ y[4 * g + 2] % 16 = 0
         /\ y[4 * g + 3] = Pad /\ y[4 * g + 4] = Pad
         /\ ByteOf(y, 3 * g + 1) = bytes[3 * g + 1]
  <2>1. L = 3 * g + 1 => L # 3 * g
    OBVIOUS
  <2>2. QED
    BY <1>6, <2>1, TailDecodes
<1>8. L = 3 * g + 2 =>
         /\ y[4 * g + 1] \in 0 .. 63 /\ y[4 * g + 2] \in 0 .. 63 /\ y[4 * g + 3] \in 0 .. 63
         /\ y[4 * g + 3] % 4 = 0 /\ y[4 * g + 4] = Pad
         /\ ByteOf(y, 3 * g + 1) = bytes[3 * g + 1] /\ ByteOf(y, 3 * g + 2) = bytes[3 * g + 2]
  <2>1. L = 3 * g + 2 => L # 3 * g
    OBVIOUS
  <2>2. QED
    BY <1>6, <2>1, TailDecodes
<1> HIDE DEF L
<1> DEFINE M == IF L = 3 * g THEN 4 * g ELSE IF L = 3 * g + 1 THEN 4 * g + 2 ELSE 4 * g + 3
<1>9. /\ L = 3 * g => M = 4 * g
      /\ L = 3 * g + 1 => M = 4 * g + 2
      /\ L = 3 * g + 2 => M = 4 * g + 3
  OBVIOUS
<1> HIDE DEF M
<1>10. /\ M \in Nat /\ N \in Nat /\ N % 4 = 0 /\ L = (3 * M) \div 4
       /\ \/ M % 4 = 0 /\ N = M
          \/ M % 4 = 2 /\ N = M + 2 /\ y[M] % 16 = 0
          \/ M % 4 = 3 /\ N = M + 1 /\ y[M] % 4 = 0
  <2>1. CASE L = 3 * g
    BY <1>3, <1>9, <2>1
  <2>2. CASE L = 3 * g + 1
    BY <1>3, <1>7, <1>9, <2>2
  <2>3. CASE L = 3 * g + 2
    BY <1>3, <1>8, <1>9, <2>3
  <2>4. QED
    BY <1>2, <2>1, <2>2, <2>3
<1>11. ASSUME NEW k \in 1 .. M PROVE y[k] \in 0 .. 63
  <2>1. k \in Nat /\ k >= 1 /\ k <= M
    BY <1>10
  <2>2. PICK q \in Nat : k = 4 * q + 1 \/ k = 4 * q + 2 \/ k = 4 * q + 3 \/ k = 4 * q + 4
    BY <2>1, InGroup
  <2>3. CASE q < g
    BY <1>5, <2>2, <2>3
  <2>4. CASE q >= g
    <3>1. CASE L = 3 * g
      BY <1>9, <2>1, <2>2, <2>4, <3>1
    <3>2. CASE L = 3 * g + 1
      <4>1. q = g /\ (k = 4 * g + 1 \/ k = 4 * g + 2)
        BY <1>9, <2>1, <2>2, <2>4, <3>2
      <4>2. QED
        BY <1>7, <3>2, <4>1
    <3>3. CASE L = 3 * g + 2
      <4>1. q = g /\ (k = 4 * g + 1 \/ k = 4 * g + 2 \/ k = 4 * g + 3)
        BY <1>9, <2>1, <2>2, <2>4, <3>3
      <4>2. QED
        BY <1>8, <3>3, <4>1
    <3>4. QED
      BY <1>2, <3>1, <3>2, <3>3
  <2>5. QED
    BY <2>3, <2>4
<1>12. ASSUME NEW k \in M + 1 .. N PROVE y[k] = Pad
  <2>1. CASE L = 3 * g
    BY <1>3, <1>9, <1>10, <2>1
  <2>2. CASE L = 3 * g + 1
    <3>1. k = 4 * g + 3 \/ k = 4 * g + 4
      BY <1>3, <1>9, <1>10, <2>2
    <3>2. QED
      BY <1>7, <2>2, <3>1
  <2>3. CASE L = 3 * g + 2
    <3>1. k = 4 * g + 4
      BY <1>3, <1>9, <1>10, <2>3
    <3>2. QED
      BY <1>8, <2>3, <3>1
  <2>4. QED
    BY <1>2, <2>1, <2>2, <2>3
<1>13. ASSUME NEW j \in 1 .. L PROVE ByteOf(y, j) = bytes[j]
  <2>1. j \in Nat /\ j >= 1 /\ j <= L
    BY <1>1
  <2>2. PICK q \in Nat : j = 3 * q + 1 \/ j = 3 * q + 2 \/ j = 3 * q + 3
    BY <2>1, InThree
  <2>3. CASE q < g
    BY <1>5, <2>2, <2>3
  <2>4. CASE q >= g
    <3>1. CASE L = 3 * g
      BY <2>1, <2>2, <2>4, <3>1
    <3>2. CASE L = 3 * g + 1
      <4>1. j = 3 * g + 1
        BY <2>1, <2>2, <2>4, <3>2
      <4>2. QED
        BY <1>7, <3>2, <4>1
    <3>3. CASE L = 3 * g + 2
      <4>1. j = 3 * g + 1 \/ j = 3 * g + 2
        BY <2>1, <2>2, <2>4, <3>3
      <4>2. QED
        BY <1>8, <3>3, <4>1
    <3>4. QED
      BY <1>2, <3>1, <3>2, <3>3
  <2>5. QED
    BY <2>3, <2>4
<1>14. Carries(y, M, bytes)
  BY <1>10, <1>11, <1>12, <1>13 DEF Carries, L, N
<1>15. QED
  BY <1>14

\* Read up to a place, the letters among the symbols are those up to that place.
LEMMA LettersRead ==
    ASSUME NEW y, NEW M, NEW bytes, Carries(y, M, bytes), NEW s, NEW maximum \in Nat, Reads(y, s, maximum),
           s.symbols <= SymbolsOf(bytes)
    PROVE  /\ s.symbols <= M => s.padding = 0
           /\ s.symbols >= M => s.symbols - s.padding = M
<1> DEFINE n == s.symbols
           p == s.padding
           N == SymbolsOf(bytes)
<1>1. n \in Nat /\ p \in {0, 1, 2} /\ n - p \in Nat
  BY DEF Reads, LoopStates, ReadLetters
<1>2. /\ \A k \in 1 .. n - p : y[k] \in 0 .. 63
      /\ \A k \in n - p + 1 .. n : y[k] = Pad
  BY DEF Reads, ReadLetters
<1>3. /\ M \in Nat /\ N \in Nat
      /\ \A k \in 1 .. M : y[k] \in 0 .. 63
      /\ \A k \in M + 1 .. N : y[k] = Pad
  BY DEF Carries
<1>4. Pad \notin 0 .. 63
  BY DEF Pad
<1>5. n <= N
  OBVIOUS
<1> HIDE DEF n, p, N
<1>6. ASSUME n <= M, p # 0 PROVE FALSE
  <2>1. n \in n - p + 1 .. n /\ n \in 1 .. M
    BY <1>1, <1>3, <1>6
  <2>2. QED
    BY <1>2, <1>3, <1>4, <2>1
<1>7. ASSUME n >= M, n - p > M PROVE FALSE
  <2>1. M + 1 \in 1 .. n - p /\ M + 1 \in M + 1 .. N
    BY <1>1, <1>3, <1>5, <1>7
  <2>2. QED
    BY <1>2, <1>3, <1>4, <2>1
<1>8. ASSUME n >= M, n - p < M PROVE FALSE
  <2>1. n - p + 1 \in n - p + 1 .. n /\ n - p + 1 \in 1 .. M
    BY <1>1, <1>3, <1>8
  <2>2. QED
    BY <1>2, <1>3, <1>4, <2>1
<1>9. (n <= M => p = 0) /\ (n >= M => n - p = M)
  BY <1>1, <1>3, <1>6, <1>7, <1>8
<1>10. QED
  BY <1>9 DEF n, p

LEMMA SameElements ==
    ASSUME NEW S, NEW s \in Seq(S), NEW t \in Seq(S), Len(s) = Len(t), \A i \in 1 .. Len(t) : s[i] = t[i]
    PROVE  s = t
OBVIOUS

\* The next symbol of the encoding of few enough bytes is no error.
LEMMA NextAccepted ==
    ASSUME NEW y, NEW M, NEW bytes, Carries(y, M, bytes), NEW s, NEW maximum \in Nat, Reads(y, s, maximum),
           s.symbols + 1 <= SymbolsOf(bytes), Len(bytes) <= maximum
    PROVE  \/ y[s.symbols + 1] = Pad /\ s.padding # 2
           \/ y[s.symbols + 1] \in 0 .. 63 /\ s.padding = 0 /\ (s.bits = 0 \/ Len(s.output) < maximum)
<1> DEFINE n == s.symbols
           p == s.padding
           N == SymbolsOf(bytes)
           m == n - p
<1>1. /\ n \in Nat /\ p \in {0, 1, 2} /\ m \in Nat /\ BitsLeft(y, m, s.bits, s.rest)
      /\ Len(s.output) = (3 * m) \div 4
  BY DEF Reads, LoopStates, ReadLetters
<1>2. /\ M \in Nat /\ N \in Nat /\ (N = M \/ N = M + 1 \/ N = M + 2)
      /\ \A k \in 1 .. M : y[k] \in 0 .. 63
      /\ \A k \in M + 1 .. N : y[k] = Pad
      /\ Len(bytes) = (3 * M) \div 4
  BY DEF Carries
<1>3. n + 1 <= N /\ m = n - p
  OBVIOUS
<1>4. (n <= M => p = 0) /\ (n >= M => m = M)
  <2>1. n <= N
    BY <1>1, <1>2, <1>3
  <2>2. QED
    BY <2>1, LettersRead
<1> HIDE DEF n, p, N, m
<1>5. CASE n + 1 <= M
  <2>1. n + 1 \in 1 .. M /\ n <= M
    BY <1>1, <1>5, <1>2
  <2>2. y[n + 1] \in 0 .. 63 /\ p = 0 /\ m = n
    BY <1>1, <1>2, <1>3, <1>4, <2>1
  <2>3. ASSUME s.bits # 0 PROVE Len(s.output) < maximum
    <3>1. n % 4 # 0
      BY <1>1, <2>2, <2>3 DEF BitsLeft
    <3>2. (3 * (n + 1)) \div 4 = (3 * n) \div 4 + 1
      BY <1>1, <3>1, FourAndThree
    <3>3. (3 * (n + 1)) \div 4 <= (3 * M) \div 4
      BY <1>1, <1>2, <1>5
    <3>4. (3 * n) \div 4 \in Nat /\ (3 * M) \div 4 \in Nat
      BY <1>1, <1>2
    <3>5. (3 * M) \div 4 <= maximum
      BY <1>2
    <3>6. QED
      BY <1>1, <2>2, <3>2, <3>3, <3>4, <3>5
  <2>4. QED
    BY <2>2, <2>3 DEF n, p
<1>6. CASE ~(n + 1 <= M)
  <2>1. n >= M /\ n + 1 \in M + 1 .. N
    BY <1>1, <1>2, <1>3, <1>6
  <2>2. p # 2
    BY <1>1, <1>2, <1>3, <1>4, <2>1
  <2>3. y[n + 1] = Pad
    BY <1>2, <2>1
  <2>4. QED
    BY <2>2, <2>3 DEF n, p
<1>7. QED
  BY <1>5, <1>6

\* No symbol of the encoding of few enough bytes is an error.
LEMMA RunAccepts ==
    ASSUME NEW c \in Seq(Alphabet), NEW maximum \in Nat, NEW f, Runs(f, c, maximum), NEW y, Follows(c, y),
           NEW M, NEW bytes, Carries(y, M, bytes), Len(bytes) <= maximum, Written(c, Len(c)) = SymbolsOf(bytes)
    PROVE  \A i \in 0 .. Len(c) : f[i].error = "none"
<1> DEFINE bad == {i \in 0 .. Len(c) : f[i].error # "none"}
<1>0. Len(c) \in Nat /\ \A i \in 1 .. Len(c) : c[i] \in Alphabet
  BY Elements
<1>1. bad = {}
  <2> SUFFICES ASSUME bad # {} PROVE FALSE
    OBVIOUS
  <2>1. bad \in SUBSET Nat
    BY <1>0
  <2>2. PICK i \in bad : \A k \in bad : i <= k
    <3> HIDE DEF bad
    <3>1. QED
      BY <2>1, Least
  <2>3. i \in 0 .. Len(c) /\ i \in Nat /\ f[i].error # "none"
    BY <2>1, <2>2
  <2>4. i # 0
    <3>1. f[0] = Started
      BY <1>0 DEF Runs
    <3>2. QED
      BY <2>3, <3>1 DEF Started
  <2>5. i - 1 \in 0 .. Len(c) /\ i - 1 \in Nat /\ i - 1 + 1 = i /\ ~(i <= i - 1) /\ i \in 1 .. Len(c)
    BY <2>3, <2>4
  <2>6. f[i - 1].error = "none"
    <3>1. i - 1 \notin bad
      <4> HIDE DEF bad
      <4>1. QED
        BY <2>2, <2>5
    <3>2. QED
      BY <2>5, <3>1
  <2>7. f[i] = Step(f[i - 1], c[i], maximum)
    BY <2>3, <2>4 DEF Runs
  <2>8. Reads(y, f[i - 1], maximum) /\ f[i - 1].symbols = Written(c, i - 1)
    BY <2>5, <2>6, RunReads
  <2>9. Written(c, i) = IF c[i] = Space THEN Written(c, i - 1) ELSE Written(c, i - 1) + 1
    <3>1. Written(c, i - 1 + 1) = IF c[i - 1 + 1] = Space THEN Written(c, i - 1) ELSE Written(c, i - 1) + 1
      BY <2>5, WrittenStep
    <3>2. QED
      BY <2>5, <3>1
  <2>10. CASE c[i] = Space
    <3>1. c[i] \in Alphabet /\ (c[i] # Space => y[f[i - 1].symbols + 1] = c[i])
      BY <1>0, <2>5, <2>10
    <3>2. f[i] = f[i - 1]
      BY <2>7, <2>8, <2>10, <3>1, StepReads
    <3>3. QED
      BY <2>3, <2>6, <3>2
  <2>11. CASE c[i] # Space
    <3>1. c[i] \in Alphabet /\ y[f[i - 1].symbols + 1] = c[i]
      BY <1>0, <2>5, <2>8, <2>9, <2>11 DEF Follows
    <3>2. f[i - 1].symbols + 1 <= SymbolsOf(bytes)
      <4>1. Written(c, i) \in 1 .. Written(c, Len(c)) /\ Written(c, Len(c)) \in Nat
        BY <1>0, <2>5, <2>11, SymbolIs, WrittenFinite
      <4>2. Written(c, i) <= Written(c, Len(c))
        BY <4>1
      <4>3. QED
        BY <2>8, <2>9, <2>11, <4>2
    <3>3. \/ c[i] = Pad /\ f[i - 1].padding # 2
          \/ /\ c[i] \in 0 .. 63 /\ f[i - 1].padding = 0
             /\ f[i - 1].bits = 0 \/ Len(f[i - 1].output) < maximum
      <4>1. \/ y[f[i - 1].symbols + 1] = Pad /\ f[i - 1].padding # 2
            \/ /\ y[f[i - 1].symbols + 1] \in 0 .. 63 /\ f[i - 1].padding = 0
               /\ f[i - 1].bits = 0 \/ Len(f[i - 1].output) < maximum
        BY <2>8, <3>2, NextAccepted
      <4>2. QED
        BY <3>1, <4>1
    <3>4. f[i].error = "none"
      <4> DEFINE u == f[i - 1]
      <4>1. Reads(y, u, maximum) /\ c[i] \in Alphabet /\ y[u.symbols + 1] = c[i]
        BY <2>8, <3>1
      <4>2. \/ c[i] = Pad /\ u.padding # 2
            \/ c[i] \in 0 .. 63 /\ u.padding = 0 /\ (u.bits = 0 \/ Len(u.output) < maximum)
        BY <3>3
      <4> HIDE DEF u
      <4>3. Step(u, c[i], maximum).error = "none"
        BY <4>1, <4>2, StepReads
      <4>4. QED
        BY <2>7, <4>3 DEF u
    <3>5. QED
      BY <2>3, <3>4
  <2>12. QED
    BY <2>10, <2>11
<1>2. QED
  BY <1>1

\* When all the symbols have been read the bytes are there, and all is in order.
LEMMA EndHolds ==
    ASSUME NEW y, NEW M, NEW bytes \in Seq(0 .. 255), Carries(y, M, bytes), NEW s, NEW maximum \in Nat,
           Reads(y, s, maximum), s.symbols = SymbolsOf(bytes)
    PROVE  s.output = bytes /\ WellPadded(s)
<1> DEFINE n == s.symbols
           p == s.padding
           m == n - p
           L == Len(bytes)
<1>1. /\ n \in Nat /\ p \in {0, 1, 2} /\ m \in Nat /\ BitsLeft(y, m, s.bits, s.rest)
      /\ s.output \in Seq(0 .. 255) /\ Len(s.output) = (3 * m) \div 4
      /\ \A j \in 1 .. Len(s.output) : s.output[j] = ByteOf(y, j)
  BY DEF Reads, LoopStates, ReadLetters
<1>2. /\ M \in Nat /\ n % 4 = 0
      /\ \/ M % 4 = 0 /\ n = M
         \/ M % 4 = 2 /\ n = M + 2 /\ y[M] % 16 = 0
         \/ M % 4 = 3 /\ n = M + 1 /\ y[M] % 4 = 0
      /\ L = (3 * M) \div 4
      /\ \A j \in 1 .. L : ByteOf(y, j) = bytes[j]
  BY DEF Carries
<1>3. m = M
  <2>1. n \in Nat /\ M \in Nat /\ (n = M \/ n = M + 2 \/ n = M + 1)
    BY <1>1, <1>2, Zenon
  <2>2. n = SymbolsOf(bytes)
    OBVIOUS
  <2> HIDE DEF n
  <2>3. n >= M /\ n <= SymbolsOf(bytes)
    BY <2>1, <2>2
  <2>4. QED
    BY <2>3, LettersRead DEF n
<1>4. m = n - p
  OBVIOUS
<1> HIDE DEF m, n, p, L
<1>5. s.output = bytes
  <2>1. Len(s.output) = L
    BY <1>1, <1>2, <1>3
  <2>2. \A j \in 1 .. L : s.output[j] = bytes[j]
    BY <1>1, <1>2, <2>1
  <2>3. QED
    BY <1>1, <2>1, <2>2, SameElements DEF L
<1>6. WellPadded(s)
  <2>1. CASE M % 4 = 0 /\ n = M
    <3>1. p = 0 /\ s.bits = 0 /\ s.rest = 0
      BY <1>1, <1>2, <1>3, <1>4, <2>1 DEF BitsLeft
    <3>2. QED
      BY <1>2, <3>1 DEF WellPadded, n, p
  <2>2. CASE M % 4 = 2 /\ n = M + 2 /\ y[M] % 16 = 0
    <3>1. p = 2 /\ s.bits = 4 /\ s.rest = 0
      BY <1>1, <1>2, <1>3, <1>4, <2>2 DEF BitsLeft
    <3>2. QED
      BY <1>2, <3>1 DEF WellPadded, n, p
  <2>3. CASE M % 4 = 3 /\ n = M + 1 /\ y[M] % 4 = 0
    <3>1. p = 1 /\ s.bits = 2 /\ s.rest = 0
      BY <1>1, <1>2, <1>3, <1>4, <2>3 DEF BitsLeft
    <3>2. QED
      BY <1>2, <3>1 DEF WellPadded, n, p
  <2>4. QED
    BY <1>2, <2>1, <2>2, <2>3
<1>7. QED
  BY <1>5, <1>6

\* DecodeBase64 accepts every encoding of at most as many bytes as allowed, with up to 16
\* characters of white space anywhere in it, and makes those bytes of it.
THEOREM EncodedIsAccepted ==
    ASSUME NEW text, text.characters \in Seq(Alphabet), text.prefix # "data:", NEW maximum \in Nat,
           NEW bytes \in Seq(0 .. 255), Len(bytes) \in 1 .. maximum,
           Encodes(text.characters, bytes), Len(text.characters) <= Len(Encode(bytes)) + 16
    PROVE  DecodeBase64(text, maximum) = [error |-> "none", output |-> bytes]
<1> DEFINE c == text.characters
           result == DecodeBase64(text, maximum)
           y == Encode(bytes)
           N == SymbolsOf(bytes)
<1>1. PICK f : /\ Runs(f, c, maximum)
               /\ result =
                        IF text.prefix = "data:" THEN Error("not Base64")
                        ELSE IF Len(c) > EncodedLimit(maximum) THEN Error("too large")
                        ELSE LET s == f[Len(c)] IN
                             IF s.error # "none" THEN Error(s.error)
                             ELSE IF s.output = <<>> THEN Error("empty")
                             ELSE IF ~WellPadded(s) THEN Error("invalid padding")
                             ELSE [error |-> "none", output |-> s.output]
  BY DecodeIs
<1>2. /\ c \in Seq(Alphabet) /\ Len(c) \in Nat /\ Len(bytes) \in Nat /\ Len(bytes) <= maximum /\ bytes # <<>>
      /\ text.prefix # "data:" /\ Encodes(c, bytes) /\ Len(c) <= Len(y) + 16
  BY Elements
<1>3. N \in Nat /\ Len(y) = N /\ \A k \in 1 .. N : y[k] = Letter(bytes, k)
  <2>1. N \in Nat
    BY <1>2 DEF SymbolsOf
  <2>2. QED
    BY <2>1 DEF Encode, SymbolsOf
<1> DEFINE s == f[Len(c)]
<1> HIDE DEF c, result, y, N
<1>4. PICK M : Carries(y, M, bytes)
  BY <1>3, EncodingHolds DEF N
<1>5. Follows(c, y) /\ Written(c, Len(c)) = N
  BY <1>2, <1>3 DEF Encodes, Follows, y
<1>6. Len(c) \in 0 .. Len(c)
  BY <1>2
<1>7. Runs(f, c, maximum)
  BY <1>1
<1>8. s.error = "none"
  <2>1. \A i \in 0 .. Len(c) : f[i].error = "none"
    BY <1>2, <1>4, <1>5, <1>7, RunAccepts DEF N
  <2>2. QED
    BY <1>6, <2>1
<1>9. Reads(y, s, maximum) /\ s.symbols = N
  <2>1. \A i \in 0 .. Len(c) : f[i].error # "none" \/ (Reads(y, f[i], maximum) /\ f[i].symbols = Written(c, i))
    BY <1>2, <1>5, <1>7, RunReads
  <2>2. QED
    BY <1>5, <1>6, <1>8, <2>1
<1>10. s.output = bytes /\ WellPadded(s)
  BY <1>4, <1>9, EndHolds DEF N
<1>11. ~(Len(c) > EncodedLimit(maximum))
  <2>1. (Len(bytes) + 2) \div 3 <= (maximum + 2) \div 3 /\ (maximum + 2) \div 3 \in Nat /\ (Len(bytes) + 2) \div 3 \in Nat
    BY <1>2
  <2>2. QED
    BY <1>2, <1>3, <2>1 DEF EncodedLimit, N, SymbolsOf
<1>12. result = [error |-> "none", output |-> bytes]
  BY <1>1, <1>2, <1>8, <1>10, <1>11
<1>13. QED
  BY <1>12 DEF result

------------------------------------------------------------------------------
(* Base64: the bench, whose part of MCSpec is BenchSpec.                   *)

LEMMA EncodingTyped ==
    ASSUME NEW bytes \in Seq(0 .. 255)
    PROVE  Encode(bytes) \in Seq(Alphabet) /\ Len(Encode(bytes)) = SymbolsOf(bytes)
<1> DEFINE N == SymbolsOf(bytes)
           y == Encode(bytes)
<1>1. N \in Nat
  BY Elements DEF SymbolsOf
<1>2. y = [k \in 1 .. N |-> Letter(bytes, k)]
  BY DEF Encode, SymbolsOf
<1>3. \A k \in 1 .. N : y[k] = Letter(bytes, k)
  BY <1>2
<1> HIDE DEF y
<1>4. PICK M : Carries(y, M, bytes)
  BY <1>3, EncodingHolds
<1> HIDE DEF N
<1>5. \A k \in 1 .. N : y[k] \in Alphabet
  <2>1. M \in Nat /\ (\A k \in 1 .. M : y[k] \in 0 .. 63) /\ (\A k \in M + 1 .. N : y[k] = Pad)
    BY <1>4 DEF Carries, N
  <2>2. 0 .. 63 \subseteq Alphabet /\ Pad \in Alphabet
    BY DEF Alphabet, Pad
  <2>3. ASSUME NEW k \in 1 .. N PROVE k \in 1 .. M \/ k \in M + 1 .. N
    BY <1>1, <2>1
  <2>4. QED
    BY <2>1, <2>2, <2>3
<1>6. y \in [1 .. N -> Alphabet]
  BY <1>2, <1>5
<1>7. y \in Seq(Alphabet) /\ Len(y) = N
  BY <1>1, <1>6
<1>8. QED
  BY <1>7 DEF y, N

\* The texts of the bench are texts, and what has bytes has no prefix.
LEMMA TextsTyped ==
    ASSUME NEW j \in TextJobs \cup BytesJobs
    PROVE  /\ j.text.characters \in Seq(Alphabet) /\ j.maximum \in Nat /\ j.bytes \in Seq(0 .. 255)
           /\ Len(j.bytes) # 0 => j.text.prefix # "data:"
<1>1. CASE j \in TextJobs
  <2>1. j.maximum \in {1, 3} /\ j.bytes = <<>>
    BY <1>1 DEF TextJobs
  <2>2. PICK p, c : j.text = Text(p, c) /\ (c \in Characters \/ c = <<16, 16, Pad, Pad>>)
    <3> DEFINE texts == {Text(p, c) : p \in {"none"}, c \in Characters}
               more == {Text(p, <<16, 16, Pad, Pad>>) : p \in Prefixes}
    <3>1. j.text \in texts \cup more
      BY <1>1 DEF TextJobs
    <3>2. QED
      BY <3>1
  <2>3. c \in Seq(Alphabet)
    <3>1. 16 \in Alphabet /\ 1 \in Alphabet /\ Pad \in Alphabet /\ Space \in Alphabet /\ Other \in Alphabet
      BY DEF Alphabet, Pad, Space, Other
    <3>2. CASE c = <<16, 16, Pad, Pad>>
      <4>1. ASSUME NEW S, NEW a \in S, NEW b \in S PROVE <<a, a, b, b>> \in Seq(S)
        OBVIOUS
      <4>2. QED
        BY <3>1, <3>2, <4>1, Zenon
    <3>3. CASE c \in Characters
      <4>1. PICK n \in Nat : c \in [1 .. n -> {1, 16, Pad, Space, Other}] \/ c \in [1 .. n -> {16, Pad}]
        <5> DEFINE few == UNION {[1 .. n -> {1, 16, Pad, Space, Other}] : n \in 0 .. MaxText}
                   padded == UNION {[1 .. n -> {16, Pad}] : n \in MaxText + 1 .. 8}
        <5>1. c \in few => \E n \in Nat : c \in [1 .. n -> {1, 16, Pad, Space, Other}]
          BY BenchAssumption
        <5>2. c \in padded => \E n \in Nat : c \in [1 .. n -> {16, Pad}]
          BY BenchAssumption
        <5>3. Characters = few \cup padded
          BY DEF Characters
        <5> HIDE DEF few, padded
        <5>4. c \in few \/ c \in padded
          BY <3>3, <5>3
        <5>5. QED
          BY <5>1, <5>2, <5>4
      <4>2. c \in [1 .. n -> Alphabet]
        BY <3>1, <4>1
      <4>3. QED
        BY <4>2
    <3>4. QED
      BY <2>2, <3>2, <3>3
  <2>4. j.text.characters = c
    BY <2>2 DEF Text
  <2>5. <<>> \in Seq(0 .. 255) /\ Len(<<>>) = 0
    OBVIOUS
  <2>6. QED
    BY <2>1, <2>3, <2>4, <2>5
<1>2. CASE j \in BytesJobs
  <2>1. PICK n \in 1 .. 4, b \in Bytes, at \in {2, 4}, k \in {0, 1, 16, 17, 20} :
            j = [op |-> "base64", maximum |-> n, bytes |-> b, text |-> Text("none", Spaced(Encode(b), at, k))]
    BY <1>2 DEF BytesJobs
  <2>2. j.maximum = n /\ j.bytes = b /\ j.text.characters = Spaced(Encode(b), at, k) /\ j.text.prefix = "none"
    BY <2>1 DEF Text
  <2>3. PICK l \in 1 .. 4 : b \in [1 .. l -> {0, 97, 255}]
    BY DEF Bytes
  <2>4. b \in Seq(0 .. 255) /\ Len(b) = l
    <3>1. b \in [1 .. l -> 0 .. 255] /\ l \in Nat
      BY <2>3
    <3>2. QED
      BY <3>1
  <2> DEFINE e == Encode(b)
  <2>5. e \in Seq(Alphabet) /\ Len(e) \in Nat /\ Len(e) >= 4
    BY <2>4, EncodingTyped DEF SymbolsOf
  <2> HIDE DEF e
  <2>6. Spaced(e, at, k) \in Seq(Alphabet)
    <3>1. SubSeq(e, 1, at) \in Seq(Alphabet) /\ SubSeq(e, at + 1, Len(e)) \in Seq(Alphabet)
      <4>1. ASSUME NEW S, NEW s \in Seq(S), NEW m \in 1 .. Len(s)
            PROVE  SubSeq(s, 1, m) \in Seq(S) /\ SubSeq(s, m + 1, Len(s)) \in Seq(S)
        OBVIOUS
      <4>2. at \in 1 .. Len(e)
        BY <2>5
      <4>3. QED
        BY <2>5, <4>1, <4>2
    <3>2. [i \in 1 .. k |-> Space] \in Seq(Alphabet)
      <4>1. Space \in Alphabet /\ k \in Nat
        BY DEF Alphabet, Space
      <4> HIDE DEF Space
      <4>2. QED
        BY <4>1
    <3>3. QED
      BY <3>1, <3>2 DEF Spaced
  <2>7. QED
    BY <2>2, <2>4, <2>6 DEF e
<1>3. QED
  BY <1>1, <1>2

\* What came out is what the code makes of the text.
TextInv ==
    /\ job \in Jobs
    /\ Done("base64") => out = DecodeBase64(job.text, job.maximum)

LEMMA TextInvariance == BenchSpec => []TextInv
<1>1. BenchInit => TextInv
  BY DEF BenchInit, TextInv, Done
<1>2. TextInv /\ [Bench]_bench => TextInv'
  <2> SUFFICES ASSUME TextInv, [Bench]_bench PROVE TextInv'
    OBVIOUS
  <2>1. CASE UNCHANGED bench
    BY <2>1 DEF bench, TextInv, Done
  <2>2. CASE Bench
    <3>1. job' = job
      BY <2>2 DEF Bench
    <3>2. ASSUME job.op = "base64" PROVE out' = DecodeBase64(job.text, job.maximum)
      BY <2>2, <3>2 DEF Bench, OrderBox, OrderPage, DecodeRow, DecodeText
    <3>3. QED
      BY <3>1, <3>2 DEF TextInv, Done
  <2>3. QED
    BY <2>1, <2>2
<1>3. QED
  BY <1>1, <1>2, PTL DEF BenchSpec

LEMMA TextJobsAre ==
    ASSUME NEW j \in Jobs, j.op = "base64"
    PROVE  j \in TextJobs \cup BytesJobs
<1>1. j \in BoxJobs => j.op = "box"
  BY DEF BoxJobs
<1>2. j \in PageJobs => j.op = "order"
  BY DEF PageJobs
<1>3. j \in RowJobs => j.op = "decode"
  BY DEF RowJobs
<1>4. QED
  BY <1>1, <1>2, <1>3 DEF Jobs

\* DecodeBase64 is exact on the texts of the bench, for any bound on their length.
THEOREM BenchTextsExact == BenchSpec => []Base64Exact
<1>1. TextInv => Base64Exact
  <2> SUFFICES ASSUME TextInv, Done("base64") PROVE Base64Exact
    BY DEF Base64Exact
  <2>1. out = DecodeBase64(job.text, job.maximum)
    BY DEF TextInv
  <2>2. /\ job.text.characters \in Seq(Alphabet) /\ job.maximum \in Nat /\ job.bytes \in Seq(0 .. 255)
        /\ Len(job.bytes) # 0 => job.text.prefix # "data:"
    BY TextJobsAre, TextsTyped DEF TextInv, Done
  <2>3. ASSUME out.error = "none"
        PROVE  Encodes(job.text.characters, out.output) /\ Len(out.output) \in 1 .. job.maximum
    BY <2>1, <2>2, <2>3, AcceptedIsEncoded
  <2>4. ASSUME Encodes(job.text.characters, job.bytes), Len(job.bytes) \in 1 .. job.maximum,
               Len(job.text.characters) <= Len(Encode(job.bytes)) + 16
        PROVE  out.output = job.bytes
    <3>1. Len(job.bytes) # 0
      BY <2>4
    <3>2. out = [error |-> "none", output |-> job.bytes]
      BY <2>1, <2>2, <2>4, <3>1, EncodedIsAccepted
    <3>3. QED
      BY <3>2
  <2>5. QED
    BY <2>3, <2>4 DEF Base64Exact
<1>2. QED
  BY <1>1, TextInvariance, PTL
==============================================================================
