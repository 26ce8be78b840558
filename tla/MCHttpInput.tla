---------------------------- MODULE MCHttpInput -----------------------------
(***************************************************************************)
(* Instance of HttpInput for TLC.  The first two bytes of a file are its   *)
(* width and height, if a UINT of four bits holds them; OpenCV takes no    *)
(* side above six.  The images ApiValidation has its own clients pass are  *)
(* those of MCApiValidation.                                               *)
(***************************************************************************)
EXTENDS HttpInput, MCApiValidation

SomeFile(bytes) ==
    IF Len(bytes) < 2 \/ bytes[1] > UInt32Max \/ bytes[2] > UInt32Max
    THEN [readable |-> FALSE, throws |-> FALSE, width |-> 0, height |-> 0]
    ELSE [readable |-> TRUE, throws |-> bytes[1] > 6 \/ bytes[2] > 6, width |-> bytes[1], height |-> bytes[2]]

SomeDocuments ==
    [readable : BOOLEAN, network_in_range : {TRUE}, backend : {"openvino"}, api_key : BOOLEAN,
     windows : BOOLEAN, max_request_bytes : {7, 8, 30, 31}, max_image_pixels : {0, 1, 2, 5}]
    \cup [readable : {TRUE}, network_in_range : BOOLEAN, backend : {"unknown"}, api_key : {FALSE},
          windows : {FALSE}, max_request_bytes : {30}, max_image_pixels : {2}]

\* The Base64 of two bytes below 64.
Pair(width, height) ==
    Text("none", <<width \div 4, (width % 4) * 16 + height \div 16, (height % 16) * 4, Pad>>)

Sizes2 == {0, 1, 2, 3, 5, 6, 15, 16}
Pairs == {Pair(w, h) : w, h \in Sizes2}
Broken == {Text("none", <<>>), Text("none", <<1, Other>>), Text("none", <<0, 0, Pad, Pad>>),
           Text("data:", <<0, 16, 4, Pad>>)}
Few == {Pair(1, 1), Pair(1, 2), Pair(5, 1), Text("data:;base64,", <<0, 32, 4, Pad>>)} \cup Broken

String(t) == [is |-> "string", text |-> t]
Wrong(is) == [is |-> is, text |-> Text("none", <<>>)]

Member(is, items) == [is |-> is, items |-> items]
NoArray == Member("absent", <<>>)

SomeRequests ==
    [path : {"/api/ocr", "/api/recognize"}, key : BOOLEAN, json : {"valid"}, size : {6, 20},
     image_base64 : {String(t) : t \in Pairs \cup Broken}, images_base64 : {NoArray}]
    \cup [path : {"/api/recognize"}, key : {TRUE}, json : {"valid", "invalid", "unprintable"}, size : {20},
          image_base64 : {Wrong("absent"), Wrong("other")},
          images_base64 : {Member("array", s) : s \in UNION {[1 .. n -> {String(t) : t \in Few}] : n \in 0 .. 3}}
                          \cup {Member("array", <<Wrong("other")>>), NoArray, Member("other", <<>>)}]
    \cup [path : {"/api/ocr"}, key : {TRUE}, json : {"valid"}, size : {20},
          image_base64 : {Wrong("absent"), Wrong("other")}, images_base64 : {Member("array", <<String(Pair(1, 1))>>)}]
==============================================================================
