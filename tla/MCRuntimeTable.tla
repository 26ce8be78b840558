--------------------------- MODULE MCRuntimeTable ----------------------------
(***************************************************************************)
(* Instance of RuntimeTable for TLC: the Runtimes as they are published,   *)
(* an older and a later one, and libraries that have one fault each.       *)
(***************************************************************************)
EXTENDS RuntimeTable

NoLibrary == [backends |-> {}, exports |-> FALSE]

OlderRuntime == [OpenCvRuntime EXCEPT !.size = V1Size, !.fingerprint = "v1"]

Faulty(l) ==
    {[l EXCEPT !.null = {f}] : f \in {Fields[i] : i \in (4 .. 11) \cup (17 .. 18)}}
    \cup {[l EXCEPT !.shorter = {f}] : f \in {Fields[i] : i \in (12 .. 15) \cup (19 .. 20)}}
    \cup {[l EXCEPT !.size = n] : n \in {2, 15, 17, 18, 19}}
    \cup {[l EXCEPT !.fingerprint = f] : f \in {"v0", "foreign"}}
    \cup {[l EXCEPT !.api_version = 2], [l EXCEPT !.exports = FALSE]}

SomeLibraries ==
    {OpenCvRuntime, OnnxRuntime, StubRuntime, ForwardStubRuntime, OlderRuntime} \cup Faulty(OpenVinoRuntime)

SomeInstalled ==
    [b \in Backends \ {"onnxruntime"} |->
        CASE b = "opencv_dnn" -> OlderRuntime
          [] b = "directml" -> DirectMlRuntime
          [] b = "openvino" -> OpenVinoRuntime
          [] OTHER -> TensorRtRuntime]
==============================================================================
