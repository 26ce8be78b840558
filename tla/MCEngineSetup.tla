--------------------------- MODULE MCEngineSetup ----------------------------
(***************************************************************************)
(* Instance of EngineSetup for TLC, and the bench of MCOcrAlgorithms: a    *)
(* behaviour either builds, uses and destroys an engine, or works on one   *)
(* input of an algorithm.                                                  *)
(***************************************************************************)
EXTENDS EngineSetup, MCOcrAlgorithms

Stage(entry, path, shaped) == [entry |-> entry, path |-> path, shaped |-> shaped]
Det == Stage("file", "det", TRUE)
Rec == Stage("file", "rec", TRUE)
Cls == Stage("file", "cls", TRUE)
Absent == Stage("absent", "none", FALSE)

Package(detector, recognizer, classifier, width, profile) ==
    [detector |-> detector, recognizer |-> recognizer, classifier |-> classifier,
     width |-> width, profile |-> profile]

\* A complete package, one without a classifier, profiles of several widths, files
\* named twice, and what LoadModelManifest refuses.
Packages == {
    Package(Det, Rec, Cls, 320, 1280),
    Package(Det, Rec, Absent, 320, 1000),
    Package(Det, Rec, Cls, 320, 300),
    Package(Det, Rec, Absent, 1300, 1600),
    Package(Det, Stage("file", "det", TRUE), Cls, 320, 1280),
    Package(Det, Rec, Stage("file", "rec", TRUE), 320, 320),
    Package(Absent, Rec, Cls, 320, 1280),
    Package(Det, Stage("file", "rec", FALSE), Cls, 320, 1280),
    Package(Det, Rec, Stage("no file", "cls", TRUE), 320, 1280),
    Package(Det, Rec, Stage("file", "cls", FALSE), 320, 1280)}

MCInit ==
    /\ Init
    /\ \/ job = [op |-> "engine"] /\ done = FALSE /\ out = <<>>
       \/ /\ config = [backend |-> "tensorrt", device |-> "unset", rec_concurrency |-> 1, enable_cls |-> FALSE]
          /\ manifest = Package(Det, Rec, Absent, 320, 1000)
          /\ BenchInit

MCNext ==
    \/ job.op = "engine" /\ Next /\ UNCHANGED bench
    \/ Bench /\ UNCHANGED vars

MCSpec == MCInit /\ [][MCNext]_<<vars, bench>>
==============================================================================
