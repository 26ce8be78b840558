---------------------------- MODULE ManagedEngine ----------------------------
(***************************************************************************)
(* The .NET class OcrEngine over the native handle.  Its threads may call  *)
(* and dispose it at any time; the native side forbids that ("Destroy is   *)
(* not concurrent: finish all calls and free all results before destroy"). *)
(* Between them stands SafeHandle's reference count: every call adds a     *)
(* reference, and whoever releases the last one destroys the handle, which *)
(* may be a thread in Run long after Dispose has returned.                 *)
(***************************************************************************)
EXTENDS Integers, FiniteSets

CONSTANT Threads   \* threads sharing the OcrEngine object

VARIABLES
    shared,    \* has the constructor returned the object?
    field,     \* is the field `handle` set?
    native,    \* the native engine: "none", "alive", "destroying" or "destroyed"
    destroys,  \* how often lw_ppocr_destroy has been entered with the handle
    refs,      \* SafeHandle: reference count
    closed,    \* SafeHandle: the count has reached zero
    disposed,  \* SafeHandle: Dispose has given back the owner's reference
    results,   \* threads that hold a native result
    pc         \* [Threads -> where a thread is]

safe_handle == <<refs, closed, disposed>>
vars        == <<shared, field, native, destroys, safe_handle, results, pc>>

Init ==
    /\ shared = FALSE
    /\ field = FALSE
    /\ native = "none"
    /\ destroys = 0
    /\ refs = 0
    /\ closed = FALSE
    /\ disposed = FALSE
    /\ results = {}
    /\ pc = [t \in Threads |-> "idle"]

Goto(t, s) == pc' = [pc EXCEPT ![t] = s]

------------------------------------------------------------------------------
(* SafeHandle, of the .NET runtime.                                        *)

\* One reference less; giving back the last one closes the handle and runs ReleaseHandle.
GiveBack(t, next, last) ==
    /\ refs' = refs - 1
    /\ closed' = (closed \/ refs = 1)
    /\ Goto(t, IF refs = 1 THEN last ELSE next)

\* SafeHandle.Dispose gives the owner's reference back, once.
DisposeHandle(t, next, last) ==
    IF disposed
    THEN Goto(t, next) /\ UNCHANGED safe_handle
    ELSE disposed' = TRUE /\ GiveBack(t, next, last)

\* ReleaseHandle: lw_ppocr_destroy is entered and returns.
EnterDestroy(t) ==
    /\ pc[t] \in {"release_handle", "release_handle_in_dispose"}
    /\ native' = "destroying"
    /\ destroys' = destroys + 1
    /\ Goto(t, IF pc[t] = "release_handle" THEN "destroying" ELSE "destroying_in_dispose")
    /\ UNCHANGED <<shared, field, safe_handle, results>>

LeaveDestroy(t) ==
    /\ pc[t] \in {"destroying", "destroying_in_dispose"}
    /\ native' = "destroyed"
    /\ Goto(t, IF pc[t] = "destroying" THEN "idle" ELSE "clear")
    /\ UNCHANGED <<shared, field, destroys, safe_handle, results>>

------------------------------------------------------------------------------
(* The constructor.  Other threads get the object when it returns.         *)

\* lw_ppocr_create succeeds (when it fails there is no object).
Construct(t) ==
    /\ native = "none"
    /\ native' = "alive"
    /\ field' = TRUE
    /\ refs' = 1
    /\ Goto(t, "constructing")
    /\ UNCHANGED <<shared, destroys, closed, disposed, results>>

\* ReadCapabilities succeeds; or it throws, and the handle is disposed and forgotten.
ConstructDone(t) ==
    /\ pc[t] = "constructing"
    /\ \/ Goto(t, "idle") /\ shared' = TRUE /\ UNCHANGED safe_handle
       \/ DisposeHandle(t, "clear", "release_handle_in_dispose") /\ UNCHANGED shared
    /\ UNCHANGED <<field, native, destroys, results>>

------------------------------------------------------------------------------
(* Run and RecognizeBatch.                                                 *)

\* GetHandle copies the field, or throws ObjectDisposedException; so may the checks
\* of the arguments that follow it.
GetHandle(t) ==
    /\ shared
    /\ pc[t] = "idle"
    /\ field /\ ~closed
    /\ Goto(t, "add_ref")
    /\ UNCHANGED <<shared, field, native, destroys, safe_handle, results>>

\* Mutant: the handle is used without DangerousAddRef.
AddRefForgotten(t) ==
    /\ pc[t] = "add_ref"
    /\ Goto(t, IF closed THEN "idle" ELSE "call")
    /\ UNCHANGED <<shared, field, native, destroys, safe_handle, results>>

\* DangerousAddRef; on a handle closed in between it throws, and nothing is released.
AddRef(t) ==
    /\ pc[t] = "add_ref"
    /\ refs' = IF closed THEN refs ELSE refs + 1
    /\ Goto(t, IF closed THEN "idle" ELSE "call")
    /\ UNCHANGED <<shared, field, native, destroys, closed, disposed, results>>

\* The native call fails, and CreateException throws, or it returns a result.
NativeCall(t) ==
    /\ pc[t] = "call"
    /\ \/ Goto(t, "release") /\ UNCHANGED results
       \/ Goto(t, "copy") /\ results' = results \cup {t}
    /\ UNCHANGED <<shared, field, native, destroys, safe_handle>>

\* CopyResult returns or throws; the finally block frees the native result.
Copy(t) ==
    /\ pc[t] = "copy"
    /\ results' = results \ {t}
    /\ Goto(t, "release")
    /\ UNCHANGED <<shared, field, native, destroys, safe_handle>>

\* Mutant: the reference is not released when the call has thrown.
ReleaseOnSuccess(t) ==
    /\ pc[t] = "release"
    /\ \/ Goto(t, "idle") /\ UNCHANGED safe_handle
       \/ GiveBack(t, "idle", "release_handle") /\ UNCHANGED disposed
    /\ UNCHANGED <<shared, field, native, destroys, results>>

\* DangerousRelease, in the outer finally block.
Release(t) ==
    /\ pc[t] = "release"
    /\ GiveBack(t, "idle", "release_handle")
    /\ UNCHANGED <<shared, field, native, destroys, disposed, results>>

------------------------------------------------------------------------------
(* Dispose.  Nothing is locked: another thread may clear the field between *)
(* two of its reads.                                                       *)

Dispose(t) ==
    /\ shared
    /\ pc[t] = "idle"
    /\ field
    /\ Goto(t, "dispose")
    /\ UNCHANGED <<shared, field, native, destroys, safe_handle, results>>

\* handle.Dispose(): on a field that has become null it throws.
DisposeStep(t) ==
    /\ pc[t] = "dispose"
    /\ IF field
       THEN DisposeHandle(t, "clear", "release_handle_in_dispose")
       ELSE Goto(t, "idle") /\ UNCHANGED safe_handle
    /\ UNCHANGED <<shared, field, native, destroys, results>>

ClearField(t) ==
    /\ pc[t] = "clear"
    /\ field' = FALSE
    /\ Goto(t, "idle")
    /\ UNCHANGED <<shared, native, destroys, safe_handle, results>>

------------------------------------------------------------------------------
\* What a thread does once it is inside a method.
Proceed(t) ==
    \/ ConstructDone(t) \/ AddRef(t) \/ NativeCall(t) \/ Copy(t) \/ Release(t)
    \/ DisposeStep(t) \/ ClearField(t) \/ EnterDestroy(t) \/ LeaveDestroy(t)

Next == \E t \in Threads : Construct(t) \/ GetHandle(t) \/ Dispose(t) \/ Proceed(t)

Spec == Init /\ [][Next]_vars

\* A thread inside a method goes on, and native calls return; nobody has to call anything.
FairSpec == Spec /\ \A t \in Threads : WF_vars(Proceed(t))

------------------------------------------------------------------------------
(* The contract of the native API, kept whatever the threads of the object do: *)
(* destroy is entered once, when no native call is running and all results are *)
(* freed, and no call begins later.                                            *)
DestroyIsAlone ==
    /\ destroys <= 1
    /\ native \in {"destroying", "destroyed"} =>
          results = {} /\ \A t \in Threads : pc[t] \notin {"call", "copy", "constructing"}

(* Disposing releases the models: at once, or when the calls in progress end.  *)
DisposedIsDestroyed == disposed ~> native = "destroyed"
==============================================================================
