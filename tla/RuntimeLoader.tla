---------------------------- MODULE RuntimeLoader ----------------------------
(***************************************************************************)
(* The Loader behind the public C ABI: it maps a Runtime library into the  *)
(* process for every engine, forwards the calls of several threads to it,  *)
(* and reports failures as a text each thread reads for itself.            *)
(*                                                                         *)
(* Two things make it delicate.  The Runtimes are libraries counted by the *)
(* operating system, so that destroying one engine must not unmap the code *)
(* another thread is running.  And an error text passes through two        *)
(* thread-local strings, one in the Runtime, shared by all its engines,    *)
(* and one in the Loader, of which later calls overwrite the first.        *)
(*                                                                         *)
(* Callers keep the threading contract of ppocr_api.h: an engine is        *)
(* destroyed when no call is using it and its results are freed.           *)
(***************************************************************************)
EXTENDS Integers, FiniteSets

CONSTANTS
    Threads,    \* threads of the client
    Engines,    \* the client's lw_ppocr_handle variables
    Libraries,  \* Runtime libraries
    None,       \* no library: a null handle
    MaxRefs,    \* bound: references to one library
    MaxResults, \* bound: results outstanding on one engine
    AllocFails  \* may the Loader run out of memory while it reads a Runtime's error?

ASSUME LoaderAssumption ==
    /\ None \notin Libraries
    /\ MaxRefs \in Nat
    /\ MaxResults \in Nat
    /\ AllocFails \in BOOLEAN

(***************************************************************************)
(* Texts are told apart by who wrote them and in which call of the thread. *)
(* Call numbers go round, far enough apart for an old text to be noticed.  *)
(***************************************************************************)
Rounds == 0 .. 2
Texts  == ({"loader", "runtime", "generic"} \X Rounds) \cup {<<>>}
Empty  == <<>>

VARIABLES
    refs,      \* [Libraries -> Nat]: LoadLibrary/dlopen minus FreeLibrary/dlclose
    handle,    \* [Engines -> library of the engine, or None for a null handle]
    results,   \* [Engines -> Nat]: results and strings not yet freed
    pc,        \* where a thread is
    call,      \* the thread's call: operation, engine, library
    round,     \* the number of the thread's call
    rt_error,  \* [Threads -> [Libraries -> Texts]]: the Runtime's g_last_error
    error,     \* [Threads -> Texts]: the Loader's g_last_error
    local,     \* the local runtime_error of the call in progress
    outcome,   \* how the thread's last call ended
    cause,     \* what made it fail
    starved    \* a creation was interrupted by std::bad_alloc

vars == <<refs, handle, results, pc, call, round, rt_error, error, local, outcome, cause, starved>>

Idle == [op |-> "none", engine |-> None, lib |-> None]

Init ==
    /\ refs = [l \in Libraries |-> 0]
    /\ handle = [e \in Engines |-> None]
    /\ results = [e \in Engines |-> 0]
    /\ pc = [t \in Threads |-> "idle"]
    /\ call = [t \in Threads |-> Idle]
    /\ round = [t \in Threads |-> 0]
    /\ rt_error = [t \in Threads |-> [l \in Libraries |-> Empty]]
    /\ error = [t \in Threads |-> Empty]
    /\ local = [t \in Threads |-> Empty]
    /\ outcome = [t \in Threads |-> "none"]
    /\ cause = [t \in Threads |-> Empty]
    /\ starved = FALSE

Lib(t) == call[t].lib

\* No call on engine e is in progress.
Unused(e) == \A t \in Threads : call[t].engine # e

Goto(t, s) == pc' = [pc EXCEPT ![t] = s]

\* Mutant: g_last_error of the Runtime is not thread_local.
SetRuntimeErrorOfAll(t, text) ==
    rt_error' = [s \in Threads |-> [rt_error[s] EXCEPT ![Lib(t)] = text]]

SetRuntimeError(t, text) == rt_error' = [rt_error EXCEPT ![t][Lib(t)] = text]

Start(t, op, e, l, s) ==
    /\ pc[t] = "idle"
    /\ Goto(t, s)
    /\ call' = [call EXCEPT ![t] = [op |-> op, engine |-> e, lib |-> l]]
    /\ round' = [round EXCEPT ![t] = (@ + 1) % 3]
    /\ local' = [local EXCEPT ![t] = Empty]
    /\ outcome' = [outcome EXCEPT ![t] = "none"]
    /\ cause' = [cause EXCEPT ![t] = Empty]

End(t, how, text) ==
    /\ Goto(t, "idle")
    /\ call' = [call EXCEPT ![t] = Idle]
    /\ outcome' = [outcome EXCEPT ![t] = how]
    /\ error' = [error EXCEPT ![t] = text]

\* The call fails for a reason of the Loader's own.
FailHere(t) ==
    /\ End(t, "failed", <<"loader", round[t]>>)
    /\ cause' = [cause EXCEPT ![t] = <<"loader", round[t]>>]

------------------------------------------------------------------------------
(* lw_ppocr_create                                                         *)

Create(t, e, l) ==
    /\ handle[e] = None
    /\ Unused(e)
    /\ Start(t, "create", e, l, "open")
    /\ UNCHANGED <<refs, handle, results, rt_error, error, starved>>

\* The configuration is rejected, or the library cannot be loaded.
OpenFails(t) ==
    /\ pc[t] = "open"
    /\ FailHere(t)
    /\ UNCHANGED <<refs, handle, results, round, rt_error, local, starved>>

OpenRuntimeLibrary(t) ==
    /\ pc[t] = "open"
    /\ refs[Lib(t)] < MaxRefs
    /\ refs' = [refs EXCEPT ![Lib(t)] = @ + 1]
    /\ Goto(t, "table")
    /\ UNCHANGED <<handle, results, call, round, rt_error, error, local, outcome, cause, starved>>

\* Mutant: the library stays mapped when its table is refused.
TableRefusedKeepsModule(t) ==
    /\ pc[t] = "table"
    /\ FailHere(t)
    /\ UNCHANGED <<refs, handle, results, round, rt_error, local, starved>>

\* No entry point, an incomplete or incompatible table, or no memory for the engine.
TableRefused(t) ==
    /\ pc[t] = "table"
    /\ refs' = [refs EXCEPT ![Lib(t)] = @ - 1]
    /\ FailHere(t)
    /\ UNCHANGED <<handle, results, round, rt_error, local, starved>>

EnterCreate(t) ==
    /\ pc[t] = "table"
    /\ Goto(t, "creating")
    /\ UNCHANGED <<refs, handle, results, call, round, rt_error, error, local, outcome, cause, starved>>

\* runtime_api->create succeeds and the handle is handed out.
Created(t) ==
    /\ pc[t] = "creating"
    /\ SetRuntimeError(t, Empty)
    /\ handle' = [handle EXCEPT ![call[t].engine] = Lib(t)]
    /\ End(t, "ok", Empty)
    /\ UNCHANGED <<refs, results, round, local, cause, starved>>

\* A Runtime entry point fails: Guard, or the argument checks before it, keep the text.
RuntimeFails(t) ==
    /\ pc[t] \in {"creating", "running"}
    /\ SetRuntimeError(t, <<"runtime", round[t]>>)
    /\ cause' = [cause EXCEPT ![t] = <<"runtime", round[t]>>]
    /\ Goto(t, "read_error")
    /\ UNCHANGED <<refs, handle, results, call, round, error, local, outcome, starved>>

\* RuntimeLastError copies the Runtime's text.
ReadError(t) ==
    /\ pc[t] = "read_error"
    /\ local' = [local EXCEPT ![t] = rt_error[t][Lib(t)]]
    /\ Goto(t, IF call[t].op = "create" THEN "close" ELSE "report")
    /\ UNCHANGED <<refs, handle, results, call, round, rt_error, error, outcome, cause, starved>>

\* Its vector or its string cannot be allocated.  create catches the exception, past
\* the point where it would have closed the library; the other functions have no
\* handler, and the exception leaves through the C ABI.
ReadErrorThrows(t) ==
    /\ AllocFails
    /\ pc[t] = "read_error"
    /\ \/ /\ call[t].op = "create"
          /\ FailHere(t)
          /\ starved' = TRUE
       \/ /\ call[t].op # "create"
          /\ End(t, "thrown", error[t])
          /\ UNCHANGED <<cause, starved>>
    /\ UNCHANGED <<refs, handle, results, round, rt_error, local>>

\* Unmapping a library may or may not destroy the strings of its threads.
Unmap(t) ==
    /\ refs' = [refs EXCEPT ![Lib(t)] = @ - 1]
    /\ \/ UNCHANGED rt_error
       \/ /\ refs[Lib(t)] = 1
          /\ rt_error' = [s \in Threads |-> [rt_error[s] EXCEPT ![Lib(t)] = Empty]]

\* What the caller is told: the Runtime's text, or a general one if it left none.
Report(t) == IF local[t] = Empty THEN <<"generic", round[t]>> ELSE local[t]

CloseFailed(t) ==
    /\ pc[t] = "close"
    /\ Unmap(t)
    /\ End(t, "failed", Report(t))
    /\ UNCHANGED <<handle, results, round, local, cause, starved>>

------------------------------------------------------------------------------
(* lw_ppocr_run, lw_ppocr_run_json, lw_ppocr_recognize_batch and            *)
(* lw_ppocr_get_capabilities, which makes no result ("query").              *)

Call(t, e, op) ==
    /\ handle[e] # None
    /\ op = "run" => results[e] < MaxResults
    /\ Start(t, op, e, handle[e], "validate")
    /\ UNCHANGED <<refs, handle, results, rt_error, error, starved>>

\* An image is malformed, or the Runtime's table has no recognition functions.
Rejected(t) ==
    /\ pc[t] = "validate"
    /\ FailHere(t)
    /\ UNCHANGED <<refs, handle, results, round, rt_error, local, starved>>

EnterRuntime(t) ==
    /\ pc[t] = "validate"
    /\ Goto(t, "running")
    /\ UNCHANGED <<refs, handle, results, call, round, rt_error, error, local, outcome, cause, starved>>

RuntimeSucceeds(t) ==
    /\ pc[t] = "running"
    /\ SetRuntimeError(t, Empty)
    /\ results' = IF call[t].op = "run" THEN [results EXCEPT ![call[t].engine] = @ + 1] ELSE results
    /\ End(t, "ok", Empty)
    /\ UNCHANGED <<refs, handle, round, local, cause, starved>>

ReportFailure(t) ==
    /\ pc[t] = "report"
    /\ End(t, "failed", Report(t))
    /\ UNCHANGED <<refs, handle, results, round, rt_error, local, cause, starved>>

------------------------------------------------------------------------------
(* The free functions and lw_ppocr_destroy.                                *)

Free(t, e) ==
    /\ pc[t] = "idle"
    /\ handle[e] # None
    /\ results[e] > Cardinality({s \in Threads : pc[s] = "freeing" /\ call[s].engine = e})
    /\ Goto(t, "freeing")
    /\ call' = [call EXCEPT ![t] = [op |-> "free", engine |-> e, lib |-> handle[e]]]
    /\ UNCHANGED <<refs, handle, results, round, rt_error, error, local, outcome, cause, starved>>

\* Freeing reports nothing: the error of the last call stays readable.
Freed(t) ==
    /\ pc[t] = "freeing"
    /\ results' = [results EXCEPT ![call[t].engine] = @ - 1]
    /\ Goto(t, "idle")
    /\ call' = [call EXCEPT ![t] = Idle]
    /\ UNCHANGED <<refs, handle, round, rt_error, error, local, outcome, cause, starved>>

\* Mutant: the library is closed before its destroy function has run.
DestroyUnmapsFirst(t, e) ==
    /\ handle[e] # None
    /\ results[e] = 0
    /\ Unused(e)
    /\ Start(t, "destroy", e, handle[e], "destroying")
    /\ refs' = [refs EXCEPT ![handle[e]] = @ - 1]
    /\ handle' = [handle EXCEPT ![e] = None]
    /\ UNCHANGED <<results, rt_error, error, starved>>

Destroy(t, e) ==
    /\ handle[e] # None
    /\ results[e] = 0
    /\ Unused(e)
    /\ Start(t, "destroy", e, handle[e], "destroying")
    /\ handle' = [handle EXCEPT ![e] = None]
    /\ UNCHANGED <<refs, results, rt_error, error, starved>>

\* runtime_api->destroy returns, having cleared the Runtime's text.
Destroyed(t) ==
    /\ pc[t] = "destroying"
    /\ SetRuntimeError(t, Empty)
    /\ Goto(t, "unmap")
    /\ UNCHANGED <<refs, handle, results, call, round, error, local, outcome, cause, starved>>

CloseDestroyed(t) ==
    /\ pc[t] = "unmap"
    /\ Unmap(t)
    /\ End(t, "ok", Empty)
    /\ UNCHANGED <<handle, results, round, local, cause, starved>>

------------------------------------------------------------------------------
Next ==
    \E t \in Threads :
        \/ \E e \in Engines : \/ \E l \in Libraries : Create(t, e, l)
                              \/ \E op \in {"run", "query"} : Call(t, e, op)
                              \/ Free(t, e)
                              \/ Destroy(t, e)
        \/ OpenFails(t) \/ OpenRuntimeLibrary(t) \/ TableRefused(t) \/ EnterCreate(t)
        \/ Created(t) \/ RuntimeFails(t) \/ ReadError(t) \/ ReadErrorThrows(t)
        \/ CloseFailed(t) \/ Rejected(t) \/ EnterRuntime(t) \/ RuntimeSucceeds(t)
        \/ ReportFailure(t) \/ Freed(t) \/ Destroyed(t) \/ CloseDestroyed(t)

Spec == Init /\ [][Next]_vars

------------------------------------------------------------------------------
\* A thread executes code of its Runtime library.
Inside(t) == pc[t] \in {"creating", "running", "read_error", "freeing", "destroying"}

(* Destroying or failing to create one engine never unmaps code that another   *)
(* thread is running, or will run to use or free what it holds.                *)
MappedWhileUsed ==
    /\ \A t \in Threads : Inside(t) => refs[Lib(t)] > 0
    /\ \A e \in Engines : handle[e] # None => refs[handle[e]] > 0

\* Who must give back a reference to library l: its engines, and the calls that are
\* about to make or have just unmade one.
Owed(l) == Cardinality({e \in Engines : handle[e] = l})
           + Cardinality({t \in Threads : Lib(t) = l /\ pc[t] \in
                 {"table", "creating", "close", "destroying", "unmap"}})
           + Cardinality({t \in Threads : Lib(t) = l /\ pc[t] = "read_error" /\ call[t].op = "create"})

(* Every way out of create and destroy gives its reference back, whichever     *)
(* step of it fails; only a bad_alloc in the error path of create leaks one.   *)
ReferencesBalanced ==
    \A l \in Libraries : refs[l] >= Owed(l) /\ (starved \/ refs[l] = Owed(l))

(* What a thread reads after a failure is the text of that very failure, as    *)
(* the part that failed worded it: not another thread's, not an older one, and *)
(* not a general text in place of the Runtime's own.                           *)
ErrorTextOfThisCall ==
    \A t \in Threads : /\ outcome[t] = "failed" => error[t] = cause[t]
                       /\ outcome[t] = "ok" => error[t] = Empty

(* "No C++ exception may pass the DLL boundary."                               *)
NoExceptionCrosses == \A t \in Threads : outcome[t] # "thrown"
==============================================================================
