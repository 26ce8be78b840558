------------------------- MODULE ManagedEngineProofs -------------------------
(***************************************************************************)
(* The native engine is destroyed once and alone, for any number of        *)
(* threads.                                                                *)
(***************************************************************************)
EXTENDS ManagedEngine, FiniteSetTheorems, TLAPS

Constructing == {"constructing"}
Calling      == {"call", "copy", "release"}   \* with a reference of its own
Releasing    == {"release_handle", "release_handle_in_dispose"}
Destroying   == {"destroying", "destroying_in_dispose"}
Quiet        == {"idle", "clear"}
States       == Quiet \cup Constructing \cup Calling \cup Releasing \cup Destroying \cup {"add_ref", "dispose"}

TypeOK ==
    /\ pc \in [Threads -> States]
    /\ native \in {"none", "alive", "destroying", "destroyed"}
    /\ shared \in BOOLEAN /\ disposed \in BOOLEAN /\ closed \in BOOLEAN

\* There is a reference for the owner, until it is given back, and one for each call.
Holders == {t \in Threads : pc[t] \in Calling}
Owner == IF native # "none" /\ ~disposed THEN 1 ELSE 0

Counted ==
    /\ IsFiniteSet(Holders)
    /\ refs = Owner + Cardinality(Holders)
    /\ closed <=> native # "none" /\ refs = 0

\* Until the constructor returns there is one thread, and it has not given up.
Private ==
    /\ native = "none" => ~disposed /\ ~shared /\ \A t \in Threads : pc[t] = "idle"
    /\ ~shared => \A t \in Threads : pc[t] \in Quiet \cup Constructing \cup Releasing \cup Destroying
    /\ \A t \in Threads : pc[t] \in Constructing => ~shared /\ ~disposed
    /\ \A t, u \in Threads : pc[t] \in Constructing /\ pc[u] \in Constructing => t = u

\* Closing the handle makes one thread the one that will destroy.
Once ==
    /\ destroys = IF native \in {"none", "alive"} THEN 0 ELSE 1
    /\ native \in {"destroying", "destroyed"} => closed
    /\ \A t \in Threads : pc[t] \in Releasing => closed /\ native = "alive"
    /\ \A t, u \in Threads : pc[t] \in Releasing /\ pc[u] \in Releasing => t = u
    /\ \A t \in Threads : pc[t] \in Destroying => native \in {"destroying", "destroyed"}

ResultsOfCalls == results = {t \in Threads : pc[t] = "copy"}

IInv == TypeOK /\ Counted /\ Private /\ Once /\ ResultsOfCalls

USE DEF States, Quiet, Constructing, Calling, Releasing, Destroying

\* The references of the calls, as one thread moves.
LEMMA SameHolders ==
    ASSUME TypeOK, Counted, NEW t \in Threads, NEW s, Goto(t, s), s \in Calling <=> pc[t] \in Calling
    PROVE  Holders' = Holders
BY DEF TypeOK, Goto, Holders

LEMMA OneMoreHolder ==
    ASSUME TypeOK, Counted, NEW t \in Threads, NEW s \in Calling, Goto(t, s), pc[t] \notin Calling
    PROVE  /\ IsFiniteSet(Holders')
           /\ Cardinality(Holders') = Cardinality(Holders) + 1
           /\ Cardinality(Holders) \in Nat
<1>1. Holders' = Holders \cup {t} /\ t \notin Holders
  BY DEF TypeOK, Goto, Holders
<1>2. QED
  BY <1>1, FS_AddElement, FS_CardinalityType DEF Counted

LEMMA OneHolderLess ==
    ASSUME TypeOK, Counted, NEW t \in Threads, NEW s, s \notin Calling, Goto(t, s), pc[t] \in Calling
    PROVE  /\ IsFiniteSet(Holders')
           /\ Cardinality(Holders') = Cardinality(Holders) - 1
           /\ Cardinality(Holders) \in Nat \ {0}
<1>1. Holders' = Holders \ {t} /\ t \in Holders
  BY DEF TypeOK, Goto, Holders
<1>2. IsFiniteSet(Holders') /\ Cardinality(Holders') = Cardinality(Holders) - 1
  BY <1>1, FS_RemoveElement DEF Counted
<1>3. Cardinality(Holders) \in Nat /\ Cardinality(Holders') \in Nat
  BY <1>2, FS_CardinalityType DEF Counted
<1>4. QED
  BY <1>2, <1>3

LEMMA RefsNatural ==
    ASSUME TypeOK, Counted
    PROVE  /\ Cardinality(Holders) \in Nat
           /\ refs \in Nat
           /\ native # "none" /\ ~disposed => refs > 0
           /\ \A t \in Threads : pc[t] \in Calling => refs > 0
<1>1. Cardinality(Holders) \in Nat
  BY FS_CardinalityType DEF Counted
<1>2. ASSUME NEW t \in Threads, pc[t] \in Calling
      PROVE  Cardinality(Holders) # 0
  BY <1>2, FS_EmptySet DEF Holders, Counted
<1>3. QED
  BY <1>1, <1>2 DEF Counted, Owner

\* A handle that is closed was disposed, and no call has a reference to it.
LEMMA ClosedIsUnused ==
    ASSUME TypeOK, Counted, closed
    PROVE  /\ disposed /\ native # "none"
           /\ \A t \in Threads : pc[t] \notin Calling
BY RefsNatural DEF Counted

\* Whoever is inside a method has been given a native engine.
LEMMA NativeExists ==
    ASSUME Private, NEW t \in Threads, pc[t] # "idle"
    PROVE  native # "none"
BY DEF Private

\* Giving back the last reference closes the handle; nobody has done so before.
LEMMA GiveBackOnce ==
    ASSUME TypeOK, Private, Once, Counted, NEW t \in Threads, refs > 0, pc[t] # "idle", pc[t] \notin Releasing \cup Destroying,
           NEW next \in Quiet, NEW last \in Releasing, GiveBack(t, next, last),
           UNCHANGED <<native, destroys>>
    PROVE  Once'
<1>1. ~closed /\ native = "alive"
  BY NativeExists DEF Counted, Once, TypeOK
<1>2. CASE refs = 1
  <2>1. pc' = [pc EXCEPT ![t] = last] /\ closed'
    BY <1>2 DEF GiveBack, Goto
  <2>2. QED
    BY <1>1, <2>1 DEF Once, TypeOK
<1>3. CASE refs # 1
  <2>1. pc' = [pc EXCEPT ![t] = next] /\ closed' = closed
    BY <1>1, <1>3 DEF GiveBack, Goto, TypeOK
  <2>2. QED
    BY <1>1, <2>1 DEF Once, TypeOK
<1>4. QED
  BY <1>2, <1>3

------------------------------------------------------------------------------
LEMMA InitIInv == Init => IInv
<1> SUFFICES ASSUME Init PROVE IInv
  OBVIOUS
<1>1. Holders = {}
  BY DEF Init, Holders
<1>2. Counted
  BY <1>1, FS_EmptySet DEF Init, Counted, Owner
<1>3. QED
  BY <1>2 DEF Init, IInv, TypeOK, Private, Once, ResultsOfCalls

LEMMA ConstructIInv ==
    ASSUME IInv, NEW t \in Threads, Construct(t)
    PROVE  IInv'
<1>1. Holders = {} /\ Holders' = {}
  BY DEF IInv, Construct, Goto, Holders, Private, TypeOK
<1>2. Counted'
  BY <1>1, FS_EmptySet DEF IInv, Construct, Counted, Owner, Private, TypeOK
<1>3. TypeOK' /\ Private'
  BY DEF IInv, Construct, Goto, TypeOK, Private
<1>4. Once' /\ ResultsOfCalls'
  BY DEF IInv, Construct, Goto, TypeOK, Private, Once, ResultsOfCalls
<1>5. QED
  BY <1>2, <1>3, <1>4 DEF IInv

\* A step of a thread that neither takes nor gives back a reference, nor touches
\* the native engine or its results.
LEMMA PlainStepIInv ==
    ASSUME IInv, NEW t \in Threads, NEW s \in States \ (Constructing \cup Calling \cup Releasing \cup Destroying),
           Goto(t, s), pc[t] \notin Calling, s \in {"add_ref", "dispose"} => shared, pc[t] # "idle" \/ shared,
           UNCHANGED shared \/ (pc[t] \in Constructing /\ shared' = TRUE),
           UNCHANGED <<native, destroys, safe_handle, results>>
    PROVE  IInv'
<1>1. Holders' = Holders
  BY SameHolders DEF IInv
<1>2. Counted'
  BY <1>1 DEF IInv, Counted, Owner, safe_handle
<1>3. TypeOK'
  BY DEF IInv, TypeOK, Goto, safe_handle
<1>4. Private'
  BY DEF IInv, TypeOK, Private, Goto, safe_handle
<1>5. Once' /\ ResultsOfCalls'
  BY DEF IInv, TypeOK, Once, ResultsOfCalls, Goto, safe_handle
<1>6. QED
  BY <1>2, <1>3, <1>4, <1>5 DEF IInv

\* The owner's reference is given back, once.
LEMMA DisposeHandleIInv ==
    ASSUME IInv, NEW t \in Threads, pc[t] \in {"constructing", "dispose"},
           DisposeHandle(t, "clear", "release_handle_in_dispose"),
           UNCHANGED <<shared, native, destroys, results>>
    PROVE  IInv'
<1>1. CASE disposed
  BY <1>1, PlainStepIInv DEF DisposeHandle
<1>2. CASE ~disposed
  <2>1. disposed' /\ GiveBack(t, "clear", "release_handle_in_dispose")
    BY <1>2 DEF DisposeHandle
  <2>2. PICK s \in {"clear", "release_handle_in_dispose"} : Goto(t, s)
    BY <2>1 DEF GiveBack
  <2>3. native # "none" /\ refs > 0 /\ refs \in Nat
    BY <1>2, NativeExists, RefsNatural DEF IInv
  <2>4. Holders' = Holders
    BY <2>2, SameHolders DEF IInv
  <2>5. Owner = 1 /\ Owner' = 0
    BY <1>2, <2>1, <2>3 DEF Owner
  <2>6. refs' = refs - 1 /\ (closed' <=> closed \/ refs = 1)
    BY <2>1 DEF GiveBack
  <2>7. Counted'
    BY <2>3, <2>4, <2>5, <2>6, RefsNatural DEF IInv, Counted
  <2>8. TypeOK'
    BY <2>1, <2>2 DEF IInv, TypeOK, Goto, GiveBack
  <2>9. Private'
    BY <2>1, <2>2 DEF IInv, TypeOK, Private, Goto
  <2>10. Once'
    BY <2>1, <2>3, GiveBackOnce DEF IInv
  <2>11. ResultsOfCalls'
    BY <2>2 DEF IInv, TypeOK, ResultsOfCalls, Goto
  <2>12. QED
    BY <2>7, <2>8, <2>9, <2>10, <2>11 DEF IInv
<1>3. QED
  BY <1>1, <1>2

LEMMA ConstructDoneIInv ==
    ASSUME IInv, NEW t \in Threads, ConstructDone(t)
    PROVE  IInv'
<1>1. CASE Goto(t, "idle") /\ shared' = TRUE /\ UNCHANGED safe_handle
  BY <1>1, PlainStepIInv DEF ConstructDone
<1>2. CASE DisposeHandle(t, "clear", "release_handle_in_dispose") /\ UNCHANGED shared
  BY <1>2, DisposeHandleIInv DEF ConstructDone
<1>3. QED
  BY <1>1, <1>2 DEF ConstructDone

LEMMA GetHandleIInv ==
    ASSUME IInv, NEW t \in Threads, GetHandle(t)
    PROVE  IInv'
BY PlainStepIInv DEF GetHandle

LEMMA DisposeIInv ==
    ASSUME IInv, NEW t \in Threads, Dispose(t)
    PROVE  IInv'
BY PlainStepIInv DEF Dispose

LEMMA DisposeStepIInv ==
    ASSUME IInv, NEW t \in Threads, DisposeStep(t)
    PROVE  IInv'
<1>1. CASE field
  BY <1>1, DisposeHandleIInv DEF DisposeStep
<1>2. CASE ~field
  BY <1>2, PlainStepIInv DEF DisposeStep
<1>3. QED
  BY <1>1, <1>2

LEMMA ClearFieldIInv ==
    ASSUME IInv, NEW t \in Threads, ClearField(t)
    PROVE  IInv'
BY PlainStepIInv DEF ClearField

LEMMA AddRefIInv ==
    ASSUME IInv, NEW t \in Threads, AddRef(t)
    PROVE  IInv'
<1>1. CASE closed
  BY <1>1, PlainStepIInv DEF AddRef, safe_handle
<1>2. CASE ~closed
  <2>1. Goto(t, "call") /\ refs' = refs + 1 /\ pc[t] = "add_ref"
    BY <1>2 DEF AddRef
  <2>2. native # "none" /\ shared
    BY <2>1, NativeExists DEF IInv, Private
  <2>3. /\ IsFiniteSet(Holders') /\ Cardinality(Holders) \in Nat
        /\ Cardinality(Holders') = Cardinality(Holders) + 1
    BY <2>1, OneMoreHolder DEF IInv
  <2>4. Counted'
    BY <1>2, <2>1, <2>2, <2>3 DEF IInv, Counted, Owner, AddRef
  <2>5. TypeOK' /\ Private'
    BY <2>1, <2>2 DEF IInv, TypeOK, Private, AddRef, Goto
  <2>6. Once' /\ ResultsOfCalls'
    BY <2>1, <2>2 DEF IInv, TypeOK, Once, ResultsOfCalls, AddRef, Goto
  <2>7. QED
    BY <2>4, <2>5, <2>6 DEF IInv
<1>3. QED
  BY <1>1, <1>2

\* A call goes on with its reference.
LEMMA CallIInv ==
    ASSUME IInv, NEW t \in Threads, NativeCall(t) \/ Copy(t)
    PROVE  IInv'
<1>1. PICK s \in {"copy", "release"} : /\ Goto(t, s)
                                        /\ results' = IF s = "copy" THEN results \cup {t} ELSE results \ {t}
  BY DEF IInv, NativeCall, Copy, ResultsOfCalls
<1>2. /\ pc[t] \in {"call", "copy"}
      /\ UNCHANGED <<shared, field, native, destroys, safe_handle>>
  BY DEF NativeCall, Copy
<1>3. native # "none" /\ shared
  BY <1>2, NativeExists DEF IInv, Private
<1>4. Counted'
  <2>1. Holders' = Holders
    BY <1>1, <1>2, SameHolders DEF IInv
  <2>2. QED
    BY <2>1, <1>2 DEF IInv, Counted, Owner, safe_handle
<1>5. TypeOK' /\ Private'
  BY <1>1, <1>2, <1>3 DEF IInv, TypeOK, Private, Goto, safe_handle
<1>6. Once' /\ ResultsOfCalls'
  BY <1>1, <1>2, <1>3 DEF IInv, TypeOK, Once, ResultsOfCalls, Goto, safe_handle
<1>7. QED
  BY <1>4, <1>5, <1>6 DEF IInv

\* DangerousRelease may be the last one.
LEMMA ReleaseIInv ==
    ASSUME IInv, NEW t \in Threads, Release(t)
    PROVE  IInv'
<1>1. /\ pc[t] = "release" /\ GiveBack(t, "idle", "release_handle")
      /\ UNCHANGED <<shared, field, native, destroys, disposed, results>>
  BY DEF Release
<1>2. PICK s \in {"idle", "release_handle"} : Goto(t, s)
  BY <1>1 DEF GiveBack
<1>3. native # "none" /\ shared /\ refs > 0 /\ refs \in Nat
  BY <1>1, NativeExists, RefsNatural DEF IInv, Private
<1>4. /\ IsFiniteSet(Holders') /\ Cardinality(Holders) \in Nat
      /\ Cardinality(Holders') = Cardinality(Holders) - 1
  BY <1>1, <1>2, OneHolderLess DEF IInv
<1>5. refs' = refs - 1 /\ (closed' <=> closed \/ refs = 1)
  BY <1>1 DEF GiveBack
<1>6. Counted'
  BY <1>1, <1>3, <1>4, <1>5 DEF IInv, Counted, Owner
<1>7. TypeOK' /\ Private'
  BY <1>1, <1>2, <1>3 DEF IInv, TypeOK, Private, Goto, GiveBack
<1>8. Once'
  BY <1>1, <1>3, GiveBackOnce DEF IInv
<1>9. ResultsOfCalls'
  BY <1>1, <1>2 DEF IInv, TypeOK, ResultsOfCalls, Goto
<1>10. QED
  BY <1>6, <1>7, <1>8, <1>9 DEF IInv

\* The thread that closed the handle enters lw_ppocr_destroy and leaves it.
LEMMA DestroyIInv ==
    ASSUME IInv, NEW t \in Threads, EnterDestroy(t) \/ LeaveDestroy(t)
    PROVE  IInv'
<1>1. PICK s \in Destroying \cup Quiet : Goto(t, s)
  BY DEF EnterDestroy, LeaveDestroy
<1>2. /\ pc[t] \in Releasing \cup Destroying /\ closed
      /\ native # "none" /\ native' \in {"destroying", "destroyed"}
      /\ UNCHANGED <<shared, safe_handle, results>>
  BY DEF IInv, Once, EnterDestroy, LeaveDestroy
<1>3. Counted'
  <2>1. Holders' = Holders
    BY <1>1, <1>2, SameHolders DEF IInv
  <2>2. QED
    BY <2>1, <1>2 DEF IInv, Counted, Owner, safe_handle
<1>4. TypeOK' /\ Private'
  BY <1>1, <1>2 DEF IInv, TypeOK, Private, Goto, safe_handle
<1>5. Once'
  <2>1. CASE EnterDestroy(t)
    BY <1>2, <2>1 DEF IInv, TypeOK, Once, EnterDestroy, Goto, safe_handle
  <2>2. CASE LeaveDestroy(t)
    BY <1>2, <2>2 DEF IInv, TypeOK, Once, LeaveDestroy, Goto, safe_handle
  <2>3. QED
    BY <2>1, <2>2
<1>6. ResultsOfCalls'
  BY <1>1, <1>2 DEF IInv, TypeOK, ResultsOfCalls, Goto
<1>7. QED
  BY <1>3, <1>4, <1>5, <1>6 DEF IInv

LEMMA NextIInv ==
    ASSUME IInv, [Next]_vars
    PROVE  IInv'
<1>1. CASE UNCHANGED vars
  <2>1. Holders' = Holders
    BY <1>1 DEF vars, Holders
  <2>2. QED
    BY <1>1, <2>1 DEF vars, safe_handle, IInv, TypeOK, Counted, Owner, Private, Once, ResultsOfCalls
<1>2. CASE \E t \in Threads : Construct(t) \/ GetHandle(t) \/ Dispose(t)
  BY <1>2, ConstructIInv, GetHandleIInv, DisposeIInv
<1>3. ASSUME NEW t \in Threads, Proceed(t)
      PROVE  IInv'
  BY <1>3, ConstructDoneIInv, AddRefIInv, CallIInv, ReleaseIInv, DisposeStepIInv, ClearFieldIInv,
     DestroyIInv DEF Proceed
<1>4. QED
  BY <1>1, <1>2, <1>3 DEF Next

------------------------------------------------------------------------------
\* IInv is an invariant: references are counted right, however the threads of the
\* object interleave.
THEOREM HandleInvariance == Spec => []IInv
BY InitIInv, NextIInv, PTL DEF Spec

\* lw_ppocr_destroy is entered once, by whichever thread gives the last reference
\* back, and no call is inside the native library then or later.
THEOREM DestroysAlone == Spec => []DestroyIsAlone
<1>1. ASSUME IInv
      PROVE  DestroyIsAlone
  <2>1. destroys <= 1
    BY <1>1 DEF IInv, Once
  <2>2. ASSUME native \in {"destroying", "destroyed"}
        PROVE  results = {} /\ \A t \in Threads : pc[t] \notin {"call", "copy", "constructing"}
    <3>1. closed
      BY <1>1, <2>2 DEF IInv, Once
    <3>2. disposed /\ \A t \in Threads : pc[t] \notin Calling
      BY <1>1, <3>1, ClosedIsUnused DEF IInv
    <3>3. QED
      BY <1>1, <3>2 DEF IInv, ResultsOfCalls, Private
  <2>3. QED
    BY <2>1, <2>2 DEF DestroyIsAlone
<1>2. QED
  BY HandleInvariance, <1>1, PTL
==============================================================================
