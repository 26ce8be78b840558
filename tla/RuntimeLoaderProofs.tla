------------------------- MODULE RuntimeLoaderProofs -------------------------
(***************************************************************************)
(* A library stays mapped while anything can still run its code, and a     *)
(* failing call's text is its own, for any number of threads, engines and  *)
(* libraries.                                                              *)
(***************************************************************************)
EXTENDS RuntimeLoader, FiniteSetTheorems, TLAPS

Creates  == {"open", "table", "creating", "close"}
Uses     == {"validate", "running", "report"}
Destroys == {"destroying", "unmap"}
States   == Creates \cup Uses \cup Destroys \cup {"idle", "read_error", "freeing"}
Outcomes == {"none", "ok", "failed", "thrown"}
Ops      == {"none", "create", "run", "query", "free", "destroy"}

TypeOK ==
    /\ refs \in [Libraries -> Int]
    /\ handle \in [Engines -> Libraries \cup {None}]
    /\ results \in [Engines -> Int]
    /\ pc \in [Threads -> States]
    /\ call \in [Threads -> [op : Ops, engine : Engines \cup {None}, lib : Libraries \cup {None}]]
    /\ round \in [Threads -> Rounds]
    /\ rt_error \in [Threads -> [Libraries -> Texts]]
    /\ error \in [Threads -> Texts]
    /\ local \in [Threads -> Texts]
    /\ outcome \in [Threads -> Outcomes]
    /\ cause \in [Threads -> Texts]
    /\ starved \in BOOLEAN

\* The function of the ABI that a thread in state s is in.
OpOf(s, op) ==
    /\ s \in Creates => op = "create"
    /\ s \in Uses => op \in {"run", "query"}
    /\ s = "read_error" => op \in {"create", "run", "query"}
    /\ s = "freeing" => op = "free"
    /\ s \in Destroys => op = "destroy"

\* create and destroy have the engine to themselves; its handle is null meanwhile.
Alone(t) == call[t].op \in {"create", "destroy"}

CallOK(t) ==
    IF pc[t] = "idle" THEN call[t] = Idle
    ELSE /\ call[t].engine \in Engines
         /\ Lib(t) \in Libraries
         /\ OpOf(pc[t], call[t].op)
         /\ handle[call[t].engine] = IF Alone(t) THEN None ELSE Lib(t)
         /\ Alone(t) => /\ call[t].engine # None
                        /\ \A s \in Threads \ {t} : call[s].engine # call[t].engine

\* Where the text of a failure is on its way from the Runtime to the client.
ErrorOK(t) ==
    /\ pc[t] \notin {"idle", "freeing"} => outcome[t] = "none"
    /\ outcome[t] = "failed" => error[t] = cause[t]
    /\ outcome[t] = "ok" => error[t] = Empty
    /\ pc[t] = "read_error" => rt_error[t][Lib(t)] = cause[t] /\ cause[t] # Empty
    /\ pc[t] \in {"close", "report"} => local[t] = cause[t] /\ cause[t] # Empty

\* The engines and the calls that must give back a reference to library l.
EnginesOf(l) == {e \in Engines : handle[e] = l}
Holds(t, l) ==
    /\ Lib(t) = l
    /\ pc[t] \in {"table", "creating", "close", "destroying", "unmap"}
       \/ (pc[t] = "read_error" /\ call[t].op = "create")
CallsOf(l) == {t \in Threads : Holds(t, l)}

Balanced(l) ==
    /\ IsFiniteSet(EnginesOf(l)) /\ IsFiniteSet(CallsOf(l))
    /\ refs[l] >= Cardinality(EnginesOf(l)) + Cardinality(CallsOf(l))
    /\ starved \/ refs[l] = Cardinality(EnginesOf(l)) + Cardinality(CallsOf(l))

IInv ==
    /\ TypeOK
    /\ \A t \in Threads : CallOK(t)
    /\ \A t \in Threads : ErrorOK(t)
    /\ \A l \in Libraries : Balanced(l)

USE DEF Creates, Uses, Destroys, States, Outcomes, Ops

------------------------------------------------------------------------------
(* How references are counted.                                             *)

\* A set gains, loses or keeps the one member that a step is about.
LEMMA OneMember ==
    ASSUME NEW S, NEW T, NEW x, IsFiniteSet(S), S \ {x} = T \ {x}
    PROVE  /\ IsFiniteSet(T)
           /\ Cardinality(S) \in Nat /\ Cardinality(T) \in Nat
           /\ Cardinality(T) - Cardinality(S) =
                 (IF x \in T THEN 1 ELSE 0) - (IF x \in S THEN 1 ELSE 0)
<1> DEFINE R == S \ {x}
<1>1. IsFiniteSet(R)
  BY FS_RemoveElement
<1>2. S = IF x \in S THEN R \cup {x} ELSE R
  OBVIOUS
<1>3. T = IF x \in T THEN R \cup {x} ELSE R
  OBVIOUS
<1>4. x \notin R
  OBVIOUS
<1>5. Cardinality(R) \in Nat
  BY <1>1, FS_CardinalityType
<1>6. IsFiniteSet(R \cup {x}) /\ Cardinality(R \cup {x}) = Cardinality(R) + 1
  BY <1>1, <1>4, FS_AddElement
<1> HIDE DEF R
<1>7. IsFiniteSet(S) /\ Cardinality(S) = Cardinality(R) + (IF x \in S THEN 1 ELSE 0)
  <2>1. CASE x \in S
    BY <1>2, <1>6, <2>1
  <2>2. CASE x \notin S
    BY <1>1, <1>2, <1>5, <2>2
  <2>3. QED
    BY <2>1, <2>2
<1>8. IsFiniteSet(T) /\ Cardinality(T) = Cardinality(R) + (IF x \in T THEN 1 ELSE 0)
  <2>1. CASE x \in T
    BY <1>3, <1>6, <2>1
  <2>2. CASE x \notin T
    BY <1>1, <1>3, <1>5, <2>2
  <2>3. QED
    BY <2>1, <2>2
<1>9. QED
  BY <1>5, <1>7, <1>8

\* The three counts of ReferencesBalanced are these two.
LEMMA OwedCounts ==
    ASSUME NEW l, IsFiniteSet(CallsOf(l)), IsFiniteSet(EnginesOf(l))
    PROVE  Owed(l) = Cardinality(EnginesOf(l)) + Cardinality(CallsOf(l))
<1> DEFINE A == {t \in Threads : Lib(t) = l /\ pc[t] \in {"table", "creating", "close", "destroying", "unmap"}}
           B == {t \in Threads : Lib(t) = l /\ pc[t] = "read_error" /\ call[t].op = "create"}
<1>1. CallsOf(l) = A \cup B /\ A \cap B = {}
  BY DEF CallsOf, Holds
<1>2. IsFiniteSet(A) /\ IsFiniteSet(B)
  BY <1>1, FS_Subset
<1>3. Cardinality(A \cup B) = Cardinality(A) + Cardinality(B) - Cardinality({})
  BY <1>1, <1>2, FS_Union
<1>4. /\ Cardinality({}) = 0 /\ Cardinality(A) \in Nat /\ Cardinality(B) \in Nat
      /\ Cardinality(EnginesOf(l)) \in Nat
  BY <1>2, FS_EmptySet, FS_CardinalityType
<1>5. Owed(l) = Cardinality(EnginesOf(l)) + Cardinality(A) + Cardinality(B)
  BY DEF Owed, EnginesOf
<1> HIDE DEF A, B
<1>6. QED
  BY <1>1, <1>3, <1>4, <1>5

One(b) == IF b THEN 1 ELSE 0

\* A step of thread t about engine e keeps the balance of l when the references change
\* by what t and e come to owe.
LEMMA BalancedStep ==
    ASSUME IInv, NEW t \in Threads, NEW e, NEW l \in Libraries,
           \A s \in Threads \ {t} : pc'[s] = pc[s] /\ call'[s] = call[s],
           \A f \in Engines \ {e} : handle'[f] = handle[f],
           refs'[l] \in Int,
           refs'[l] - refs[l] >= One(Holds(t, l))' - One(Holds(t, l))
                + One(e \in EnginesOf(l))' - One(e \in EnginesOf(l)),
           \/ starved'
           \/ /\ starved' = starved
              /\ refs'[l] - refs[l] = One(Holds(t, l))' - One(Holds(t, l))
                     + One(e \in EnginesOf(l))' - One(e \in EnginesOf(l))
    PROVE  Balanced(l)'
<1>1. CallsOf(l) \ {t} = CallsOf(l)' \ {t}
  BY DEF CallsOf, Holds, Lib
<1>2. EnginesOf(l) \ {e} = EnginesOf(l)' \ {e}
  BY DEF EnginesOf
<1>3. Balanced(l) /\ refs[l] \in Int
  BY DEF IInv, TypeOK
<1>4. /\ IsFiniteSet(CallsOf(l)')
      /\ Cardinality(CallsOf(l)) \in Nat /\ Cardinality(CallsOf(l)') \in Nat
      /\ Cardinality(CallsOf(l)') - Cardinality(CallsOf(l)) =
            (IF t \in CallsOf(l)' THEN 1 ELSE 0) - (IF t \in CallsOf(l) THEN 1 ELSE 0)
  BY <1>1, <1>3, OneMember DEF Balanced
<1>5. /\ IsFiniteSet(EnginesOf(l)')
      /\ Cardinality(EnginesOf(l)) \in Nat /\ Cardinality(EnginesOf(l)') \in Nat
      /\ Cardinality(EnginesOf(l)') - Cardinality(EnginesOf(l)) =
            (IF e \in EnginesOf(l)' THEN 1 ELSE 0) - (IF e \in EnginesOf(l) THEN 1 ELSE 0)
  BY <1>2, <1>3, OneMember DEF Balanced
<1>6. /\ One(Holds(t, l)) = IF t \in CallsOf(l) THEN 1 ELSE 0
      /\ One(Holds(t, l))' = IF t \in CallsOf(l)' THEN 1 ELSE 0
      /\ One(e \in EnginesOf(l)) = IF e \in EnginesOf(l) THEN 1 ELSE 0
      /\ One(e \in EnginesOf(l))' = IF e \in EnginesOf(l)' THEN 1 ELSE 0
  BY DEF One, CallsOf
<1>7. Cardinality(EnginesOf(l)') = Cardinality(EnginesOf(l))' /\ Cardinality(CallsOf(l)') = Cardinality(CallsOf(l))'
  OBVIOUS
<1>8. refs'[l] - refs[l] >= (Cardinality(CallsOf(l)') - Cardinality(CallsOf(l))) + (Cardinality(EnginesOf(l)') - Cardinality(EnginesOf(l)))
  BY <1>4, <1>5, <1>6
<1>9. \/ starved'
      \/ /\ starved' = starved
         /\ refs'[l] - refs[l] = (Cardinality(CallsOf(l)') - Cardinality(CallsOf(l))) + (Cardinality(EnginesOf(l)') - Cardinality(EnginesOf(l)))
  BY <1>4, <1>5, <1>6
<1>10. QED
  BY <1>3, <1>4, <1>5, <1>8, <1>9 DEF Balanced

\* An engine or a call that owes a reference to l is covered by one.
LEMMA Covered ==
    ASSUME IInv, NEW l \in Libraries
    PROVE  /\ \A t \in Threads : Holds(t, l) => refs[l] > 0
           /\ \A e \in Engines : handle[e] = l => refs[l] > 0
           /\ \A t \in Threads, e \in Engines : Holds(t, l) /\ handle[e] = l => refs[l] > 1
           /\ \A t, s \in Threads : Holds(t, l) /\ Holds(s, l) /\ s # t => refs[l] > 1
<1>1. /\ Balanced(l) /\ refs[l] \in Int
      /\ Cardinality(EnginesOf(l)) \in Nat /\ Cardinality(CallsOf(l)) \in Nat
  BY FS_CardinalityType DEF IInv, TypeOK, Balanced
<1>2. ASSUME NEW t \in Threads, Holds(t, l)
      PROVE  Cardinality(CallsOf(l)) > 0
  <2>1. CallsOf(l) # {}
    BY <1>2 DEF CallsOf
  <2>2. Cardinality(CallsOf(l)) # 0
    BY <1>1, <2>1, FS_EmptySet DEF Balanced
  <2>3. QED
    BY <1>1, <2>2
<1>3. ASSUME NEW e \in Engines, handle[e] = l
      PROVE  Cardinality(EnginesOf(l)) > 0
  <2>1. EnginesOf(l) # {}
    BY <1>3 DEF EnginesOf
  <2>2. Cardinality(EnginesOf(l)) # 0
    BY <1>1, <2>1, FS_EmptySet DEF Balanced
  <2>3. QED
    BY <1>1, <2>2
<1>4. ASSUME NEW t \in Threads, NEW s \in Threads, Holds(t, l), Holds(s, l), s # t
      PROVE  Cardinality(CallsOf(l)) > 1
  <2> DEFINE Single == {t}
             Two == Single \cup {s}
  <2>1. /\ IsFiniteSet(Single) /\ Cardinality(Single) = 1 /\ s \notin Single
        /\ Two \in SUBSET CallsOf(l)
    BY <1>4, FS_Singleton DEF CallsOf
  <2> HIDE DEF Single
  <2>2. Cardinality(Two) = Cardinality(Single) + 1
    BY <2>1, FS_AddElement
  <2> HIDE DEF Two
  <2>3. Cardinality(Two) <= Cardinality(CallsOf(l))
    BY <1>1, <2>1, FS_Subset DEF Balanced
  <2>4. QED
    BY <1>1, <2>1, <2>2, <2>3
<1>5. QED
  BY <1>1, <1>2, <1>3, <1>4 DEF Balanced

------------------------------------------------------------------------------
(* The steps.                                                              *)

StepOf(t) ==
    \/ \E e \in Engines : \/ \E l \in Libraries : Create(t, e, l)
                          \/ \E op \in {"run", "query"} : Call(t, e, op)
                          \/ Free(t, e)
                          \/ Destroy(t, e)
    \/ OpenFails(t) \/ OpenRuntimeLibrary(t) \/ TableRefused(t) \/ EnterCreate(t)
    \/ Created(t) \/ RuntimeFails(t) \/ ReadError(t) \/ ReadErrorThrows(t)
    \/ CloseFailed(t) \/ Rejected(t) \/ EnterRuntime(t) \/ RuntimeSucceeds(t)
    \/ ReportFailure(t) \/ Freed(t) \/ Destroyed(t) \/ CloseDestroyed(t)

LEMMA TextsAre ==
    /\ Empty \in Texts
    /\ \A w \in {"loader", "runtime", "generic"}, r \in Rounds : <<w, r>> \in Texts /\ <<w, r>> # Empty
BY DEF Texts, Empty

LEMMA NextRound == \A r \in Rounds : (r + 1) % 3 \in Rounds
BY DEF Rounds

\* Which engine and library a call is about.
LEMMA CallTypes ==
    ASSUME IInv, NEW t \in Threads, pc[t] # "idle"
    PROVE  call[t].engine \in Engines /\ Lib(t) \in Libraries
BY DEF IInv, CallOK

LEMMA UpdatedInt ==
    ASSUME NEW S, NEW f \in [S -> Int], NEW x \in S, NEW v \in Int, NEW g, g = [f EXCEPT ![x] = v]
    PROVE  g \in [S -> Int]
OBVIOUS

LEMMA TypeStep ==
    ASSUME IInv, NEW t \in Threads, StepOf(t)
    PROVE  TypeOK'
<1> USE TextsAre DEF TypeOK, Goto
<1> HIDE DEF Creates, Uses, Destroys, Outcomes, Ops
<1>0. TypeOK
  BY DEF IInv
<1>a. /\ {"idle", "open", "table", "creating", "read_error", "close", "validate", "running", "report",
          "freeing", "destroying", "unmap"} \subseteq States
      /\ {"none", "create", "run", "query", "free", "destroy"} \subseteq Ops
      /\ {"none", "ok", "failed", "thrown"} \subseteq Outcomes
  BY DEF Creates, Uses, Destroys, Outcomes, Ops
<1> HIDE DEF States
<1>b. ASSUME NEW u \in Threads, NEW op \in Ops, NEW e \in Engines, NEW l \in Libraries, NEW s \in States, Start(u, op, e, l, s)
      PROVE  /\ pc' \in [Threads -> States]
             /\ call' \in [Threads -> [op : Ops, engine : Engines \cup {None}, lib : Libraries \cup {None}]]
             /\ round' \in [Threads -> Rounds]
             /\ local' \in [Threads -> Texts]
             /\ outcome' \in [Threads -> Outcomes]
             /\ cause' \in [Threads -> Texts]
  <2>1. round' \in [Threads -> Rounds]
    BY <1>0, <1>b, NextRound DEF Start
  <2>2. QED
    BY <1>0, <1>a, <1>b, <2>1 DEF Start
<1>c. ASSUME NEW u \in Threads, NEW how \in Outcomes, NEW text \in Texts, End(u, how, text)
      PROVE  /\ pc' \in [Threads -> States]
             /\ call' \in [Threads -> [op : Ops, engine : Engines \cup {None}, lib : Libraries \cup {None}]]
             /\ error' \in [Threads -> Texts]
             /\ outcome' \in [Threads -> Outcomes]
  BY <1>0, <1>a, <1>c DEF End, Idle
<1>d. ASSUME NEW u \in Threads, FailHere(u)
      PROVE  /\ pc' \in [Threads -> States]
             /\ call' \in [Threads -> [op : Ops, engine : Engines \cup {None}, lib : Libraries \cup {None}]]
             /\ error' \in [Threads -> Texts]
             /\ outcome' \in [Threads -> Outcomes]
             /\ cause' \in [Threads -> Texts]
  BY <1>0, <1>a, <1>c, <1>d DEF FailHere
<1>e. ASSUME NEW u \in Threads, NEW text \in Texts, SetRuntimeError(u, text)
      PROVE  rt_error' \in [Threads -> [Libraries -> Texts]]
  BY <1>0, <1>e DEF SetRuntimeError
<1>f. ASSUME NEW u \in Threads, pc[u] # "idle", Unmap(u)
      PROVE  /\ refs' \in [Libraries -> Int]
             /\ rt_error' \in [Threads -> [Libraries -> Texts]]
  <2>1. Lib(u) \in Libraries /\ refs[Lib(u)] - 1 \in Int
    BY <1>0, <1>f, CallTypes
  <2>2. refs' \in [Libraries -> Int]
    BY <1>0, <1>f, <2>1, UpdatedInt DEF Unmap
  <2>3. CASE UNCHANGED rt_error
    BY <1>0, <2>2, <2>3
  <2>4. CASE rt_error' = [s \in Threads |-> [rt_error[s] EXCEPT ![Lib(u)] = Empty]]
    <3>1. \A s \in Threads : [rt_error[s] EXCEPT ![Lib(u)] = Empty] \in [Libraries -> Texts]
      BY <1>0
    <3>2. QED
      BY <2>2, <2>4, <3>1
  <2>5. QED
    BY <1>f, <2>2, <2>3, <2>4 DEF Unmap
<1>h. ASSUME NEW u \in Threads, pc[u] # "idle"
      PROVE  /\ \A d \in {1, -1} : [refs EXCEPT ![Lib(u)] = @ + d] \in [Libraries -> Int]
             /\ \A d \in {1, -1} : [results EXCEPT ![call[u].engine] = @ + d] \in [Engines -> Int]
  <2>1. Lib(u) \in Libraries /\ refs[Lib(u)] \in Int /\ call[u].engine \in Engines /\ results[call[u].engine] \in Int
    BY <1>0, <1>h, CallTypes
  <2>2. \A d \in {1, -1} : refs[Lib(u)] + d \in Int /\ results[call[u].engine] + d \in Int
    BY <2>1
  <2>3. QED
    BY <1>0, <2>1, <2>2, UpdatedInt
<1>g. \A u \in Threads : Report(u) \in Texts
  BY <1>0 DEF Report
<1>1. ASSUME NEW e \in Engines, NEW l \in Libraries, Create(t, e, l)
      PROVE  TypeOK'
  BY <1>0, <1>a, <1>b, <1>1 DEF Create
<1>2. ASSUME NEW e \in Engines, NEW op \in {"run", "query"}, Call(t, e, op)
      PROVE  TypeOK'
  BY <1>0, <1>a, <1>b, <1>2 DEF Call
<1>3. ASSUME NEW e \in Engines, Free(t, e)
      PROVE  TypeOK'
  BY <1>0, <1>a, <1>3 DEF Free
<1>4. ASSUME NEW e \in Engines, Destroy(t, e)
      PROVE  TypeOK'
  BY <1>0, <1>a, <1>b, <1>4 DEF Destroy
<1>5. CASE OpenFails(t)
  BY <1>0, <1>d, <1>5 DEF OpenFails
<1>6. CASE OpenRuntimeLibrary(t)
  BY <1>0, <1>a, <1>h, <1>6 DEF OpenRuntimeLibrary
<1>7. CASE TableRefused(t)
  BY <1>0, <1>d, <1>h, <1>7 DEF TableRefused
<1>8. CASE EnterCreate(t)
  BY <1>0, <1>a, <1>8 DEF EnterCreate
<1>9. CASE Created(t)
  BY <1>0, <1>a, <1>c, <1>e, CallTypes, <1>9 DEF Created
<1>10. CASE RuntimeFails(t)
  BY <1>0, <1>a, <1>e, <1>10 DEF RuntimeFails
<1>11. CASE ReadError(t)
  BY <1>0, <1>a, CallTypes, <1>11 DEF ReadError
<1>12. CASE ReadErrorThrows(t)
  BY <1>0, <1>a, <1>c, <1>d, <1>12 DEF ReadErrorThrows
<1>13. CASE CloseFailed(t)
  BY <1>0, <1>a, <1>c, <1>f, <1>g, <1>13 DEF CloseFailed
<1>14. CASE Rejected(t)
  BY <1>0, <1>d, <1>14 DEF Rejected
<1>15. CASE EnterRuntime(t)
  BY <1>0, <1>a, <1>15 DEF EnterRuntime
<1>16. CASE RuntimeSucceeds(t)
  BY <1>0, <1>a, <1>c, <1>e, <1>h, <1>16 DEF RuntimeSucceeds
<1>17. CASE ReportFailure(t)
  BY <1>0, <1>a, <1>c, <1>g, <1>17 DEF ReportFailure
<1>18. CASE Freed(t)
  BY <1>0, <1>a, <1>h, <1>18 DEF Freed, Idle
<1>19. CASE Destroyed(t)
  BY <1>0, <1>a, <1>e, <1>19 DEF Destroyed
<1>20. CASE CloseDestroyed(t)
  BY <1>0, <1>a, <1>c, <1>f, <1>20 DEF CloseDestroyed
<1>21. QED
  BY <1>1, <1>2, <1>3, <1>4, <1>5, <1>6, <1>7, <1>8, <1>9, <1>10, <1>11, <1>12, <1>13, <1>14, <1>15, <1>16, <1>17, <1>18, <1>19, <1>20 DEF StepOf

LEMMA OthersKeepCall ==
    ASSUME IInv, NEW t \in Threads,
           \A s \in Threads \ {t} : /\ pc'[s] = pc[s] /\ call'[s] = call[s]
                                    /\ pc[s] # "idle" => handle'[call[s].engine] = handle[call[s].engine],
           \/ call'[t].engine \in {call[t].engine, None}
           \/ Unused(call'[t].engine)
           \/ handle[call'[t].engine] # None
    PROVE  \A s \in Threads \ {t} : CallOK(s)'
<1>1. SUFFICES ASSUME NEW s \in Threads \ {t}
               PROVE  CallOK(s)'
  OBVIOUS
<1>2. CallOK(s) /\ pc'[s] = pc[s] /\ call'[s] = call[s]
  BY DEF IInv
<1>3. CASE pc[s] = "idle"
  BY <1>2, <1>3 DEF CallOK
<1>4. CASE pc[s] # "idle"
  <2>1. ASSUME Alone(s), NEW r \in Threads \ {s}
        PROVE  call'[r].engine # call[s].engine
    BY <1>2, <1>4, <2>1 DEF CallOK, Unused
  <2>2. QED
    BY <1>2, <1>4, <2>1 DEF CallOK, Alone, Lib
<1>5. QED
  BY <1>3, <1>4

\* A step inside a call, which leaves the handles alone.
LEMMA InsideKeepsCall ==
    ASSUME IInv, NEW t \in Threads, pc[t] # "idle", NEW s \in States \ {"idle"}, Goto(t, s),
           UNCHANGED <<handle, call>>, OpOf(s, call[t].op)
    PROVE  \A r \in Threads : CallOK(r)'
<1>1. pc'[t] = s /\ \A r \in Threads \ {t} : pc'[r] = pc[r]
  BY DEF Goto, IInv, TypeOK
<1>2. CallOK(t)
  BY DEF IInv
<1>3. CallOK(t)'
  BY <1>1, <1>2 DEF CallOK, Alone, Lib
<1>4. \A r \in Threads \ {t} : CallOK(r)'
  BY <1>1, OthersKeepCall
<1>5. QED
  BY <1>3, <1>4

\* The end of a call; only that of create has set a handle.
LEMMA EndKeepsCall ==
    ASSUME IInv, NEW t \in Threads, pc[t] # "idle", Goto(t, "idle"), call' = [call EXCEPT ![t] = Idle],
           \/ handle' = handle
           \/ pc[t] = "creating" /\ handle' = [handle EXCEPT ![call[t].engine] = Lib(t)]
    PROVE  \A r \in Threads : CallOK(r)'
<1>1. /\ pc'[t] = "idle" /\ \A r \in Threads \ {t} : pc'[r] = pc[r]
      /\ call'[t] = Idle /\ \A r \in Threads \ {t} : call'[r] = call[r]
  BY DEF Goto, IInv, TypeOK
<1>2. CallOK(t)'
  BY <1>1 DEF CallOK
<1>3. ASSUME NEW r \in Threads \ {t}, pc[r] # "idle"
      PROVE  handle'[call[r].engine] = handle[call[r].engine]
  <2>1. CASE handle' = handle
    BY <2>1
  <2>2. CASE pc[t] = "creating" /\ handle' = [handle EXCEPT ![call[t].engine] = Lib(t)]
    <3>1. CallOK(t) /\ CallOK(r) /\ handle \in [Engines -> Libraries \cup {None}]
      BY DEF IInv, TypeOK
    <3>2. call[t].op = "create"
      BY <2>2, <3>1 DEF CallOK, OpOf
    <3>3. call[r].engine # call[t].engine
      BY <2>2, <3>1, <3>2 DEF CallOK, Alone
    <3>4. call[r].engine \in Engines
      BY <1>3, <3>1 DEF CallOK
    <3>5. QED
      BY <2>2, <3>1, <3>3, <3>4
  <2>3. QED
    BY <2>1, <2>2
<1>4. \A r \in Threads \ {t} : CallOK(r)'
  BY <1>1, <1>3, OthersKeepCall DEF Idle
<1>5. QED
  BY <1>2, <1>4

\* A call is begun: alone on an engine nobody uses, or on one that has a handle.
LEMMA BeginKeepsCall ==
    ASSUME IInv, NEW t \in Threads, pc[t] = "idle", NEW e \in Engines, NEW l \in Libraries, NEW op \in Ops,
           NEW s \in States \ {"idle"}, Goto(t, s), OpOf(s, op),
           call' = [call EXCEPT ![t] = [op |-> op, engine |-> e, lib |-> l]],
           IF op \in {"create", "destroy"}
           THEN Unused(e) /\ handle' = [handle EXCEPT ![e] = None]
           ELSE handle[e] = l /\ handle' = handle
    PROVE  \A r \in Threads : CallOK(r)'
<1>1. /\ pc'[t] = s /\ \A r \in Threads \ {t} : pc'[r] = pc[r]
      /\ call'[t] = [op |-> op, engine |-> e, lib |-> l] /\ \A r \in Threads \ {t} : call'[r] = call[r]
      /\ handle \in [Engines -> Libraries \cup {None}]
      /\ CallOK(t) /\ call[t].engine = None
  BY DEF Goto, IInv, TypeOK, CallOK, Idle
<1>2. CASE op \in {"create", "destroy"}
  <2>1. /\ e # None /\ \A r \in Threads : call[r].engine # e
        /\ handle'[e] = None
        /\ \A f \in Engines \ {e} : handle'[f] = handle[f]
    BY <1>1, <1>2 DEF Unused
  <2>2. CallOK(t)'
    BY <1>1, <1>2, <2>1 DEF CallOK, Alone, Lib
  <2>3. \A r \in Threads \ {t} : CallOK(r)'
    <3>1. ASSUME NEW r \in Threads \ {t}, pc[r] # "idle"
          PROVE  handle'[call[r].engine] = handle[call[r].engine]
      BY <2>1, <3>1 DEF IInv, CallOK
    <3>2. QED
      BY <1>1, <1>2, <3>1, OthersKeepCall
  <2>4. QED
    BY <2>2, <2>3
<1>3. CASE op \notin {"create", "destroy"}
  <2>1. CallOK(t)'
    BY <1>1, <1>3 DEF CallOK, Alone, Lib
  <2>2. handle[e] # None
    BY <1>3, LoaderAssumption
  <2>3. \A r \in Threads \ {t} : CallOK(r)'
    BY <1>1, <1>3, <2>2, OthersKeepCall
  <2>4. QED
    BY <2>1, <2>3
<1>4. QED
  BY <1>2, <1>3

LEMMA CallStep ==
    ASSUME IInv, NEW t \in Threads, StepOf(t)
    PROVE  \A r \in Threads : CallOK(r)'
<1>0. TypeOK /\ CallOK(t)
  BY DEF IInv
<1>1. ASSUME NEW e \in Engines, NEW l \in Libraries, Create(t, e, l)
      PROVE  \A r \in Threads : CallOK(r)'
  <2>1. handle' = [handle EXCEPT ![e] = None]
    BY <1>0, <1>1 DEF Create, TypeOK
  <2>2. QED
    BY <1>1, <2>1, BeginKeepsCall DEF Create, Start, OpOf
<1>2. ASSUME NEW e \in Engines, NEW op \in {"run", "query"}, Call(t, e, op)
      PROVE  \A r \in Threads : CallOK(r)'
  <2>1. handle[e] \in Libraries
    BY <1>0, <1>2 DEF Call, TypeOK
  <2>2. QED
    BY <1>2, <2>1, BeginKeepsCall DEF Call, Start, OpOf
<1>3. ASSUME NEW e \in Engines, Free(t, e)
      PROVE  \A r \in Threads : CallOK(r)'
  <2>1. handle[e] \in Libraries
    BY <1>0, <1>3 DEF Free, TypeOK
  <2>2. QED
    BY <1>3, <2>1, BeginKeepsCall DEF Free, OpOf
<1>4. ASSUME NEW e \in Engines, Destroy(t, e)
      PROVE  \A r \in Threads : CallOK(r)'
  <2>1. handle[e] \in Libraries
    BY <1>0, <1>4 DEF Destroy, TypeOK
  <2>2. QED
    BY <1>4, <2>1, BeginKeepsCall DEF Destroy, Start, OpOf
<1>5. CASE OpenFails(t)
  BY <1>5, EndKeepsCall DEF OpenFails, FailHere, End
<1>6. CASE OpenRuntimeLibrary(t)
  BY <1>0, <1>6, InsideKeepsCall DEF OpenRuntimeLibrary, OpOf, CallOK
<1>7. CASE TableRefused(t)
  BY <1>7, EndKeepsCall DEF TableRefused, FailHere, End
<1>8. CASE EnterCreate(t)
  BY <1>0, <1>8, InsideKeepsCall DEF EnterCreate, OpOf, CallOK
<1>9. CASE Created(t)
  BY <1>9, EndKeepsCall DEF Created, End
<1>10. CASE RuntimeFails(t)
  BY <1>0, <1>10, InsideKeepsCall DEF RuntimeFails, OpOf, CallOK
<1>11. CASE ReadError(t)
  BY <1>0, <1>11, InsideKeepsCall DEF ReadError, OpOf, CallOK
<1>12. CASE ReadErrorThrows(t)
  BY <1>12, EndKeepsCall DEF ReadErrorThrows, FailHere, End
<1>13. CASE CloseFailed(t)
  BY <1>13, EndKeepsCall DEF CloseFailed, End
<1>14. CASE Rejected(t)
  BY <1>14, EndKeepsCall DEF Rejected, FailHere, End
<1>15. CASE EnterRuntime(t)
  BY <1>0, <1>15, InsideKeepsCall DEF EnterRuntime, OpOf, CallOK
<1>16. CASE RuntimeSucceeds(t)
  BY <1>16, EndKeepsCall DEF RuntimeSucceeds, End
<1>17. CASE ReportFailure(t)
  BY <1>17, EndKeepsCall DEF ReportFailure, End
<1>18. CASE Freed(t)
  BY <1>18, EndKeepsCall DEF Freed
<1>19. CASE Destroyed(t)
  BY <1>0, <1>19, InsideKeepsCall DEF Destroyed, OpOf, CallOK
<1>20. CASE CloseDestroyed(t)
  BY <1>20, EndKeepsCall DEF CloseDestroyed, End
<1>21. QED
  BY <1>1, <1>2, <1>3, <1>4, <1>5, <1>6, <1>7, <1>8, <1>9, <1>10, <1>11, <1>12, <1>13, <1>14, <1>15, <1>16, <1>17, <1>18, <1>19, <1>20 DEF StepOf

\* What the other threads know of a step of t: nothing, unless it unmaps a library.
Untouched(t) ==
    \A s \in Threads \ {t} :
        /\ pc'[s] = pc[s] /\ call'[s] = call[s] /\ error'[s] = error[s]
        /\ local'[s] = local[s] /\ outcome'[s] = outcome[s] /\ cause'[s] = cause[s]

LEMMA StepIsLocal ==
    ASSUME IInv, NEW t \in Threads, StepOf(t)
    PROVE  /\ Untouched(t)
           /\ \/ \A s \in Threads \ {t} : rt_error'[s] = rt_error[s]
              \/ Unmap(t) /\ Holds(t, Lib(t)) /\ Lib(t) \in Libraries
<1> USE DEF Goto
<1>0. TypeOK
  BY DEF IInv
<1>a. ASSUME NEW op, NEW e, NEW l, NEW s, Start(t, op, e, l, s), UNCHANGED <<error, rt_error>>
      PROVE  Untouched(t) /\ \A r \in Threads \ {t} : rt_error'[r] = rt_error[r]
  BY <1>0, <1>a DEF Start, Untouched, TypeOK
<1>b. ASSUME NEW how, NEW text, End(t, how, text), UNCHANGED <<local, cause>>
      PROVE  Untouched(t)
  BY <1>0, <1>b DEF End, Untouched, TypeOK
<1>c. ASSUME FailHere(t), UNCHANGED <<local, rt_error>>
      PROVE  Untouched(t) /\ \A r \in Threads \ {t} : rt_error'[r] = rt_error[r]
  BY <1>0, <1>c DEF FailHere, End, Untouched, TypeOK
<1>d. ASSUME NEW text, SetRuntimeError(t, text)
      PROVE  \A r \in Threads \ {t} : rt_error'[r] = rt_error[r]
  BY <1>0, <1>d DEF SetRuntimeError, TypeOK
<1>1. ASSUME NEW e \in Engines, NEW l \in Libraries, Create(t, e, l)
      PROVE  Untouched(t) /\ \A r \in Threads \ {t} : rt_error'[r] = rt_error[r]
  BY <1>1, <1>a DEF Create
<1>2. ASSUME NEW e \in Engines, NEW op \in {"run", "query"}, Call(t, e, op)
      PROVE  Untouched(t) /\ \A r \in Threads \ {t} : rt_error'[r] = rt_error[r]
  BY <1>2, <1>a DEF Call
<1>3. ASSUME NEW e \in Engines, Free(t, e)
      PROVE  Untouched(t) /\ \A r \in Threads \ {t} : rt_error'[r] = rt_error[r]
  BY <1>0, <1>3 DEF Free, Untouched, TypeOK
<1>4. ASSUME NEW e \in Engines, Destroy(t, e)
      PROVE  Untouched(t) /\ \A r \in Threads \ {t} : rt_error'[r] = rt_error[r]
  BY <1>4, <1>a DEF Destroy
<1>5. CASE OpenFails(t)
  BY <1>c, <1>5 DEF OpenFails
<1>6. CASE OpenRuntimeLibrary(t)
  BY <1>0, <1>6 DEF OpenRuntimeLibrary, Untouched, TypeOK
<1>7. CASE TableRefused(t)
  BY <1>c, <1>7 DEF TableRefused
<1>8. CASE EnterCreate(t)
  BY <1>0, <1>8 DEF EnterCreate, Untouched, TypeOK
<1>9. CASE Created(t)
  BY <1>b, <1>d, <1>9 DEF Created
<1>10. CASE RuntimeFails(t)
  BY <1>0, <1>d, <1>10 DEF RuntimeFails, Untouched, TypeOK
<1>11. CASE ReadError(t)
  BY <1>0, <1>11 DEF ReadError, Untouched, TypeOK
<1>12. CASE ReadErrorThrows(t)
  BY <1>b, <1>c, <1>12 DEF ReadErrorThrows
<1>13. CASE CloseFailed(t)
  BY <1>13, <1>b, CallTypes DEF CloseFailed, Holds
<1>14. CASE Rejected(t)
  BY <1>c, <1>14 DEF Rejected
<1>15. CASE EnterRuntime(t)
  BY <1>0, <1>15 DEF EnterRuntime, Untouched, TypeOK
<1>16. CASE RuntimeSucceeds(t)
  BY <1>b, <1>d, <1>16 DEF RuntimeSucceeds
<1>17. CASE ReportFailure(t)
  BY <1>b, <1>17 DEF ReportFailure
<1>18. CASE Freed(t)
  BY <1>0, <1>18 DEF Freed, Untouched, TypeOK
<1>19. CASE Destroyed(t)
  BY <1>0, <1>d, <1>19 DEF Destroyed, Untouched, TypeOK
<1>20. CASE CloseDestroyed(t)
  BY <1>20, <1>b, CallTypes DEF CloseDestroyed, Holds
<1>21. QED
  BY <1>1, <1>2, <1>3, <1>4, <1>5, <1>6, <1>7, <1>8, <1>9, <1>10, <1>11, <1>12, <1>13, <1>14, <1>15, <1>16, <1>17, <1>18, <1>19, <1>20 DEF StepOf

\* A library is unmapped by its last user, so that nobody loses a text still to be read.
LEMMA OthersKeepError ==
    ASSUME IInv, NEW t \in Threads, StepOf(t)
    PROVE  \A s \in Threads \ {t} : ErrorOK(s)'
<1>1. SUFFICES ASSUME NEW s \in Threads \ {t}
               PROVE  ErrorOK(s)'
  OBVIOUS
<1>2. /\ pc'[s] = pc[s] /\ call'[s] = call[s] /\ error'[s] = error[s]
      /\ local'[s] = local[s] /\ outcome'[s] = outcome[s] /\ cause'[s] = cause[s]
  BY StepIsLocal DEF Untouched
<1>3. ASSUME pc[s] = "read_error"
      PROVE  rt_error'[s][Lib(s)] = rt_error[s][Lib(s)]
  <2>1. /\ rt_error \in [Threads -> [Libraries -> Texts]] /\ refs \in [Libraries -> Int]
        /\ CallOK(s)
    BY DEF IInv, TypeOK
  <2>2. CASE rt_error'[s] = rt_error[s]
    BY <2>2
  <2>3. CASE Unmap(t) /\ Holds(t, Lib(t)) /\ Lib(t) \in Libraries /\ Lib(s) # Lib(t)
    BY <1>3, <2>1, <2>3, CallTypes DEF Unmap
  <2>4. CASE Unmap(t) /\ Holds(t, Lib(t)) /\ Lib(t) \in Libraries /\ Lib(s) = Lib(t)
    <3>1. refs[Lib(t)] > 1
      <4>1. CASE Alone(s)
        <5>1. Holds(s, Lib(t))
          BY <1>3, <2>1, <2>4, <4>1 DEF CallOK, OpOf, Alone, Holds
        <5>2. QED
          BY <2>4, <5>1, Covered
      <4>2. CASE ~Alone(s)
        BY <1>3, <2>1, <2>4, <4>2, Covered DEF CallOK
      <4>3. QED
        BY <4>1, <4>2
    <3>2. refs[Lib(t)] # 1
      BY <2>1, <2>4, <3>1
    <3>3. QED
      BY <2>4, <3>2 DEF Unmap
  <2>5. QED
    BY <2>2, <2>3, <2>4, StepIsLocal
<1>4. ErrorOK(s) /\ Lib(s)' = Lib(s)
  BY <1>2 DEF IInv, Lib
<1>5. QED
  BY <1>2, <1>3, <1>4 DEF ErrorOK

LEMMA ErrorStep ==
    ASSUME IInv, NEW t \in Threads, StepOf(t)
    PROVE  \A s \in Threads : ErrorOK(s)'
<1> USE DEF Goto
<1> SUFFICES ErrorOK(t)'
  BY OthersKeepError
<1>0. TypeOK /\ ErrorOK(t) /\ CallOK(t)
  BY DEF IInv
<1>a. ASSUME NEW op, NEW e, NEW l, NEW s \in States \ {"read_error", "close", "report"}, Start(t, op, e, l, s)
      PROVE  ErrorOK(t)'
  BY <1>0, <1>a DEF Start, TypeOK, ErrorOK
<1>b. ASSUME NEW how, NEW text, End(t, how, text),
             how = "failed" => text = cause'[t],
             how = "ok" => text = Empty
      PROVE  ErrorOK(t)'
  BY <1>0, <1>b DEF End, TypeOK, ErrorOK
<1>c. ASSUME FailHere(t)
      PROVE  ErrorOK(t)'
  <2>1. cause'[t] = <<"loader", round[t]>>
    BY <1>0, <1>c DEF FailHere, TypeOK
  <2>2. QED
    BY <1>b, <1>c, <2>1 DEF FailHere
<1>1. ASSUME NEW e \in Engines, NEW l \in Libraries, Create(t, e, l)
      PROVE  ErrorOK(t)'
  BY <1>1, <1>a DEF Create
<1>2. ASSUME NEW e \in Engines, NEW op \in {"run", "query"}, Call(t, e, op)
      PROVE  ErrorOK(t)'
  BY <1>2, <1>a DEF Call
<1>3. ASSUME NEW e \in Engines, Free(t, e)
      PROVE  ErrorOK(t)'
  BY <1>0, <1>3 DEF Free, TypeOK, ErrorOK
<1>4. ASSUME NEW e \in Engines, Destroy(t, e)
      PROVE  ErrorOK(t)'
  BY <1>4, <1>a DEF Destroy
<1>5. CASE OpenFails(t)
  BY <1>c, <1>5 DEF OpenFails
<1>6. CASE OpenRuntimeLibrary(t)
  BY <1>0, <1>6 DEF OpenRuntimeLibrary, TypeOK, ErrorOK
<1>7. CASE TableRefused(t)
  BY <1>c, <1>7 DEF TableRefused
<1>8. CASE EnterCreate(t)
  BY <1>0, <1>8 DEF EnterCreate, TypeOK, ErrorOK
<1>9. CASE Created(t)
  BY <1>b, <1>9 DEF Created
<1>10. CASE RuntimeFails(t)
  <2>1. /\ pc[t] # "idle" /\ pc'[t] = "read_error" /\ Lib(t) \in Libraries /\ call'[t] = call[t]
        /\ cause'[t] = <<"runtime", round[t]>>
        /\ rt_error'[t][Lib(t)] = <<"runtime", round[t]>>
        /\ outcome'[t] = outcome[t] /\ error'[t] = error[t] /\ outcome[t] = "none"
    BY <1>0, <1>10, CallTypes DEF RuntimeFails, SetRuntimeError, TypeOK, ErrorOK
  <2>2. <<"runtime", round[t]>> # Empty
    BY <1>0, TextsAre DEF TypeOK
  <2>3. QED
    BY <2>1, <2>2 DEF ErrorOK, Lib
<1>11. CASE ReadError(t)
  BY <1>0, <1>11 DEF ReadError, TypeOK, ErrorOK
<1>12. CASE ReadErrorThrows(t)
  BY <1>b, <1>c, <1>12 DEF ReadErrorThrows
<1>13. CASE CloseFailed(t)
  BY <1>0, <1>b, <1>13 DEF CloseFailed, ErrorOK, Report
<1>14. CASE Rejected(t)
  BY <1>c, <1>14 DEF Rejected
<1>15. CASE EnterRuntime(t)
  BY <1>0, <1>15 DEF EnterRuntime, TypeOK, ErrorOK
<1>16. CASE RuntimeSucceeds(t)
  BY <1>b, <1>16 DEF RuntimeSucceeds
<1>17. CASE ReportFailure(t)
  BY <1>0, <1>b, <1>17 DEF ReportFailure, ErrorOK, Report
<1>18. CASE Freed(t)
  BY <1>0, <1>18 DEF Freed, TypeOK, ErrorOK
<1>19. CASE Destroyed(t)
  BY <1>0, <1>19 DEF Destroyed, TypeOK, ErrorOK
<1>20. CASE CloseDestroyed(t)
  BY <1>b, <1>20 DEF CloseDestroyed
<1>21. QED
  BY <1>1, <1>2, <1>3, <1>4, <1>5, <1>6, <1>7, <1>8, <1>9, <1>10, <1>11, <1>12, <1>13, <1>14, <1>15, <1>16, <1>17, <1>18, <1>19, <1>20 DEF StepOf

\* Who neither takes nor gives back a reference owes what it owed.
LEMMA SameOwed ==
    ASSUME IInv, NEW t \in Threads, StepOf(t), UNCHANGED <<refs, handle, starved>>,
           \A l \in Libraries : Holds(t, l)' <=> Holds(t, l)
    PROVE  \A l \in Libraries : Balanced(l)'
<1>1. SUFFICES ASSUME NEW l \in Libraries
               PROVE  Balanced(l)'
  OBVIOUS
<1>2. \A s \in Threads \ {t} : pc'[s] = pc[s] /\ call'[s] = call[s]
  BY StepIsLocal DEF Untouched
<1>3. /\ One(Holds(t, l))' = One(Holds(t, l))
      /\ One(None \in EnginesOf(l))' = One(None \in EnginesOf(l))
      /\ One(Holds(t, l)) \in Int /\ One(None \in EnginesOf(l)) \in Int
  BY DEF One, EnginesOf
<1>4. refs'[l] \in Int /\ refs'[l] - refs[l] = 0
  BY DEF IInv, TypeOK
<1>5. /\ refs'[l] - refs[l] >= One(Holds(t, l))' - One(Holds(t, l))
                + One(None \in EnginesOf(l))' - One(None \in EnginesOf(l))
      /\ refs'[l] - refs[l] = One(Holds(t, l))' - One(Holds(t, l))
                + One(None \in EnginesOf(l))' - One(None \in EnginesOf(l))
  BY <1>3, <1>4
<1>6. QED
  BY <1>2, <1>3, <1>4, <1>5, BalancedStep

\* A library is opened, and the call has to close it.
LEMMA OpenedOwed ==
    ASSUME IInv, NEW t \in Threads, OpenRuntimeLibrary(t)
    PROVE  \A l \in Libraries : Balanced(l)'
<1>1. SUFFICES ASSUME NEW l \in Libraries
               PROVE  Balanced(l)'
  OBVIOUS
<1>2. /\ \A s \in Threads \ {t} : pc'[s] = pc[s] /\ call'[s] = call[s]
      /\ pc[t] = "open" /\ pc'[t] = "table" /\ call' = call /\ refs[l] \in Int
      /\ handle' = handle /\ starved' = starved
  BY DEF OpenRuntimeLibrary, Goto, IInv, TypeOK
<1>3. refs'[l] - refs[l] = One(l = Lib(t)) /\ refs'[l] \in Int
  BY DEF OpenRuntimeLibrary, One, IInv, TypeOK
<1>4. /\ One(Holds(t, l))' = One(l = Lib(t)) /\ One(Holds(t, l)) = 0
      /\ One(None \in EnginesOf(l))' = One(None \in EnginesOf(l))
      /\ One(l = Lib(t)) \in Int /\ One(None \in EnginesOf(l)) \in Int
  BY <1>2 DEF One, EnginesOf, Holds, Lib
<1>5. /\ refs'[l] - refs[l] >= One(Holds(t, l))' - One(Holds(t, l))
                + One(None \in EnginesOf(l))' - One(None \in EnginesOf(l))
      /\ refs'[l] - refs[l] = One(Holds(t, l))' - One(Holds(t, l))
                + One(None \in EnginesOf(l))' - One(None \in EnginesOf(l))
  BY <1>3, <1>4
<1>6. QED
  BY <1>2, <1>3, <1>4, <1>5, BalancedStep

\* The call ends and closes the library.
LEMMA ClosedOwed ==
    ASSUME IInv, NEW t \in Threads, StepOf(t), UNCHANGED <<handle, starved>>,
           pc[t] # "idle", Holds(t, Lib(t)), pc'[t] = "idle", refs' = [refs EXCEPT ![Lib(t)] = @ - 1]
    PROVE  \A l \in Libraries : Balanced(l)'
<1>1. SUFFICES ASSUME NEW l \in Libraries
               PROVE  Balanced(l)'
  OBVIOUS
<1>2. /\ \A s \in Threads \ {t} : pc'[s] = pc[s] /\ call'[s] = call[s]
      /\ refs[l] \in Int
  BY StepIsLocal DEF Untouched, IInv, TypeOK
<1>3. refs'[l] - refs[l] = 0 - One(l = Lib(t)) /\ refs'[l] \in Int
  BY <1>2 DEF One, IInv, TypeOK
<1>4. /\ One(Holds(t, l))' = 0 /\ One(Holds(t, l)) = One(l = Lib(t))
      /\ One(None \in EnginesOf(l))' = One(None \in EnginesOf(l))
      /\ One(l = Lib(t)) \in Int /\ One(None \in EnginesOf(l)) \in Int
  BY DEF One, EnginesOf, Holds
<1>5. /\ refs'[l] - refs[l] >= One(Holds(t, l))' - One(Holds(t, l))
                + One(None \in EnginesOf(l))' - One(None \in EnginesOf(l))
      /\ refs'[l] - refs[l] = One(Holds(t, l))' - One(Holds(t, l))
                + One(None \in EnginesOf(l))' - One(None \in EnginesOf(l))
  BY <1>3, <1>4
<1>6. QED
  BY <1>2, <1>3, <1>4, <1>5, BalancedStep

\* The new engine takes over the reference of the call that made it.
LEMMA CreatedOwed ==
    ASSUME IInv, NEW t \in Threads, Created(t)
    PROVE  \A l \in Libraries : Balanced(l)'
<1>1. SUFFICES ASSUME NEW l \in Libraries
               PROVE  Balanced(l)'
  OBVIOUS
<1>e. PICK e \in Engines : e = call[t].engine
  BY CallTypes DEF Created
<1>2. /\ \A s \in Threads \ {t} : pc'[s] = pc[s] /\ call'[s] = call[s]
      /\ pc[t] = "creating" /\ pc'[t] = "idle" /\ refs' = refs /\ starved' = starved
      /\ refs[l] \in Int
  BY DEF Created, End, Goto, IInv, TypeOK
<1>3. /\ handle[e] = None /\ handle'[e] = Lib(t)
      /\ \A f \in Engines \ {e} : handle'[f] = handle[f]
  BY <1>e, <1>2 DEF Created, IInv, TypeOK, CallOK, OpOf, Alone
<1>a. One(Holds(t, l))' = 0 /\ One(Holds(t, l)) = One(l = Lib(t))
  BY <1>2 DEF One, Holds
<1>b. /\ One(e \in EnginesOf(l))' = One(l = Lib(t)) /\ One(e \in EnginesOf(l)) = 0
      /\ One(l = Lib(t)) \in Int
  <2>1. e \in EnginesOf(l)' <=> l = Lib(t)
    BY <1>3 DEF EnginesOf
  <2>2. e \notin EnginesOf(l)
    BY <1>3, LoaderAssumption DEF EnginesOf
  <2>3. QED
    BY <2>1, <2>2 DEF One
<1>4. /\ One(Holds(t, l))' = 0 /\ One(Holds(t, l)) = One(l = Lib(t))
      /\ One(e \in EnginesOf(l))' = One(l = Lib(t)) /\ One(e \in EnginesOf(l)) = 0
      /\ One(l = Lib(t)) \in Int
  BY <1>a, <1>b
<1>5. refs'[l] \in Int /\ refs'[l] - refs[l] = 0
  BY <1>2
<1>6. /\ refs'[l] - refs[l] >= One(Holds(t, l))' - One(Holds(t, l))
                + One(e \in EnginesOf(l))' - One(e \in EnginesOf(l))
      /\ refs'[l] - refs[l] = One(Holds(t, l))' - One(Holds(t, l))
                + One(e \in EnginesOf(l))' - One(e \in EnginesOf(l))
  BY <1>4, <1>5
<1>7. QED
  BY <1>2, <1>3, <1>4, <1>5, <1>6, BalancedStep

\* The reference of an engine becomes that of the call that destroys it.
LEMMA DestroyOwed ==
    ASSUME IInv, NEW t \in Threads, NEW e \in Engines, Destroy(t, e)
    PROVE  \A l \in Libraries : Balanced(l)'
<1>1. SUFFICES ASSUME NEW l \in Libraries
               PROVE  Balanced(l)'
  OBVIOUS
<1>2. /\ \A s \in Threads \ {t} : pc'[s] = pc[s] /\ call'[s] = call[s]
      /\ pc[t] = "idle" /\ pc'[t] = "destroying" /\ call'[t].lib = handle[e]
      /\ refs' = refs /\ starved' = starved
      /\ refs[l] \in Int
  BY DEF Destroy, Start, Goto, IInv, TypeOK
<1>3. /\ handle'[e] = None
      /\ \A f \in Engines \ {e} : handle'[f] = handle[f]
  BY DEF Destroy, IInv, TypeOK
<1>4. /\ One(Holds(t, l))' = One(l = handle[e]) /\ One(Holds(t, l)) = 0
      /\ One(e \in EnginesOf(l))' = 0 /\ One(e \in EnginesOf(l)) = One(l = handle[e])
      /\ One(l = handle[e]) \in Int
  BY <1>2, <1>3, LoaderAssumption DEF One, EnginesOf, Holds, Lib
<1>5. refs'[l] \in Int /\ refs'[l] - refs[l] = 0
  BY <1>2
<1>6. /\ refs'[l] - refs[l] >= One(Holds(t, l))' - One(Holds(t, l))
                + One(e \in EnginesOf(l))' - One(e \in EnginesOf(l))
      /\ refs'[l] - refs[l] = One(Holds(t, l))' - One(Holds(t, l))
                + One(e \in EnginesOf(l))' - One(e \in EnginesOf(l))
  BY <1>4, <1>5
<1>7. QED
  BY <1>2, <1>3, <1>4, <1>5, <1>6, BalancedStep

\* The one leak: the exception passes the place where create would have closed.
LEMMA ThrownOwed ==
    ASSUME IInv, NEW t \in Threads, ReadErrorThrows(t)
    PROVE  \A l \in Libraries : Balanced(l)'
<1>0. SUFFICES ASSUME NEW l \in Libraries
               PROVE  Balanced(l)'
  OBVIOUS
<1>1. StepOf(t)
  BY DEF StepOf
<1>2. /\ \A s \in Threads \ {t} : pc'[s] = pc[s] /\ call'[s] = call[s]
      /\ pc[t] = "read_error" /\ pc'[t] = "idle" /\ refs' = refs /\ handle' = handle
      /\ refs[l] \in Int
      /\ starved' \/ (starved' = starved /\ call[t].op # "create")
  BY <1>1, StepIsLocal DEF Untouched, ReadErrorThrows, FailHere, End, Goto, IInv, TypeOK
<1>3. /\ One(Holds(t, l))' = 0
      /\ One(Holds(t, l)) \in {0, 1} /\ (call[t].op # "create" => One(Holds(t, l)) = 0)
      /\ One(None \in EnginesOf(l))' = One(None \in EnginesOf(l))
      /\ One(None \in EnginesOf(l)) \in Int
  BY <1>2 DEF One, EnginesOf, Holds
<1>4. refs'[l] \in Int /\ refs'[l] - refs[l] = 0
  BY <1>2
<1>5. /\ refs'[l] - refs[l] >= One(Holds(t, l))' - One(Holds(t, l))
                + One(None \in EnginesOf(l))' - One(None \in EnginesOf(l))
      /\ \/ starved'
         \/ starved' = starved /\ refs'[l] - refs[l] = One(Holds(t, l))' - One(Holds(t, l))
                + One(None \in EnginesOf(l))' - One(None \in EnginesOf(l))
  BY <1>2, <1>3, <1>4
<1>6. QED
  BY <1>2, <1>3, <1>4, <1>5, BalancedStep

LEMMA BalanceStep ==
    ASSUME IInv, NEW t \in Threads, StepOf(t)
    PROVE  \A l \in Libraries : Balanced(l)'
<1> DEFINE Keeps == UNCHANGED <<refs, handle, starved>> /\ \A l \in Libraries : Holds(t, l)' <=> Holds(t, l)
           Closes == /\ UNCHANGED <<handle, starved>>
                     /\ pc[t] # "idle" /\ Holds(t, Lib(t)) /\ pc'[t] = "idle"
                     /\ refs' = [refs EXCEPT ![Lib(t)] = @ - 1]
<1>0. TypeOK /\ CallOK(t)
  BY DEF IInv
<1>a. CASE Keeps
  BY <1>a, SameOwed
<1>b. CASE Closes
  BY <1>b, ClosedOwed
<1> USE <1>0 DEF Goto, TypeOK, Holds, Lib, FailHere, End
<1>1. ASSUME NEW e \in Engines, NEW l \in Libraries, Create(t, e, l)
      PROVE  Keeps
  BY <1>1 DEF Create, Start
<1>2. ASSUME NEW e \in Engines, NEW op \in {"run", "query"}, Call(t, e, op)
      PROVE  Keeps
  BY <1>2 DEF Call, Start
<1>3. ASSUME NEW e \in Engines, Free(t, e)
      PROVE  Keeps
  BY <1>3 DEF Free
<1>4. ASSUME NEW e \in Engines, Destroy(t, e)
      PROVE  \A l \in Libraries : Balanced(l)'
  BY <1>4, DestroyOwed
<1>5. ASSUME OpenFails(t)
      PROVE  Keeps
  BY <1>5 DEF OpenFails
<1>6. CASE OpenRuntimeLibrary(t)
  BY <1>6, OpenedOwed
<1>7. ASSUME TableRefused(t)
      PROVE  Closes
  BY <1>7 DEF TableRefused
<1>8. ASSUME EnterCreate(t)
      PROVE  Keeps
  BY <1>8 DEF EnterCreate
<1>9. CASE Created(t)
  BY <1>9, CreatedOwed
<1>10. ASSUME RuntimeFails(t)
      PROVE  Keeps
  BY <1>10 DEF RuntimeFails, CallOK, OpOf
<1>11. ASSUME ReadError(t)
      PROVE  Keeps
  BY <1>11 DEF ReadError, CallOK, OpOf
<1>12. CASE ReadErrorThrows(t)
  BY <1>12, ThrownOwed
<1>13. ASSUME CloseFailed(t)
      PROVE  Closes
  BY <1>13 DEF CloseFailed, Unmap
<1>14. ASSUME Rejected(t)
      PROVE  Keeps
  BY <1>14 DEF Rejected
<1>15. ASSUME EnterRuntime(t)
      PROVE  Keeps
  BY <1>15 DEF EnterRuntime
<1>16. ASSUME RuntimeSucceeds(t)
      PROVE  Keeps
  BY <1>16 DEF RuntimeSucceeds
<1>17. ASSUME ReportFailure(t)
      PROVE  Keeps
  BY <1>17 DEF ReportFailure
<1>18. ASSUME Freed(t)
      PROVE  Keeps
  BY <1>18 DEF Freed
<1>19. ASSUME Destroyed(t)
      PROVE  Keeps
  BY <1>19 DEF Destroyed
<1>20. ASSUME CloseDestroyed(t)
      PROVE  Closes
  BY <1>20 DEF CloseDestroyed, Unmap
<1> HIDE DEF Keeps, Closes
<1>21. QED
  BY <1>a, <1>b, <1>1, <1>2, <1>3, <1>4, <1>5, <1>6, <1>7, <1>8, <1>9, <1>10, <1>11, <1>12, <1>13, <1>14, <1>15, <1>16, <1>17, <1>18, <1>19, <1>20 DEF StepOf

LEMMA NextIInv ==
    ASSUME IInv, [Next]_vars
    PROVE  IInv'
<1>1. CASE Next
  <2>1. PICK t \in Threads : StepOf(t)
    BY <1>1 DEF Next, StepOf
  <2>2. QED
    BY <2>1, TypeStep, CallStep, ErrorStep, BalanceStep DEF IInv
<1>2. CASE UNCHANGED vars
  <2>1. TypeOK'
    BY <1>2 DEF vars, IInv, TypeOK
  <2>2. ASSUME NEW t \in Threads
        PROVE  CallOK(t)' /\ ErrorOK(t)'
    BY <1>2 DEF vars, IInv, CallOK, Alone, ErrorOK, Lib
  <2>3. ASSUME NEW l \in Libraries
        PROVE  Balanced(l)'
    BY <1>2 DEF vars, IInv, Balanced, EnginesOf, CallsOf, Holds, Lib
  <2>4. QED
    BY <2>1, <2>2, <2>3 DEF IInv
<1>3. QED
  BY <1>1, <1>2

LEMMA InitIInv == Init => IInv
<1> SUFFICES ASSUME Init PROVE IInv
  OBVIOUS
<1>1. TypeOK
  <2>1. 0 \in Rounds /\ Idle \in [op : Ops, engine : Engines \cup {None}, lib : Libraries \cup {None}]
    BY DEF Rounds, Idle
  <2>2. [l \in Libraries |-> Empty] \in [Libraries -> Texts]
    BY TextsAre
  <2>3. rt_error \in [Threads -> [Libraries -> Texts]]
    BY <2>2 DEF Init
  <2>4. refs \in [Libraries -> Int] /\ results \in [Engines -> Int]
    BY DEF Init
  <2>5. /\ handle \in [Engines -> Libraries \cup {None}]
        /\ pc \in [Threads -> States]
        /\ outcome \in [Threads -> Outcomes]
        /\ starved \in BOOLEAN
    BY DEF Init
  <2>6. QED
    BY <2>1, <2>3, <2>4, <2>5, TextsAre DEF Init, TypeOK
<1>2. \A t \in Threads : CallOK(t) /\ ErrorOK(t)
  BY DEF Init, CallOK, ErrorOK
<1>3. ASSUME NEW l \in Libraries
      PROVE  Balanced(l)
  <2>1. EnginesOf(l) = {} /\ CallsOf(l) = {} /\ refs[l] = 0
    BY LoaderAssumption DEF Init, EnginesOf, CallsOf, Holds
  <2>2. QED
    BY <2>1, FS_EmptySet DEF Balanced
<1>4. QED
  BY <1>1, <1>2, <1>3 DEF IInv

\* IInv is an invariant of the Loader.
THEOREM LoaderInvariance == Spec => []IInv
BY InitIInv, NextIInv, PTL DEF Spec

\* No thread executes code of a library that is not mapped, and no handle leads there:
\* each such thread holds a reference, or works for an engine that does.
THEOREM NeverUnmappedInUse == Spec => []MappedWhileUsed
<1>1. ASSUME IInv
      PROVE  MappedWhileUsed
  <2>1. ASSUME NEW e \in Engines, handle[e] # None
        PROVE  refs[handle[e]] > 0
    BY <1>1, <2>1, Covered DEF IInv, TypeOK
  <2>2. ASSUME NEW t \in Threads, Inside(t)
        PROVE  refs[Lib(t)] > 0
    <3>1. /\ pc[t] \in {"creating", "running", "read_error", "freeing", "destroying"}
          /\ CallOK(t) /\ Lib(t) \in Libraries /\ call[t].engine \in Engines
      BY <1>1, <2>2, CallTypes DEF Inside, IInv
    <3>2. CASE Alone(t)
      <4>1. Holds(t, Lib(t))
        BY <3>1, <3>2 DEF CallOK, OpOf, Alone, Holds
      <4>2. QED
        BY <1>1, <3>1, <4>1, Covered
    <3>3. CASE ~Alone(t)
      BY <1>1, <3>1, <3>3, Covered DEF CallOK
    <3>4. QED
      BY <3>2, <3>3
  <2>3. QED
    BY <2>1, <2>2 DEF MappedWhileUsed
<1>2. QED
  BY LoaderInvariance, <1>1, PTL

\* As many references as somebody will give back: no path through create or destroy
\* leaks one or closes twice, but for the exception that ReferencesBalanced names.
THEOREM ReferencesAccountedFor == Spec => []ReferencesBalanced
<1>1. ASSUME IInv
      PROVE  ReferencesBalanced
  BY <1>1, OwedCounts DEF IInv, Balanced, ReferencesBalanced
<1>2. QED
  BY LoaderInvariance, <1>1, PTL

\* A failing call leaves its own text behind, whatever other threads call meanwhile.
THEOREM ErrorTextIsOwn == Spec => []ErrorTextOfThisCall
<1>1. IInv => ErrorTextOfThisCall
  BY DEF IInv, ErrorOK, ErrorTextOfThisCall
<1>2. QED
  BY LoaderInvariance, <1>1, PTL
==============================================================================
