----------------------------- MODULE OcrService ------------------------------
(***************************************************************************)
(* What one engine handle promises its callers, without threads, mutexes,  *)
(* batches or workers: a call is answered once, either by an error and no  *)
(* result or by an ordered result, which for a batch has one item for each *)
(* image; an answer stays as it is until the caller frees it; and some     *)
(* call is answered as long as calls wait.  OcrEngine implements it.       *)
(***************************************************************************)
EXTENDS Integers, Sequences

CONSTANTS
    Callers,      \* threads sharing the handle
    MaxItems,     \* bound: regions or images of one call
    ShortOutput   \* may a model leave an item without text?

VARIABLES
    phase,    \* of a call: idle, pending or answered
    asked,    \* the positions of the images of a batch; {} when a page is to be read
    status, result

serviceVars == <<phase, asked, status, result>>

\* What a box or image reads as: its own crop, in the orientation the item reports.
OwnCrop(src, flipped) == [src |-> src, rotated |-> flipped]

Item == [src : 1 .. MaxItems, flipped : BOOLEAN,
         text : SUBSET {OwnCrop(s, f) : s \in 1 .. MaxItems, f \in BOOLEAN}]

\* An item was read from its own crop, if it was read at all.
Own(item) == item.text \subseteq {OwnCrop(item.src, item.flipped)}

\* A result lists items in the order of their sources, and all of them were read
\* when the models return every row.
Faithful(r) ==
    /\ \A i \in 1 .. Len(r) : Own(r[i]) /\ (ShortOutput \/ r[i].text # {})
    /\ \A i, j \in 1 .. Len(r) : i < j => r[i].src < r[j].src

\* Each image of a batch has its item, at its position; a page has as many as were found.
Complete(r, images) == images # {} => images = 1 .. Len(r) /\ \A i \in images : r[i].src = i

Replies(images) ==
    {r \in UNION {[1 .. n -> {item \in Item : Own(item)}] : n \in 0 .. MaxItems} :
        Faithful(r) /\ Complete(r, images)}

ServiceInit ==
    /\ phase = [c \in Callers |-> "idle"]
    /\ asked = [c \in Callers |-> {}]
    /\ status = [c \in Callers |-> "none"]
    /\ result = [c \in Callers |-> {}]

Invoke(c) ==
    /\ phase[c] = "idle"
    /\ phase' = [phase EXCEPT ![c] = "pending"]
    /\ \E n \in 0 .. MaxItems : asked' = [asked EXCEPT ![c] = 1 .. n]
    /\ UNCHANGED <<status, result>>

Succeed(c) ==
    /\ phase[c] = "pending"
    /\ phase' = [phase EXCEPT ![c] = "answered"]
    /\ status' = [status EXCEPT ![c] = "OK"]
    /\ \E r \in Replies(asked[c]) : result' = [result EXCEPT ![c] = {r}]
    /\ UNCHANGED asked

Fail(c) ==
    /\ phase[c] = "pending"
    /\ phase' = [phase EXCEPT ![c] = "answered"]
    /\ status' = [status EXCEPT ![c] = "ERROR"]
    /\ UNCHANGED <<asked, result>>

Release(c) ==
    /\ phase[c] = "answered"
    /\ phase' = [phase EXCEPT ![c] = "idle"]
    /\ asked' = [asked EXCEPT ![c] = {}]
    /\ status' = [status EXCEPT ![c] = "none"]
    /\ result' = [result EXCEPT ![c] = {}]

ServiceNext == \E c \in Callers : Invoke(c) \/ Succeed(c) \/ Fail(c) \/ Release(c)

ServiceSpec == ServiceInit /\ [][ServiceNext]_serviceVars

FairServiceSpec ==
    ServiceSpec /\ WF_serviceVars(\E c \in Callers : Succeed(c) \/ Fail(c))
==============================================================================
