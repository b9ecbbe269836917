----------------------------- MODULE HeapProofs -----------------------------
(***************************************************************************)
(* Proofs about Heap, for all objects, zone levels and bounds.              *)
(*                                                                          *)
(* NoYoungerReference is not inductive by itself: that a copy only refers   *)
(* to older objects needs that what the running code can name is live and   *)
(* not younger than its zone, which after a return is what is known of the  *)
(* caller, whose zone must then be older than the callee's.  IInv says so   *)
(* for all calls in progress.                                               *)
(***************************************************************************)
EXTENDS Heap, TLAPS

(* The calls in progress have consecutive zones, each hands its result to a  *)
(* zone older than its own, and only the first is the host.                  *)
CallsNest ==
    /\ acts[1].code = "host" /\ acts[1].ret = 0
    /\ \A i \in 1 .. Len(acts) : acts[i].zone = acts[1].zone + i - 1
    /\ \A i \in 1 .. Len(acts) : i # 1 => acts[i].code # "host" /\ acts[i].ret < acts[i].zone

CacheLives == Cache \in Live /\ heap[Cache].zone = Permanent

IInv == TypeOK /\ CallsNest /\ CacheLives /\ NoYoungerReference /\ NothingDangles

(* A heap as IInv wants it: objects of open zones up to level z, none of     *)
(* which refers to a younger one.                                            *)
GoodHeap(h, z) ==
    /\ DOMAIN h \subseteq Obj
    /\ h \in [DOMAIN h -> Object]
    /\ \A o \in DOMAIN h : h[o].zone <= z
    /\ \A o \in DOMAIN h : \A r \in h[o].refs : r \in DOMAIN h /\ h[r].zone <= h[o].zone

USE HeapAssumption DEF Permanent

-----------------------------------------------------------------------------
(* What IInv says of the heap and of the running call. *)
LEMMA IInvFacts ==
    ASSUME IInv
    PROVE  /\ GoodHeap(heap, Local)
           /\ Len(acts) \in Nat \ {0}
           /\ Running = acts[Len(acts)]
           /\ Running \in ActType
           /\ Running.ret <= Local
           /\ Running.held \subseteq Live
           /\ \A o \in Running.held : heap[o].zone <= Local
<1>1. Len(acts) \in Nat \ {0} /\ acts \in Seq(ActType)
    BY DEF IInv, TypeOK
<1>2. Running = acts[Len(acts)] /\ Running \in ActType
    BY <1>1 DEF Running, Last
<1>3. Running.ret <= Local
    <2>1. Running.ret \in Nat /\ Running.zone \in Nat
        BY <1>2 DEF ActType
    <2>2. Running.ret = 0 \/ Running.ret < Running.zone
        BY <1>1, <1>2 DEF IInv, CallsNest
    <2> QED BY <2>1, <2>2 DEF Local
<1>4. GoodHeap(heap, Local)
    BY DEF IInv, TypeOK, NoYoungerReference, GoodHeap, Live
<1>5. Running.held \subseteq Live /\ \A o \in Running.held : heap[o].zone <= Local
    BY <1>1, <1>2 DEF IInv, NothingDangles, Local
<1> QED BY <1>1, <1>2, <1>3, <1>4, <1>5

(* Whatever the running code can name is live and not younger than its zone. *)
LEMMA NamedIsSafe ==
    ASSUME IInv, NEW v \in Named
    PROVE  v \in Live /\ heap[v].zone <= Local
<1> DEFINE S == {p \in Live : heap[p].zone <= Local}
<1>1. GoodHeap(heap, Local) /\ Running.held \subseteq S
    BY IInvFacts
<1>2. S \in SUBSET Obj /\ S \subseteq Live
    BY <1>1 DEF GoodHeap, Live
<1>3. ASSUME NEW p \in S \cap Live
      PROVE  heap[p].refs \subseteq S
    BY <1>1, <1>3, IInvFacts DEF GoodHeap, Live, Object, Level, ActType, Local
<1>4. v \in S
    BY <1>1, <1>2, <1>3 DEF Named
<1> QED BY <1>4

(* mara_copy: the objects that it copies include the value itself, when that *)
(* is too young, and every object too young that a copied object refers to.  *)
LEMMA ToCopyIsClosed ==
    ASSUME NEW v, NEW t
    PROVE  Closed(ToCopy(v, t), v, t)
<1>1. v \in Younger(t) => v \in ToCopy(v, t)
    BY DEF ToCopy, Closed
<1>2. ASSUME NEW o \in ToCopy(v, t), NEW r \in heap[o].refs \cap Younger(t)
      PROVE  r \in ToCopy(v, t)
    <2>1. ASSUME NEW S \in SUBSET Younger(t), Closed(S, v, t)
          PROVE  r \in S
        <3>1. o \in S
            BY <2>1 DEF ToCopy
        <3> QED BY <2>1, <3>1 DEF Closed
    <2> QED BY <2>1 DEF ToCopy
<1> QED BY <1>1, <1>2 DEF Closed

(* The copy of a live value into the zone of level t: the objects there were *)
(* are as before, the new ones are in that zone, the result may be referred  *)
(* to from it, and again no object refers to a younger one.                  *)
LEMMA CopyIsSafe ==
    ASSUME NEW z \in 0 .. MaxLevel, GoodHeap(heap, z),
           NEW v \in Live, NEW t \in Level, t <= z, NEW f \in Placements(v, t)
    PROVE  LET h == WithCopies(f, t) IN
           /\ GoodHeap(h, z)
           /\ DOMAIN h = Live \cup Copies(f)
           /\ Copies(f) \subseteq Obj \ Live
           /\ \A o \in Live : h[o] = heap[o]
           /\ Image(f, v) \in DOMAIN h
           /\ h[Image(f, v)].zone <= t
<1> DEFINE h == WithCopies(f, t)
<1>1. f \in [ToCopy(v, t) -> Obj \ Live]
    BY DEF Placements
<1>2. Copies(f) \subseteq Obj \ Live
    BY <1>1 DEF Copies
<1>3. DOMAIN h = Live \cup Copies(f) /\ \A o \in Live : h[o] = heap[o]
    BY DEF WithCopies
<1>4. ToCopy(v, t) \subseteq Younger(t) /\ Younger(t) \subseteq Live
    BY DEF ToCopy, Younger
<1>5. \A o \in Live : heap[o] \in Object
    BY DEF GoodHeap, Live
<1>6. ASSUME NEW c \in Copies(f)
      PROVE  /\ h[c].zone = t
             /\ \E p \in ToCopy(v, t) : h[c] = CopyOf(f, p, t)
    <2>1. c \notin Live /\ \E p \in DOMAIN f : f[p] = c
        BY <1>2 DEF Copies
    <2>2. h[c] = CopyOf(f, CHOOSE p \in DOMAIN f : f[p] = c, t)
        BY <2>1 DEF WithCopies
    <2>3. (CHOOSE p \in DOMAIN f : f[p] = c) \in ToCopy(v, t)
        BY <1>1, <2>1
    <2>4. \E p \in ToCopy(v, t) : h[c] = CopyOf(f, p, t)
        BY <2>2, <2>3
    <2>5. h[c].zone = t
        BY <2>2 DEF CopyOf
    <2> QED BY <2>4, <2>5
<1>7. ASSUME NEW r \in Live, r \in Younger(t) => r \in ToCopy(v, t)
      PROVE  Image(f, r) \in DOMAIN h /\ h[Image(f, r)].zone <= t
    <2>1. CASE r \in ToCopy(v, t)
        <3>1. Image(f, r) = f[r] /\ f[r] \in Copies(f)
            BY <1>1, <2>1 DEF Image, Copies
        <3> QED BY <1>3, <1>6, <3>1 DEF Level
    <2>2. CASE r \notin ToCopy(v, t)
        <3>1. Image(f, r) = r /\ ~ (heap[r].zone > t)
            BY <1>1, <1>7, <2>2 DEF Image, Younger
        <3>2. heap[r].zone <= t
            BY <1>5, <3>1 DEF Object, Level
        <3> QED BY <1>3, <3>1, <3>2
    <2> QED BY <2>1, <2>2
<1>8. Image(f, v) \in DOMAIN h /\ h[Image(f, v)].zone <= t
    BY <1>7, ToCopyIsClosed DEF Closed
<1>9. ASSUME NEW c \in Copies(f), NEW r \in h[c].refs
      PROVE  r \in DOMAIN h /\ h[r].zone <= h[c].zone
    <2>1. PICK p \in ToCopy(v, t) : h[c] = CopyOf(f, p, t)
        BY <1>6
    <2>2. PICK q \in heap[p].refs : r = Image(f, q)
        BY <2>1 DEF CopyOf
    <2>3. q \in Live /\ (q \in Younger(t) => q \in ToCopy(v, t))
        BY <1>4, <2>2, ToCopyIsClosed DEF Closed, GoodHeap, Live
    <2> QED BY <1>6, <1>7, <2>2, <2>3
<1>10. ASSUME NEW o \in Live, NEW r \in h[o].refs
       PROVE  r \in DOMAIN h /\ h[r].zone <= h[o].zone
    BY <1>3 DEF GoodHeap, Live
<1>11. DOMAIN h \subseteq Obj
    BY <1>2, <1>3 DEF GoodHeap, Live
<1>12. ASSUME NEW o \in DOMAIN h
       PROVE  h[o] \in Object /\ h[o].zone <= z
    <2>1. CASE o \in Live
        BY <1>3, <1>5, <2>1 DEF GoodHeap, Live
    <2>2. CASE o \in Copies(f)
        <3>1. PICK p \in ToCopy(v, t) : h[o] = CopyOf(f, p, t)
            BY <1>6, <2>2
        <3>2. \A q \in heap[p].refs : Image(f, q) \in Obj
            BY <1>1, <1>4, <1>5 DEF Image, Object
        <3>3. h[o] = [zone |-> t, refs |-> {Image(f, q) : q \in heap[p].refs}]
            BY <3>1 DEF CopyOf
        <3>4. {Image(f, q) : q \in heap[p].refs} \in SUBSET Obj
            BY <3>2
        <3> QED BY <3>3, <3>4 DEF Object
    <2> QED BY <1>3, <2>1, <2>2
<1>13. h \in [DOMAIN h -> Object]
    <2>1. h = [o \in DOMAIN h |-> h[o]]
        BY DEF WithCopies
    <2> QED BY <1>12, <2>1
<1>14. GoodHeap(h, z)
    BY <1>3, <1>9, <1>10, <1>11, <1>12, <1>13 DEF GoodHeap
<1> QED BY <1>2, <1>3, <1>8, <1>14

-----------------------------------------------------------------------------
(* The initial state. *)
LEMMA InitHolds == Init => IInv
<1> SUFFICES ASSUME Init PROVE IInv
    OBVIOUS
<1>1. Live = {Cache} /\ heap[Cache] = [zone |-> -1, refs |-> {}]
    BY DEF Init, Live
<1>2. acts = <<Act("host", 0, 0, {Cache})>> /\ Len(acts) = 1
    BY DEF Init
<1>3. acts[1] = [code |-> "host", zone |-> 0, ret |-> 0, held |-> {Cache}]
    BY <1>2 DEF Act
<1>4. acts[1] \in ActType
    BY <1>3 DEF ActType
<1>5. acts \in Seq(ActType) /\ acts # <<>>
    BY <1>2, <1>4
<1>6. Local = 0
    BY <1>2, <1>3 DEF Local, Running, Last
<1>7. heap \in [Live -> Object] /\ Live \subseteq Obj
    BY <1>1 DEF Init, Live, Object, Level
<1>8. TypeOK
    BY <1>1, <1>5, <1>6, <1>7 DEF TypeOK
<1>9. CallsNest
    BY <1>2, <1>3 DEF CallsNest
<1>10. NoYoungerReference /\ NothingDangles /\ CacheLives
    BY <1>1, <1>2, <1>3 DEF NoYoungerReference, NothingDangles, CacheLives
<1> QED BY <1>8, <1>9, <1>10 DEF IInv

(* A call that holds one more object is as it was otherwise. *)
LEMMA HoldsOneMore ==
    ASSUME NEW a \in ActType, NEW o \in Obj
    PROVE  LET b == [a EXCEPT !.held = @ \cup {o}] IN
           /\ b \in ActType
           /\ b.code = a.code /\ b.zone = a.zone /\ b.ret = a.ret
           /\ b.held = a.held \cup {o}
<1> DEFINE b == [a EXCEPT !.held = @ \cup {o}]
<1>1. a.held \in SUBSET Obj
    BY DEF ActType
<1>2. a.held \cup {o} \in SUBSET Obj
    BY <1>1
<1>3. b.code = a.code /\ b.zone = a.zone /\ b.ret = a.ret
    BY DEF ActType
<1>4. b.held = a.held \cup {o}
    BY DEF ActType
<1>5. b = [code |-> b.code, zone |-> b.zone, ret |-> b.ret, held |-> b.held]
    BY DEF ActType
<1>6. b \in ActType
    <2> HIDE DEF b
    <2>1. a.code \in {"host", "vm", "native"} /\ a.zone \in 0 .. MaxLevel /\ a.ret \in 0 .. MaxLevel
        BY DEF ActType
    <2>2. b.held \in SUBSET Obj
        BY <1>2, <1>4
    <2> QED BY <1>3, <1>5, <2>1, <2>2 DEF ActType
<1> QED BY <1>3, <1>4, <1>6

(* A step that opens or exits no zone, makes objects and stores references,  *)
(* and may let the running code hold one more object.                        *)
LEMMA HeapStep ==
    ASSUME IInv, GoodHeap(heap', Local),
           \A o \in Live : o \in DOMAIN heap' /\ heap'[o].zone = heap[o].zone,
           \/ acts' = acts
           \/ \E o \in DOMAIN heap' : heap'[o].zone <= Local /\ acts' = Hold(o)
    PROVE  IInv'
<1> DEFINE n == Len(acts)
<1>1. acts \in Seq(ActType) /\ n \in Nat \ {0} /\ Local = acts[n].zone
    BY IInvFacts DEF IInv, TypeOK, Local
<1>2. /\ acts' \in Seq(ActType) /\ Len(acts') = n
      /\ \A i \in 1 .. n : /\ acts'[i].code = acts[i].code
                           /\ acts'[i].zone = acts[i].zone
                           /\ acts'[i].ret = acts[i].ret
                           /\ \A o \in acts'[i].held :
                                 \/ o \in acts[i].held
                                 \/ i = n /\ o \in DOMAIN heap' /\ heap'[o].zone <= Local
    <2>1. CASE acts' = acts
        BY <1>1, <2>1
    <2>2. ASSUME NEW o \in DOMAIN heap', heap'[o].zone <= Local, acts' = Hold(o)
          PROVE  <1>2
        <3>1. acts' = [acts EXCEPT ![n].held = @ \cup {o}]
            BY <2>2 DEF Hold
        <3>2. o \in Obj
            BY DEF GoodHeap
        <3> DEFINE b == [acts[n] EXCEPT !.held = @ \cup {o}]
        <3>3. /\ b \in ActType
              /\ b.code = acts[n].code /\ b.zone = acts[n].zone
              /\ b.ret = acts[n].ret
              /\ b.held = acts[n].held \cup {o}
            BY <1>1, <3>2, HoldsOneMore
        <3> HIDE DEF b
        <3>4. acts' \in Seq(ActType) /\ Len(acts') = n
            BY <1>1, <3>1, <3>3 DEF b
        <3>5. ASSUME NEW i \in 1 .. n
              PROVE  acts'[i] = IF i = n THEN b ELSE acts[i]
            BY <1>1, <3>1 DEF b
        <3> QED BY <2>2, <3>3, <3>4, <3>5
    <2> QED BY <2>1, <2>2
<1>3. Local' = Local
    BY <1>1, <1>2 DEF Local, Running, Last
<1>4. TypeOK'
    BY <1>1, <1>2, <1>3 DEF TypeOK, GoodHeap, Live
<1>5. CallsNest'
    BY <1>1, <1>2 DEF IInv, CallsNest
<1>6. CacheLives'
    BY DEF IInv, CacheLives, Live
<1>7. NoYoungerReference'
    BY DEF GoodHeap, NoYoungerReference, Live
<1>8. NothingDangles'
    <2> SUFFICES ASSUME NEW i \in 1 .. n, NEW o \in acts'[i].held
                 PROVE  o \in Live' /\ heap'[o].zone <= acts'[i].zone
        BY <1>2 DEF NothingDangles
    <2>1. CASE o \in acts[i].held
        BY <1>2, <2>1 DEF IInv, NothingDangles, Live
    <2>2. CASE o \notin acts[i].held
        BY <1>1, <1>2, <2>2 DEF Live
    <2> QED BY <2>1, <2>2
<1> QED BY <1>4, <1>5, <1>6, <1>7, <1>8 DEF IInv

-----------------------------------------------------------------------------
(* A new object that refers to objects not younger than itself. *)
LEMMA ObjectIsSafe ==
    ASSUME NEW z \in 0 .. MaxLevel, NEW h, GoodHeap(h, z), NEW o \in Obj \ DOMAIN h,
           NEW y \in Level, y <= z,
           NEW R, R \subseteq DOMAIN h, \A r \in R : h[r].zone <= y,
           NEW k, k = WithObject(h, o, y, R)
    PROVE  GoodHeap(k, z)
<1>1. DOMAIN k = DOMAIN h \cup {o} /\ \A p \in DOMAIN h : k[p] = h[p]
    BY DEF WithObject
<1>2. k[o] = [zone |-> y, refs |-> R]
    BY DEF WithObject
<1>3. k = [p \in DOMAIN k |-> k[p]]
    BY DEF WithObject
<1>4. R \in SUBSET Obj /\ [zone |-> y, refs |-> R] \in Object
    BY DEF GoodHeap, Object
<1>5. k \in [DOMAIN k -> Object]
    BY <1>1, <1>2, <1>3, <1>4 DEF GoodHeap
<1>6. \A p \in DOMAIN k : k[p].zone <= z
    BY <1>1, <1>2 DEF GoodHeap
<1>7. \A p \in DOMAIN k : \A r \in k[p].refs : r \in DOMAIN k /\ k[r].zone <= k[p].zone
    BY <1>1, <1>2 DEF GoodHeap
<1> QED BY <1>1, <1>5, <1>6, <1>7 DEF GoodHeap

(* The heap h when the object c refers to R. *)
WithRefs(h, c, R) == [h EXCEPT ![c].refs = R]

(* A container takes a reference to an object not younger than itself. *)
LEMMA ReferenceIsSafe ==
    ASSUME NEW z \in 0 .. MaxLevel, NEW h, GoodHeap(h, z), NEW c \in DOMAIN h,
           NEW R, R \subseteq DOMAIN h, \A r \in R : h[r].zone <= h[c].zone,
           NEW k, k = WithRefs(h, c, R)
    PROVE  GoodHeap(k, z)
<1>1. \A p \in DOMAIN h : h[p] \in Object
    BY DEF GoodHeap
<1>2. DOMAIN k = DOMAIN h /\ k = [p \in DOMAIN h |-> k[p]]
    BY DEF GoodHeap, WithRefs
<1>3. \A p \in DOMAIN h : k[p] = IF p = c THEN [h[c] EXCEPT !.refs = R] ELSE h[p]
    BY DEF GoodHeap, WithRefs
<1>4. [h[c] EXCEPT !.refs = R] = [zone |-> h[c].zone, refs |-> R]
    BY <1>1 DEF Object
<1>5. \A p \in DOMAIN h : /\ k[p].zone = h[p].zone
                          /\ k[p].refs = IF p = c THEN R ELSE h[p].refs
    BY <1>3, <1>4
<1>6. \A p \in DOMAIN h : k[p] \in Object
    <2>1. R \in SUBSET Obj /\ h[c].zone \in Level
        BY <1>1 DEF Object, GoodHeap
    <2>2. [zone |-> h[c].zone, refs |-> R] \in Object
        BY <2>1 DEF Object
    <2> QED BY <1>1, <1>3, <1>4, <2>2
<1>7. k \in [DOMAIN k -> Object]
    BY <1>2, <1>6
<1> QED BY <1>2, <1>5, <1>7 DEF GoodHeap

(* And nothing moves to another zone. *)
LEMMA ZoneStays ==
    ASSUME NEW z, NEW h, GoodHeap(h, z), NEW c, NEW R, NEW k, k = WithRefs(h, c, R)
    PROVE  DOMAIN k = DOMAIN h /\ \A p \in DOMAIN h : k[p].zone = h[p].zone
<1>1. \A p \in DOMAIN h : h[p] \in Object
    BY DEF GoodHeap
<1>2. DOMAIN k = DOMAIN h /\ \A p \in DOMAIN h : k[p] = IF p = c THEN [h[c] EXCEPT !.refs = R] ELSE h[p]
    BY DEF GoodHeap, WithRefs
<1> QED BY <1>1, <1>2 DEF Object

(* The level of the running call's zone, as a value for the lemmas above. *)
LEMMA LocalLevel ==
    ASSUME IInv
    PROVE  \E l \in 0 .. MaxLevel :
             /\ l = Local /\ l \in Level /\ GoodHeap(heap, l)
             /\ Running.ret \in Level /\ Running.ret <= l
             /\ \A v \in Named : v \in Live /\ heap[v].zone \in Level /\ heap[v].zone <= l
<1>1. Local \in 0 .. MaxLevel /\ Running.ret \in 0 .. MaxLevel /\ Running.ret <= Local
    BY IInvFacts DEF ActType, Local
<1>2. \A v \in Named : v \in Live /\ heap[v].zone \in Level /\ heap[v].zone <= Local
    BY IInvFacts, NamedIsSafe DEF GoodHeap, Live, Object
<1> QED BY <1>1, <1>2, IInvFacts DEF Level

(* mara_new_list and its like: a new object in a zone of the running call. *)
LEMMA NewObjectHolds == IInv /\ NewObject => IInv'
<1> SUFFICES ASSUME IInv, NewObject PROVE IInv'
    OBVIOUS
<1>1. PICK l \in 0 .. MaxLevel :
          l = Local /\ l \in Level /\ GoodHeap(heap, l) /\ Running.ret \in Level /\ Running.ret <= l
    BY LocalLevel
<1>2. PICK o \in Obj \ DOMAIN heap, z \in Level :
          z <= l /\ heap' = WithObject(heap, o, z, {}) /\ acts' = Hold(o)
    BY <1>1 DEF NewObject, Live
<1> DEFINE R == {}
<1>3. R \subseteq DOMAIN heap /\ (\A r \in R : heap[r].zone <= z) /\ heap' = WithObject(heap, o, z, R)
    BY <1>2
<1> HIDE DEF R
<1>4. GoodHeap(heap', l)
    BY <1>1, <1>2, <1>3, ObjectIsSafe
<1>5. /\ o \in DOMAIN heap' /\ heap'[o].zone = z
      /\ \A p \in DOMAIN heap : p \in DOMAIN heap' /\ heap'[p] = heap[p]
    BY <1>2 DEF WithObject
<1> QED BY <1>1, <1>2, <1>4, <1>5, HeapStep DEF Live

(* MAKE_CLOSURE: a closure takes the values that it captures, copied. *)
LEMMA MakeClosureHolds == IInv /\ MakeClosure => IInv'
<1> SUFFICES ASSUME IInv, MakeClosure PROVE IInv'
    OBVIOUS
<1>1. PICK l \in 0 .. MaxLevel :
          /\ l = Local /\ l \in Level /\ GoodHeap(heap, l)
          /\ \A v \in Named : v \in Live /\ heap[v].zone <= l
    BY LocalLevel
<1>2. PICK o \in Obj \ DOMAIN heap, v \in Named :
          heap' = WithObject(heap, o, l, {v}) /\ acts' = Hold(o)
    BY <1>1 DEF MakeClosure, Live
<1> DEFINE R == {v}
<1>3. R \subseteq DOMAIN heap /\ (\A r \in R : heap[r].zone <= l) /\ heap' = WithObject(heap, o, l, R)
    BY <1>1, <1>2 DEF Live
<1> HIDE DEF R
<1>4. GoodHeap(heap', l)
    BY <1>1, <1>2, <1>3, ObjectIsSafe
<1>5. /\ o \in DOMAIN heap' /\ heap'[o].zone = l
      /\ \A p \in DOMAIN heap : p \in DOMAIN heap' /\ heap'[p] = heap[p]
    BY <1>2 DEF WithObject
<1> QED BY <1>1, <1>2, <1>4, <1>5, HeapStep DEF Live

(* mara_new_fn: a function takes its userdata, copied. *)
LEMMA NewFnHolds == IInv /\ NewFn => IInv'
<1> SUFFICES ASSUME IInv, NewFn PROVE IInv'
    OBVIOUS
<1>1. PICK l \in 0 .. MaxLevel :
          /\ l = Local /\ l \in Level /\ GoodHeap(heap, l)
          /\ Running.ret \in Level /\ Running.ret <= l
          /\ \A v \in Named : v \in Live
    BY LocalLevel
<1> PICK v \in Named, y \in {Local, Running.ret} :
        \E f \in Placements(v, y) : \E o \in Obj \ (Live \cup Copies(f)) :
            /\ heap' = WithObject(WithCopies(f, y), o, y, {Image(f, v)})
            /\ acts' = Hold(o)
    BY DEF NewFn
<1>2. PICK z \in Level : z = y /\ z <= l
    BY <1>1
<1>3. PICK f \in Placements(v, z) : \E o \in Obj \ (Live \cup Copies(f)) :
            /\ heap' = WithObject(WithCopies(f, z), o, z, {Image(f, v)})
            /\ acts' = Hold(o)
    BY <1>2
<1> DEFINE h == WithCopies(f, z)
<1>4. /\ GoodHeap(h, l) /\ DOMAIN h = Live \cup Copies(f)
      /\ \A p \in Live : h[p] = heap[p]
      /\ Image(f, v) \in DOMAIN h /\ h[Image(f, v)].zone <= z
    <2>1. v \in Live /\ GoodHeap(heap, l) /\ l \in 0 .. MaxLevel /\ z <= l
        BY <1>1, <1>2
    <2> QED BY <2>1, CopyIsSafe
<1>5. PICK o \in Obj \ DOMAIN h : heap' = WithObject(h, o, z, {Image(f, v)}) /\ acts' = Hold(o)
    BY <1>3, <1>4
<1> DEFINE R == {Image(f, v)}
<1> HIDE DEF h
<1>6. R \subseteq DOMAIN h /\ (\A r \in R : h[r].zone <= z) /\ heap' = WithObject(h, o, z, R)
    BY <1>4, <1>5
<1> HIDE DEF R
<1>7. GoodHeap(heap', l)
    BY <1>2, <1>4, <1>5, <1>6, ObjectIsSafe
<1>8. /\ o \in DOMAIN heap' /\ heap'[o].zone = z
      /\ \A p \in DOMAIN h : p \in DOMAIN heap' /\ heap'[p] = h[p]
    BY <1>5 DEF WithObject
<1> QED BY <1>1, <1>2, <1>4, <1>5, <1>7, <1>8, HeapStep

(* Storing a value in a list, a map or a capture. *)
LEMMA StoreHolds == IInv /\ Store => IInv'
<1> SUFFICES ASSUME IInv, Store PROVE IInv'
    OBVIOUS
<1>1. PICK l \in 0 .. MaxLevel :
          /\ l = Local /\ l \in Level /\ GoodHeap(heap, l)
          /\ \A v \in Named : v \in Live /\ heap[v].zone \in Level /\ heap[v].zone <= l
    BY LocalLevel
<1>2. PICK c \in Named, v \in Named : \E old : Put(c, v, old)
    BY DEF Store
<1>3. PICK old : Put(c, v, old)
    BY <1>2
<1>4. PICK t \in Level : t = heap[c].zone /\ t <= l
    BY <1>1
<1>5. v \in Live /\ c \in Live
    BY <1>1
<1>6. GoodHeap(heap, l)
    BY <1>1
<1>7. PICK f \in Placements(v, t) :
          heap' = [WithCopies(f, t) EXCEPT ![c].refs = (@ \ old) \cup {Image(f, v)}]
    BY <1>3, <1>4 DEF Put
<1> DEFINE h == WithCopies(f, t)
<1>8. /\ GoodHeap(h, l) /\ DOMAIN h = Live \cup Copies(f)
      /\ \A p \in Live : h[p] = heap[p]
      /\ Image(f, v) \in DOMAIN h /\ h[Image(f, v)].zone <= t
    <2>1. v \in Live /\ GoodHeap(heap, l) /\ l \in 0 .. MaxLevel /\ t <= l
        BY <1>4, <1>5, <1>6
    <2> QED BY <2>1, CopyIsSafe
<1> DEFINE R == (h[c].refs \ old) \cup {Image(f, v)}
<1>9. heap' = WithRefs(h, c, R)
    BY <1>7 DEF WithRefs
<1> HIDE DEF h
<1>10. h[c].zone = t /\ c \in DOMAIN h
    BY <1>1, <1>4, <1>8
<1>11. R \subseteq DOMAIN h /\ \A r \in R : h[r].zone <= h[c].zone
    BY <1>8, <1>10 DEF GoodHeap
<1> HIDE DEF R
<1>12. GoodHeap(heap', l)
    BY <1>8, <1>9, <1>10, <1>11, ReferenceIsSafe
<1>13. DOMAIN heap' = DOMAIN h /\ \A p \in DOMAIN h : heap'[p].zone = h[p].zone
    BY <1>8, <1>9, ZoneStays
<1> QED BY <1>1, <1>8, <1>12, <1>13, HeapStep DEF Store

(* Deleting an element of a list or a map. *)
LEMMA DeleteHolds == IInv /\ Delete => IInv'
<1> SUFFICES ASSUME IInv, Delete PROVE IInv'
    OBVIOUS
<1>1. PICK l \in 0 .. MaxLevel :
          /\ l = Local /\ l \in Level /\ GoodHeap(heap, l)
          /\ \A v \in Named : v \in Live /\ heap[v].zone \in Level /\ heap[v].zone <= l
    BY LocalLevel
<1> PICK c \in Named : \E r \in heap[c].refs :
          heap' = [heap EXCEPT ![c].refs = @ \ {r}] /\ acts' = Hold(r)
    BY DEF Delete
<1>2. PICK r \in heap[c].refs :
          heap' = [heap EXCEPT ![c].refs = @ \ {r}] /\ acts' = Hold(r)
    OBVIOUS
<1> DEFINE R == heap[c].refs \ {r}
<1>3. heap' = WithRefs(heap, c, R) /\ c \in DOMAIN heap
    BY <1>1, <1>2 DEF WithRefs, Live
<1>4. R \subseteq DOMAIN heap /\ \A p \in R : heap[p].zone <= heap[c].zone
    BY <1>1, <1>3 DEF GoodHeap
<1> HIDE DEF R
<1>5. GoodHeap(heap', l)
    BY <1>1, <1>3, <1>4, ReferenceIsSafe
<1>6. DOMAIN heap' = DOMAIN heap /\ \A p \in DOMAIN heap : heap'[p].zone = heap[p].zone
    BY <1>1, <1>3, ZoneStays
<1>7. r \in DOMAIN heap
    BY <1>1, <1>3 DEF GoodHeap
<1>8. heap'[r].zone <= l /\ r \in DOMAIN heap'
    BY <1>5, <1>7, <1>6 DEF GoodHeap
<1> QED BY <1>1, <1>2, <1>5, <1>8, <1>6, HeapStep DEF Live

-----------------------------------------------------------------------------
(* A call begins: its zone is the next one, its result is for a zone of the  *)
(* caller, it holds no more than the caller.                                 *)
LEMMA EnterHolds ==
    ASSUME IInv, NEW code \in {"vm", "native"}, NEW ret \in {Local, Running.ret},
           Enter(code, ret)
    PROVE  IInv'
<1> DEFINE n == Len(acts)
           a == Act(code, Local + 1, ret, Running.held)
<1>1. /\ acts \in Seq(ActType) /\ n \in Nat \ {0} /\ GoodHeap(heap, Local)
      /\ Running = acts[n] /\ Running \in ActType
      /\ Local = acts[n].zone /\ Local \in 0 .. MaxLevel
      /\ Running.ret \in 0 .. MaxLevel /\ Running.ret <= Local
      /\ Running.held \subseteq Live /\ Running.held \subseteq Obj
      /\ \A o \in Running.held : heap[o].zone <= Local
    BY IInvFacts DEF IInv, TypeOK, Local, ActType
<1>2. Local < MaxLevel /\ acts' = Append(acts, a) /\ heap' = heap
    BY DEF Enter
<1>3. Local + 1 \in 0 .. MaxLevel /\ ret \in 0 .. MaxLevel /\ ret < Local + 1
    BY <1>1, <1>2
<1>4. a = [code |-> code, zone |-> Local + 1, ret |-> ret, held |-> Running.held]
    BY DEF Act
<1>5. a \in ActType
    BY <1>1, <1>3, <1>4 DEF ActType
<1> HIDE DEF a
<1>6. /\ acts' \in Seq(ActType) /\ Len(acts') = n + 1
      /\ acts'[n + 1] = a /\ \A i \in 1 .. n : acts'[i] = acts[i]
    BY <1>1, <1>2, <1>5
<1>7. Local' = Local + 1
    BY <1>1, <1>4, <1>6 DEF Local, Running, Last
<1>8. Live' = Live /\ \A o \in Live : heap'[o].zone \in Level /\ heap'[o].zone <= Local
    BY <1>1, <1>2 DEF Live, GoodHeap, Object
<1>9. TypeOK'
    <2>1. \A o \in Live' : heap'[o].zone <= Local'
        BY <1>1, <1>7, <1>8 DEF Level
    <2> QED BY <1>1, <1>2, <1>6, <2>1 DEF TypeOK, IInv, Live
<1>10. CallsNest'
    <2>1. acts'[1] = acts[1] /\ acts[1].zone \in Nat
        <3>1. 1 \in 1 .. n /\ acts[1] \in ActType
            BY <1>1
        <3> QED BY <1>6, <3>1 DEF ActType
    <2>2. a.code # "host" /\ a.zone = acts[n].zone + 1 /\ a.ret < a.zone
        BY <1>1, <1>3, <1>4
    <2>3. acts[n].zone = acts[1].zone + n - 1
        BY <1>1 DEF IInv, CallsNest
    <2>4. \A i \in 1 .. n + 1 : i \in 1 .. n \/ i = n + 1
        BY <1>1
    <2>5. \A i \in 1 .. n + 1 : acts'[i].zone = acts[1].zone + i - 1
        <3>1. acts'[n + 1].zone = acts[1].zone + (n + 1) - 1
            <4>1. acts'[n + 1].zone = (acts[1].zone + n - 1) + 1
                BY <1>6, <2>2, <2>3
            <4>2. n \in Nat /\ acts[1].zone \in Nat
                BY <1>1, <2>1
            <4> HIDE DEF n
            <4>3. (acts[1].zone + n - 1) + 1 = acts[1].zone + (n + 1) - 1
                BY <4>2
            <4> QED BY <4>1, <4>3
        <3>2. \A i \in 1 .. n : acts'[i].zone = acts[1].zone + i - 1
            BY <1>6 DEF IInv, CallsNest
        <3> QED BY <2>4, <3>1, <3>2
    <2>6. \A i \in 1 .. n + 1 : /\ i # 1 => acts'[i].code # "host" /\ acts'[i].ret < acts'[i].zone
        BY <1>6, <2>2, <2>4 DEF IInv, CallsNest
    <2> QED BY <1>6, <2>1, <2>5, <2>6 DEF IInv, CallsNest
<1>11. CacheLives' /\ NoYoungerReference'
    BY <1>2 DEF IInv, CacheLives, NoYoungerReference, Live
<1>12. NothingDangles'
    <2>1. \A i \in 1 .. n + 1 : i \in 1 .. n \/ i = n + 1
        BY <1>1
    <2>2. \A o \in a.held : o \in Live' /\ heap'[o].zone <= a.zone
        BY <1>1, <1>4, <1>8 DEF Level
    <2> QED BY <1>2, <1>6, <1>8, <2>1, <2>2 DEF NothingDangles, IInv
<1> QED BY <1>9, <1>10, <1>11, <1>12 DEF IInv

(* The four ways to call a function. *)
LEMMA CallsHold ==
    IInv /\ (CallVm \/ HostCallsVm \/ CallNative \/ MaraCallNative) => IInv'
<1> SUFFICES ASSUME IInv, CallVm \/ HostCallsVm \/ CallNative \/ MaraCallNative
             PROVE  IInv'
    OBVIOUS
<1>1. CASE CallVm
    BY <1>1, EnterHolds DEF CallVm
<1>2. CASE HostCallsVm
    BY <1>2, EnterHolds DEF HostCallsVm
<1>3. CASE CallNative
    BY <1>3, EnterHolds DEF CallNative
<1>4. CASE MaraCallNative
    BY <1>4, EnterHolds DEF MaraCallNative
<1> QED BY <1>1, <1>2, <1>3, <1>4

-----------------------------------------------------------------------------
(* After a return the caller is the running call, with a zone that may be    *)
(* another and one more object; the calls before it are as they were.        *)
LEMMA ResumeFacts ==
    ASSUME IInv, Len(acts) > 1, NEW z \in 0 .. MaxLevel, NEW o \in Obj, Resume(z, o)
    PROVE  /\ acts' \in Seq(ActType) /\ Len(acts') = Len(acts) - 1
           /\ Running' = acts'[Len(acts) - 1] /\ Local' = z
           /\ \A i \in 1 .. Len(acts) - 1 :
                /\ acts'[i].code = acts[i].code
                /\ acts'[i].ret = acts[i].ret
                /\ i # Len(acts) - 1 => acts'[i] = acts[i]
           /\ acts'[Len(acts) - 1].zone = z
           /\ acts'[Len(acts) - 1].held = acts[Len(acts) - 1].held \cup {o}
<1> DEFINE m == Len(acts) - 1
           b == [acts[m] EXCEPT !.held = @ \cup {o}]
           c == [b EXCEPT !.zone = z]
<1>1. acts \in Seq(ActType) /\ Len(acts) \in Nat /\ m \in Nat \ {0}
    BY IInvFacts DEF IInv, TypeOK
<1>2. /\ Front(acts) \in Seq(ActType) /\ Len(Front(acts)) = m
      /\ \A i \in 1 .. m : Front(acts)[i] = acts[i] /\ acts[i] \in ActType
    BY <1>1 DEF Front
<1>3. /\ b \in ActType /\ b.code = acts[m].code /\ b.ret = acts[m].ret
      /\ b.held = acts[m].held \cup {o}
    BY <1>1, <1>2, HoldsOneMore
<1>4. acts' = [[Front(acts) EXCEPT ![m].held = @ \cup {o}] EXCEPT ![m].zone = z]
    BY DEF Resume
<1>5. acts' = [Front(acts) EXCEPT ![m] = c]
    <2> DEFINE F == Front(acts)
               G == [F EXCEPT ![m].held = @ \cup {o}]
    <2>1. F \in [1 .. m -> ActType] /\ m \in 1 .. m /\ F[m] = acts[m]
        BY <1>1, <1>2
    <2> HIDE DEF F
    <2>2. G = [i \in 1 .. m |-> IF i = m THEN b ELSE F[i]]
        BY <2>1
    <2> HIDE DEF b
    <2>3. [G EXCEPT ![m].zone = z] = [i \in 1 .. m |-> IF i = m THEN c ELSE F[i]]
        <3> HIDE DEF G
        <3> QED BY <2>1, <2>2
    <2>4. [F EXCEPT ![m] = c] = [i \in 1 .. m |-> IF i = m THEN c ELSE F[i]]
        BY <2>1
    <2> QED BY <1>4, <2>3, <2>4 DEF F
<1> HIDE DEF b
<1>6. c = [code |-> b.code, zone |-> z, ret |-> b.ret, held |-> b.held]
    <2>1. b = [code |-> b.code, zone |-> b.zone, ret |-> b.ret, held |-> b.held]
        BY <1>3 DEF ActType
    <2> QED BY <2>1
<1> HIDE DEF c
<1>7. c \in ActType
    BY <1>3, <1>6 DEF ActType
<1>8. /\ acts' \in Seq(ActType) /\ Len(acts') = m
      /\ \A i \in 1 .. m : acts'[i] = IF i = m THEN c ELSE acts[i]
    BY <1>1, <1>2, <1>5, <1>7
<1>9. c.code = acts[m].code /\ c.ret = acts[m].ret
    BY <1>3, <1>6
<1>10. c.zone = z /\ c.held = acts[m].held \cup {o}
    BY <1>3, <1>6
<1>11. acts'[m] = c
    BY <1>1, <1>8
<1>12. Running' = acts'[m] /\ Local' = z
    BY <1>1, <1>8, <1>10, <1>11 DEF Running, Local, Last
<1>13. \A i \in 1 .. m : /\ acts'[i].code = acts[i].code
                         /\ acts'[i].ret = acts[i].ret
                         /\ i # m => acts'[i] = acts[i]
    BY <1>8, <1>9
<1> QED BY <1>8, <1>10, <1>11, <1>12, <1>13

(* A return to a caller in zone z, after which the objects are those of h    *)
(* whose zone is not younger than z.                                         *)
LEMMA ReturnStep ==
    ASSUME IInv, Len(acts) > 1, NEW z \in 0 .. MaxLevel, GoodHeap(heap', z),
           NEW o \in DOMAIN heap', Resume(z, o), heap'[o].zone <= z,
           z = acts[Len(acts) - 1].zone \/ (Len(acts) = 2 /\ z > acts[1].zone),
           \A p \in Live : heap[p].zone <= acts[Len(acts) - 1].zone =>
               p \in DOMAIN heap' /\ heap'[p] = heap[p]
    PROVE  IInv'
<1> DEFINE m == Len(acts) - 1
<1>1. acts \in Seq(ActType) /\ Len(acts) \in Nat /\ m \in Nat \ {0} /\ o \in Obj
    BY IInvFacts DEF IInv, TypeOK, GoodHeap
<1>2. /\ acts' \in Seq(ActType) /\ Len(acts') = m /\ Local' = z
      /\ \A i \in 1 .. m : /\ acts'[i].code = acts[i].code
                           /\ acts'[i].ret = acts[i].ret
                           /\ i # m => acts'[i] = acts[i]
      /\ acts'[m].zone = z /\ acts'[m].held = acts[m].held \cup {o}
    BY <1>1, ResumeFacts
<1>3. \A i \in 1 .. m : i \in 1 .. Len(acts) /\ acts[i] \in ActType
    BY <1>1
<1>4. TypeOK'
    BY <1>1, <1>2 DEF TypeOK, GoodHeap, Live
<1>5. CallsNest'
    <2>1. CASE z = acts[m].zone
        <3>1. \A i \in 1 .. m : acts'[i].zone = acts[i].zone
            BY <1>2, <2>1
        <3>2. 1 \in 1 .. m
            BY <1>1
        <3> QED BY <1>2, <1>3, <3>1, <3>2 DEF IInv, CallsNest
    <2>2. CASE Len(acts) = 2 /\ z > acts[1].zone
        <3>1. m = 1 /\ \A i \in 1 .. m : i = 1
            BY <1>1, <2>2
        <3>2. 1 \in 1 .. Len(acts)
            BY <1>1
        <3>3. acts'[1].code = "host" /\ acts'[1].ret = 0 /\ acts'[1].zone \in Int
            BY <1>2, <3>1, <3>2 DEF IInv, CallsNest
        <3>4. acts'[1].zone = acts'[1].zone + 1 - 1
            BY <3>3
        <3> QED BY <1>2, <3>1, <3>3, <3>4 DEF CallsNest
    <2> QED BY <2>1, <2>2
<1>6. \A i \in 1 .. m : acts[i].zone <= acts[m].zone
    <2> TAKE i \in 1 .. m
    <2>1. acts[i].zone = acts[1].zone + i - 1 /\ acts[m].zone = acts[1].zone + m - 1
        BY <1>1, <1>3 DEF IInv, CallsNest
    <2>2. acts[1].zone \in Nat
        <3>1. 1 \in 1 .. m
            BY <1>1
        <3> QED BY <1>3, <3>1 DEF ActType
    <2>3. i \in Nat /\ m \in Nat /\ i <= m
        BY <1>1
    <2> HIDE DEF m
    <2> QED BY <2>1, <2>2, <2>3
<1>7. CacheLives'
    <2>1. acts[m].zone \in Nat
        <3>1. acts[m] \in ActType
            BY <1>1, <1>3
        <3> QED BY <3>1 DEF ActType
    <2> QED BY <2>1 DEF IInv, CacheLives, Live
<1>8. NoYoungerReference'
    BY DEF GoodHeap, NoYoungerReference, Live
<1>9. NothingDangles'
    <2>1. \A i \in 1 .. m : \A p \in acts[i].held :
             /\ p \in Live /\ heap[p].zone <= acts[i].zone /\ heap[p].zone \in Int
             /\ acts[i].zone \in Int /\ acts[m].zone \in Int
        <3> TAKE i \in 1 .. m
        <3> TAKE p \in acts[i].held
        <3>1. p \in Live /\ heap[p].zone <= acts[i].zone
            BY <1>3 DEF IInv, NothingDangles
        <3>2. heap[p] \in Object
            BY <3>1 DEF IInv, TypeOK
        <3>3. m \in 1 .. m
            BY <1>1
        <3>4. acts[i] \in ActType /\ acts[m] \in ActType
            BY <1>3, <3>3
        <3> QED BY <3>1, <3>2, <3>4 DEF Object, Level, ActType
    <2>2. \A i \in 1 .. m : \A p \in acts[i].held :
             /\ p \in DOMAIN heap' /\ heap'[p].zone <= acts[i].zone
        BY <1>6, <2>1, SMTT(60)
    <2>3. \A p \in acts[m].held : heap'[p].zone <= z
        <3>1. m \in 1 .. m
            BY <1>1
        <3>2. acts[m] \in ActType
            BY <1>3, <3>1
        <3>3. acts[m].zone <= z /\ acts[m].zone \in Int
            <4>1. acts[m].zone \in Nat
                BY <3>2 DEF ActType
            <4>2. CASE Len(acts) = 2 /\ z > acts[1].zone
                BY <4>1, <4>2
            <4> QED BY <4>1, <4>2
        <3> SUFFICES ASSUME NEW p \in acts[m].held PROVE heap'[p].zone <= z
            OBVIOUS
        <3>4. heap'[p].zone <= acts[m].zone /\ heap'[p].zone \in Int
            BY <2>2, <3>1 DEF GoodHeap, Object, Level
        <3> QED BY <3>3, <3>4
    <2>4. \A i \in 1 .. m : \A p \in acts'[i].held :
             /\ p \in DOMAIN heap' /\ heap'[p].zone <= acts'[i].zone
        <3>1. ASSUME NEW i \in 1 .. m, i # m, NEW p \in acts'[i].held
              PROVE  p \in DOMAIN heap' /\ heap'[p].zone <= acts'[i].zone
            BY <1>2, <2>2, <3>1
        <3>2. ASSUME NEW p \in acts'[m].held
              PROVE  p \in DOMAIN heap' /\ heap'[p].zone <= acts'[m].zone
            <4>1. CASE p = o
                BY <1>2, <4>1
            <4>2. CASE p \in acts[m].held
                <5>1. m \in 1 .. m
                    BY <1>1
                <5> QED BY <1>2, <2>2, <2>3, <4>2, <5>1
            <4> QED BY <1>2, <4>1, <4>2
        <3> QED BY <3>1, <3>2
    <2> QED BY <1>2, <2>4 DEF NothingDangles, Live
<1> QED BY <1>4, <1>5, <1>7, <1>8, <1>9 DEF IInv

(* The objects of a heap that are not in its youngest zone. *)
LEMMA ExitIsSafe ==
    ASSUME NEW h, GoodHeap(h, Local), Local \in Nat
    PROVE  /\ GoodHeap(WithoutZone(h), Local - 1)
           /\ \A o \in DOMAIN h : h[o].zone <= Local - 1 =>
                 o \in DOMAIN WithoutZone(h) /\ WithoutZone(h)[o] = h[o]
<1> DEFINE k == WithoutZone(h)
<1>1. \A o \in DOMAIN h : h[o] \in Object /\ h[o].zone \in Int /\ h[o].zone <= Local
    BY DEF GoodHeap, Object, Level
<1>2. /\ DOMAIN k = {o \in DOMAIN h : h[o].zone # Local}
      /\ \A o \in DOMAIN k : k[o] = h[o]
      /\ k = [o \in DOMAIN k |-> k[o]]
    BY DEF WithoutZone
<1> HIDE DEF k
<1>3. DOMAIN k \subseteq Obj /\ k \in [DOMAIN k -> Object]
    BY <1>1, <1>2 DEF GoodHeap
<1>4. \A o \in DOMAIN k : k[o].zone <= Local - 1
    BY <1>1, <1>2
<1>5. ASSUME NEW o \in DOMAIN k, NEW r \in k[o].refs
      PROVE  r \in DOMAIN k /\ k[r].zone <= k[o].zone
    <2>1. r \in DOMAIN h /\ h[r].zone <= h[o].zone /\ o \in DOMAIN h /\ h[o].zone # Local
        BY <1>2, <1>5 DEF GoodHeap
    <2>2. h[r].zone # Local
        BY <1>1, <2>1
    <2> QED BY <1>2, <2>1, <2>2
<1>6. GoodHeap(k, Local - 1)
    BY <1>3, <1>4, <1>5 DEF GoodHeap
<1>7. \A o \in DOMAIN h : h[o].zone <= Local - 1 => o \in DOMAIN k /\ k[o] = h[o]
    BY <1>1, <1>2
<1> QED BY <1>6, <1>7 DEF k

(* The last two calls in progress, when there is a caller. *)
LEMMA CallerFacts ==
    ASSUME IInv, Len(acts) > 1
    PROVE  /\ Caller = acts[Len(acts) - 1] /\ Caller.zone \in 0 .. MaxLevel
           /\ Local \in 0 .. MaxLevel /\ Local = Caller.zone + 1
           /\ Running.ret \in 0 .. MaxLevel /\ Running.ret <= Caller.zone
           /\ (Caller.code = "host" => Len(acts) = 2)
<1> DEFINE n == Len(acts)
<1>1. /\ acts \in Seq(ActType) /\ n \in Nat /\ n - 1 \in 1 .. n /\ n \in 1 .. n /\ 1 \in 1 .. n
      /\ Running = acts[n]
    BY IInvFacts DEF IInv, TypeOK
<1>2. acts[n] \in ActType /\ acts[n - 1] \in ActType /\ acts[1] \in ActType
    BY <1>1
<1>3. acts[n].zone = acts[1].zone + n - 1 /\ acts[n - 1].zone = acts[1].zone + (n - 1) - 1
    BY <1>1 DEF IInv, CallsNest
<1>4. acts[n].ret < acts[n].zone
    BY <1>1 DEF IInv, CallsNest
<1>5. n - 1 # 1 => acts[n - 1].code # "host"
    BY <1>1 DEF IInv, CallsNest
<1>6. /\ acts[n].zone \in 0 .. MaxLevel /\ acts[n].ret \in 0 .. MaxLevel
      /\ acts[n - 1].zone \in 0 .. MaxLevel /\ acts[1].zone \in 0 .. MaxLevel
    BY <1>2 DEF ActType
<1>7. acts[n].zone = acts[n - 1].zone + 1
    <2>1. n \in Nat /\ acts[1].zone \in Nat
        BY <1>1, <1>6
    <2>2. ASSUME NEW a \in Nat, NEW k \in Nat PROVE a + k - 1 = a + (k - 1) - 1 + 1
        OBVIOUS
    <2>3. acts[1].zone + n - 1 = acts[1].zone + (n - 1) - 1 + 1
        BY <2>1, <2>2
    <2> QED BY <1>3, <2>3
<1>8. acts[n].ret <= acts[n - 1].zone
    BY <1>4, <1>6, <1>7
<1> QED BY <1>1, <1>5, <1>6, <1>7, <1>8 DEF Caller, Local

(* RETURN and the return of a native function: the zone is exited. *)
LEMMA ReturnAndExitHolds == IInv /\ ReturnAndExit => IInv'
<1> SUFFICES ASSUME IInv, ReturnAndExit PROVE IInv'
    OBVIOUS
<1>1. PICK l \in 0 .. MaxLevel :
          /\ l = Local /\ GoodHeap(heap, l) /\ Running.ret \in Level /\ Running.ret <= l
          /\ \A v \in Named : v \in Live
    BY LocalLevel
<1>2. PICK v \in Named : \E f \in Placements(v, Running.ret) :
        /\ heap' = WithoutZone(WithCopies(f, Running.ret))
        /\ Resume(Caller.zone, Image(f, v))
    BY DEF ReturnAndExit
<1>3. PICK t \in Level : t = Running.ret /\ t <= l
    BY <1>1
<1>4. PICK f \in Placements(v, t) :
        heap' = WithoutZone(WithCopies(f, t)) /\ Resume(Caller.zone, Image(f, v))
    BY <1>2, <1>3
<1> DEFINE h == WithCopies(f, t)
<1>5. GoodHeap(heap, l)
    BY <1>1
<1>6. v \in Live
    BY <1>1
<1>7. t <= l
    BY <1>3
<1>8. /\ GoodHeap(h, l) /\ DOMAIN h = Live \cup Copies(f)
      /\ \A p \in Live : h[p] = heap[p]
      /\ Image(f, v) \in DOMAIN h /\ h[Image(f, v)].zone <= t
    BY <1>5, <1>6, <1>7, CopyIsSafe
<1> HIDE DEF h
<1>9. heap' = WithoutZone(h) /\ Len(acts) > 1
    BY <1>4 DEF ReturnAndExit, h
<1>10. /\ Caller = acts[Len(acts) - 1] /\ Caller.zone \in 0 .. MaxLevel
      /\ Local = Caller.zone + 1 /\ Local \in Nat /\ Local - 1 = Caller.zone
      /\ t \in 0 .. MaxLevel /\ t <= Caller.zone
    BY <1>3, <1>9, CallerFacts
<1>11. GoodHeap(h, Local)
    BY <1>1, <1>8
<1>12. /\ GoodHeap(heap', Caller.zone)
       /\ \A o \in DOMAIN h : h[o].zone <= Caller.zone => o \in DOMAIN heap' /\ heap'[o] = h[o]
    BY <1>9, <1>10, <1>11, ExitIsSafe
<1> DEFINE o == Image(f, v)
<1> HIDE DEF o
<1>13. o \in DOMAIN h /\ h[o].zone <= t /\ h[o].zone \in Int
    BY <1>8 DEF o, GoodHeap, Object, Level
<1>14. o \in DOMAIN heap' /\ heap'[o].zone <= Caller.zone
    BY <1>10, <1>12, <1>13
<1>15. \A p \in Live : heap[p].zone <= Caller.zone => p \in DOMAIN heap' /\ heap'[p] = heap[p]
    BY <1>8, <1>12
<1>16. Resume(Caller.zone, o)
    BY <1>4 DEF o
<1> QED BY <1>9, <1>10, <1>12, <1>14, <1>15, <1>16, ReturnStep

(* The return of a function that the host called with mara_call. *)
LEMMA ReturnToHostHolds == IInv /\ ReturnToHost => IInv'
<1> SUFFICES ASSUME IInv, ReturnToHost PROVE IInv'
    OBVIOUS
<1>1. PICK l \in 0 .. MaxLevel :
          /\ l = Local /\ GoodHeap(heap, l) /\ Running.ret \in Level /\ Running.ret <= l
          /\ \A v \in Named : v \in Live
    BY LocalLevel
<1>2. PICK v \in Named : \E f \in Placements(v, Running.ret) :
        heap' = WithCopies(f, Running.ret) /\ Resume(Local, Image(f, v))
    BY DEF ReturnToHost
<1>3. PICK t \in Level : t = Running.ret /\ t <= l
    BY <1>1
<1>4. PICK f \in Placements(v, t) : heap' = WithCopies(f, t) /\ Resume(l, Image(f, v))
    BY <1>1, <1>2, <1>3
<1> DEFINE h == WithCopies(f, t)
<1>5. GoodHeap(heap, l)
    BY <1>1
<1>6. v \in Live
    BY <1>1
<1>7. t <= l
    BY <1>3
<1>8. /\ GoodHeap(h, l) /\ DOMAIN h = Live \cup Copies(f)
      /\ \A p \in Live : h[p] = heap[p]
      /\ Image(f, v) \in DOMAIN h /\ h[Image(f, v)].zone <= t
    BY <1>5, <1>6, <1>7, CopyIsSafe
<1> HIDE DEF h
<1>9. heap' = h /\ Len(acts) > 1
    BY <1>4 DEF ReturnToHost, h
<1>10. Len(acts) = 2 /\ l > acts[1].zone
    <2>1. Len(acts) = 2
        BY <1>9, CallerFacts DEF ReturnToHost
    <2>2. Caller = acts[1]
        BY <2>1 DEF Caller
    <2>3. l = Caller.zone + 1 /\ Caller.zone \in Nat
        BY <1>1, <1>9, CallerFacts
    <2> QED BY <2>1, <2>2, <2>3
<1> DEFINE o == Image(f, v)
<1> HIDE DEF o
<1>11. o \in DOMAIN heap' /\ heap'[o].zone <= l
    BY <1>3, <1>8, <1>9 DEF o, GoodHeap, Object, Level
<1>12. \A p \in Live : p \in DOMAIN heap' /\ heap'[p] = heap[p]
    BY <1>8, <1>9
<1>13. Resume(l, o) /\ GoodHeap(heap', l)
    BY <1>4, <1>8, <1>9 DEF o
<1> QED BY <1>9, <1>10, <1>11, <1>12, <1>13, ReturnStep

(* mara_end: every zone is exited. *)
LEMMA EndHolds == IInv /\ End => IInv'
<1> SUFFICES ASSUME IInv, End PROVE IInv'
    OBVIOUS
<1>1. GoodHeap(heap, Local) /\ \A o \in Live : heap[o] \in Object
    BY IInvFacts DEF GoodHeap, Live
<1>2. /\ Live' = {p \in Live : heap[p].zone = -1}
      /\ \A o \in Live' : heap'[o] = heap[o]
      /\ heap' = [o \in Live' |-> heap'[o]]
    BY DEF End, Live
<1>3. /\ acts' = <<Act("host", 0, 0, {Cache})>> /\ Len(acts') = 1
      /\ acts'[1] = [code |-> "host", zone |-> 0, ret |-> 0, held |-> {Cache}]
    BY DEF End, Act
<1>4. acts'[1] \in ActType /\ acts' \in Seq(ActType) /\ acts' # <<>>
    <2>1. acts'[1] \in ActType
        BY <1>3 DEF ActType
    <2> QED BY <1>3, <2>1
<1>5. Local' = 0
    BY <1>3 DEF Local, Running, Last
<1>6. TypeOK'
    <2>1. Live' \subseteq Obj /\ heap' \in [Live' -> Object]
        BY <1>1, <1>2 DEF GoodHeap, Live
    <2> QED BY <1>2, <1>4, <1>5, <2>1 DEF TypeOK
<1>7. CallsNest'
    BY <1>3 DEF CallsNest
<1>8. CacheLives'
    BY <1>2 DEF IInv, CacheLives
<1>9. NoYoungerReference'
    <2> SUFFICES ASSUME NEW o \in Live', NEW r \in heap'[o].refs
                 PROVE  r \in Live' /\ heap'[r].zone <= heap'[o].zone
        BY DEF NoYoungerReference
    <2>1. r \in Live /\ heap[r].zone <= -1 /\ heap[o].zone = -1
        BY <1>2 DEF IInv, NoYoungerReference
    <2>2. heap[r].zone = -1
        BY <1>1, <2>1 DEF Object, Level
    <2> QED BY <1>2, <2>1, <2>2
<1>10. NothingDangles'
    BY <1>2, <1>3, <1>8 DEF NothingDangles, CacheLives
<1> QED BY <1>6, <1>7, <1>8, <1>9, <1>10 DEF IInv

-----------------------------------------------------------------------------
(* IInv holds in every state: one case for each operation. *)
LEMMA IInvHolds == Spec => []IInv
<1>1. Init => IInv
    BY InitHolds
<1>2. IInv /\ [Next]_vars => IInv'
    <2> SUFFICES ASSUME IInv, [Next]_vars PROVE IInv'
        OBVIOUS
    <2>1. CASE NewObject
        BY <2>1, NewObjectHolds
    <2>2. CASE MakeClosure
        BY <2>2, MakeClosureHolds
    <2>3. CASE NewFn
        BY <2>3, NewFnHolds
    <2>4. CASE Store
        BY <2>4, StoreHolds
    <2>5. CASE Delete
        BY <2>5, DeleteHolds
    <2>6. CASE CallVm \/ HostCallsVm \/ CallNative \/ MaraCallNative
        BY <2>6, CallsHold
    <2>7. CASE ReturnAndExit
        BY <2>7, ReturnAndExitHolds
    <2>8. CASE ReturnToHost
        BY <2>8, ReturnToHostHolds
    <2>9. CASE End
        BY <2>9, EndHolds
    <2>10. CASE UNCHANGED vars
        BY <2>10, IInvFacts, HeapStep DEF vars, Live
    <2> QED BY <2>1, <2>2, <2>3, <2>4, <2>5, <2>6, <2>7, <2>8, <2>9, <2>10 DEF Next
<1> QED BY <1>1, <1>2, PTL DEF Spec

(* Whatever sequence of operations the program goes through, every object is *)
(* of an open zone and every call has its zones.                             *)
THEOREM TypeCorrect == Spec => []TypeOK
<1>1. IInv => TypeOK
    BY DEF IInv
<1> QED BY <1>1, IInvHolds, PTL

(* mara_copy is called wherever it has to be: no object ever refers to one   *)
(* that goes before it, for any number of objects, zones and calls.          *)
THEOREM ReferencesOutlive == Spec => []NoYoungerReference
<1>1. IInv => NoYoungerReference
    BY DEF IInv
<1> QED BY <1>1, IInvHolds, PTL

(* A return, which exits the zone of a call, and mara_end, which exits all,  *)
(* leave no call with an object that is gone.                                *)
THEOREM HeldObjectsLive == Spec => []NothingDangles
<1>1. IInv => NothingDangles
    BY DEF IInv
<1> QED BY <1>1, IInvHolds, PTL
=============================================================================
