------------------------- MODULE EnvironmentProofs -------------------------
(***************************************************************************)
(* Proofs about Environment, for any number of contexts, zones and          *)
(* finalizers.                                                              *)
(*                                                                          *)
(* FinalizedOnce is not inductive by itself: mara_zone_restore runs what is *)
(* in front of a snapshot, so that a snapshot has to be the rest of the     *)
(* list; a call's zone must have none; and mara_destroy_env must find every *)
(* zone closed, which is what ContextsApart says of the reference count.    *)
(***************************************************************************)
EXTENDS Environment, SequenceTheorems, FiniteSetTheorems, TLAPS

(* s is what is behind the newer ones in t. *)
Rest(s, t) == Len(s) <= Len(t) /\ \A j \in 1 .. Len(s) : s[j] = t[Len(t) - Len(s) + j]

(* A snapshot is the rest of the next one, and the last one of the list. *)
Nested(z) ==
    \A n \in 1 .. Len(z.snapshots) :
        Rest(z.snapshots[n], IF n < Len(z.snapshots) THEN z.snapshots[n + 1] ELSE z.finalizers)

(* Only the last zone of a context, and not its first, can be a compiler's,  *)
(* and behind the zones there is none.                                       *)
ZoneOK(z, i, depth) ==
    /\ z.kind # "compiler" => z.snapshots = <<>>
    /\ i = 1 \/ i < depth => z.kind # "compiler"
    /\ z.kind = "past" <=> i > MaxZones
    /\ Nested(z)

ZonesOK == \A c \in DOMAIN blocks : \A i \in 1 .. Depth(c) : ZoneOK(zones[c][i], i, Depth(c))

IInv == TypeOK /\ ContextsApart /\ FinalizedOnce /\ ZonesOK

USE EnvironmentAssumption

-----------------------------------------------------------------------------
(* ListType of finalizers, A before a step and B after it.                      *)
LEMMA InListsIs ==
    ASSUME NEW A, NEW x
    PROVE  x \in InLists(A) <=> \E h \in DOMAIN A : \E m \in DOMAIN A[h] : x = A[h][m]
BY DEF InLists, ToSet

LEMMA NoneTwiceIs ==
    ASSUME NEW A, NoneTwice(A), NEW i \in DOMAIN A, NEW j \in DOMAIN A,
           NEW m \in DOMAIN A[i], NEW n \in DOMAIN A[j], A[i][m] = A[j][n]
    PROVE  i = j /\ m = n
BY DEF NoneTwice

(* L is some of the lists of A, those at g, and B the others.                *)
Leaves(A, L, B, g) ==
    /\ g \in [DOMAIN L -> DOMAIN A]
    /\ \A h \in DOMAIN B : h \in DOMAIN A /\ B[h] = A[h]
    /\ \A i \in DOMAIN L : L[i] = A[g[i]]
    /\ \A i, j \in DOMAIN L : g[i] = g[j] => i = j
    /\ \A h \in DOMAIN A : h \in DOMAIN B <=> \A i \in DOMAIN L : g[i] # h

(* Some lists are run and no longer there.                                   *)
LEMMA Removed ==
    ASSUME NEW A, NEW L, NEW B, NEW g, NoneTwice(A), Leaves(A, L, B, g)
    PROVE  /\ NoneTwice(L) /\ NoneTwice(B) /\ InLists(L) \subseteq InLists(A)
           /\ InLists(B) = InLists(A) \ InLists(L)
<1> USE DEF Leaves
<1>1. NoneTwice(L)
    BY DEF NoneTwice
<1>2. NoneTwice(B)
    BY DEF NoneTwice
<1>3. ASSUME NEW x \in InLists(L) PROVE x \in InLists(A)
    <2>1. PICK i \in DOMAIN L : \E m \in DOMAIN L[i] : x = L[i][m]
        BY InListsIs
    <2>2. g[i] \in DOMAIN A /\ \E m \in DOMAIN A[g[i]] : x = A[g[i]][m]
        BY <2>1
    <2> QED BY <2>2, InListsIs
<1>4. ASSUME NEW x \in InLists(B) PROVE x \in InLists(A) /\ x \notin InLists(L)
    <2>1. PICK h \in DOMAIN B : \E m \in DOMAIN B[h] : x = B[h][m]
        BY InListsIs
    <2>2. PICK m \in DOMAIN A[h] : h \in DOMAIN A /\ x = A[h][m]
        BY <2>1
    <2>3. x \in InLists(A)
        BY <2>2, InListsIs
    <2>4. ASSUME x \in InLists(L) PROVE FALSE
        <3>1. PICK i \in DOMAIN L : \E n \in DOMAIN L[i] : x = L[i][n]
            BY <2>4, InListsIs
        <3>2. PICK n \in DOMAIN A[g[i]] : g[i] \in DOMAIN A /\ x = A[g[i]][n]
            BY <3>1
        <3>3. A[h][m] = A[g[i]][n]
            BY <2>2, <3>2
        <3>4. h = g[i]
            BY <2>2, <3>2, <3>3, NoneTwiceIs
        <3> QED BY <2>2, <3>4
    <2> QED BY <2>3, <2>4
<1>5. ASSUME NEW x \in InLists(A), x \notin InLists(L) PROVE x \in InLists(B)
    <2>1. PICK h \in DOMAIN A : \E m \in DOMAIN A[h] : x = A[h][m]
        BY InListsIs
    <2>2. ASSUME h \notin DOMAIN B PROVE FALSE
        <3>1. PICK i \in DOMAIN L : g[i] = h
            BY <2>2
        <3>2. \E m \in DOMAIN L[i] : x = L[i][m]
            BY <2>1, <3>1
        <3> QED BY <1>5, <3>2, InListsIs
    <2>3. \E m \in DOMAIN B[h] : x = B[h][m]
        BY <2>1, <2>2
    <2> QED BY <2>2, <2>3, InListsIs
<1> QED BY <1>1, <1>2, <1>3, <1>4, <1>5

(* One more is in front of the list of h.                                    *)
LEMMA InFront ==
    ASSUME NEW S, NEW s \in Seq(S), NEW f \in S
    PROVE  /\ <<f>> \o s \in Seq(S) /\ Len(<<f>> \o s) = Len(s) + 1
           /\ (<<f>> \o s)[1] = f
           /\ \A m \in 1 .. Len(s) : (<<f>> \o s)[m + 1] = s[m]
<1>1. <<f>> \in Seq(S) /\ Len(<<f>>) = 1 /\ <<f>>[1] = f
    OBVIOUS
<1>2. /\ <<f>> \o s \in Seq(S) /\ Len(<<f>> \o s) = 1 + Len(s)
      /\ \A m \in 1 .. 1 + Len(s) : (<<f>> \o s)[m] = IF m <= 1 THEN <<f>>[m] ELSE s[m - 1]
    BY <1>1, ConcatProperties
<1>3. ASSUME NEW m \in 1 .. Len(s) PROVE (<<f>> \o s)[m + 1] = s[m]
    <2>1. m + 1 \in 1 .. 1 + Len(s) /\ ~ (m + 1 <= 1) /\ m + 1 - 1 = m
        OBVIOUS
    <2> QED BY <1>2, <2>1
<1>4. (<<f>> \o s)[1] = f
    <2>1. 1 \in 1 .. 1 + Len(s)
        OBVIOUS
    <2> QED BY <1>1, <1>2, <2>1
<1> QED BY <1>2, <1>3, <1>4

(* t is f and behind it s.                                                   *)
Prefixed(t, f, s) ==
    /\ Len(s) \in Nat /\ DOMAIN s = 1 .. Len(s) /\ DOMAIN t = 1 .. Len(s) + 1
    /\ t[1] = f /\ \A m \in 1 .. Len(s) : t[m + 1] = s[m]

Gains(A, B, h, f) ==
    /\ DOMAIN B = DOMAIN A /\ h \in DOMAIN A
    /\ \A i \in DOMAIN A : i # h => B[i] = A[i]
    /\ Prefixed(B[h], f, A[h])

LEMMA Added ==
    ASSUME NEW A, NEW B, NEW h, NEW f, NoneTwice(A), f \notin InLists(A), Gains(A, B, h, f)
    PROVE  NoneTwice(B) /\ InLists(B) = InLists(A) \cup {f}
<1> USE DEF Gains
<1> DEFINE s == A[h]
           t == B[h]
<1>1. /\ DOMAIN s = 1 .. Len(s) /\ Len(s) \in Nat /\ DOMAIN t = 1 .. Len(s) + 1 /\ t[1] = f
      /\ \A m \in 1 .. Len(s) : t[m + 1] = s[m]
    BY DEF Prefixed
<1>2. \A m \in DOMAIN t : m = 1 \/ (m - 1 \in DOMAIN s /\ t[m] = s[m - 1])
    <2> HIDE DEF s, t
    <2> SUFFICES ASSUME NEW m \in 1 .. Len(s) + 1, m # 1
                 PROVE  m - 1 \in 1 .. Len(s) /\ t[m] = s[m - 1]
        BY <1>1
    <2>1. m - 1 \in 1 .. Len(s) /\ m - 1 + 1 = m
        BY <1>1
    <2> QED BY <1>1, <2>1
<1>3. \A i \in DOMAIN A : \A m \in DOMAIN A[i] : A[i][m] # f
    BY InListsIs
<1>4. \A i \in DOMAIN B : \A m \in DOMAIN B[i] :
         (i = h /\ m = 1) \/ \E n \in DOMAIN A[i] : B[i][m] = A[i][n] /\ m = IF i = h THEN n + 1 ELSE n
    <2> SUFFICES ASSUME NEW i \in DOMAIN B, NEW m \in DOMAIN B[i], ~ (i = h /\ m = 1)
                 PROVE  \E n \in DOMAIN A[i] : B[i][m] = A[i][n] /\ m = IF i = h THEN n + 1 ELSE n
        OBVIOUS
    <2>1. CASE i = h
        <3>1. m - 1 \in DOMAIN s /\ t[m] = s[m - 1] /\ m \in Int
            BY <1>1, <1>2, <2>1
        <3>2. m = m - 1 + 1
            BY <3>1
        <3> QED BY <2>1, <3>1, <3>2
    <2>2. CASE i # h
        BY <2>2
    <2> QED BY <2>1, <2>2
<1>5. NoneTwice(B)
    <2> SUFFICES ASSUME NEW i \in DOMAIN B, NEW j \in DOMAIN B, NEW m \in DOMAIN B[i],
                        NEW n \in DOMAIN B[j], B[i][m] = B[j][n]
                 PROVE  i = j /\ m = n
        BY DEF NoneTwice
    <2>1. CASE (i = h /\ m = 1) \/ (j = h /\ n = 1)
        BY <1>1, <1>3, <1>4, <2>1
    <2>2. CASE ~ (i = h /\ m = 1) /\ ~ (j = h /\ n = 1)
        <3>1. PICK a \in DOMAIN A[i] : B[i][m] = A[i][a] /\ m = IF i = h THEN a + 1 ELSE a
            BY <1>4, <2>2
        <3>2. PICK b \in DOMAIN A[j] : B[j][n] = A[j][b] /\ n = IF j = h THEN b + 1 ELSE b
            BY <1>4, <2>2
        <3>3. A[i][a] = A[j][b]
            BY <3>1, <3>2
        <3>4. i = j /\ a = b
            BY <3>1, <3>2, <3>3, NoneTwiceIs
        <3> QED BY <3>1, <3>2, <3>4
    <2> QED BY <2>1, <2>2
<1>6. \A x \in InLists(B) : x \in InLists(A) \/ x = f
    <2> SUFFICES ASSUME NEW x \in InLists(B), x # f PROVE x \in InLists(A)
        OBVIOUS
    <2>1. PICK i \in DOMAIN B : \E m \in DOMAIN B[i] : x = B[i][m]
        BY InListsIs
    <2>2. \E n \in DOMAIN A[i] : x = A[i][n]
        BY <1>1, <1>4, <2>1
    <2> QED BY <2>2, InListsIs
<1>7. \A x \in InLists(A) : x \in InLists(B)
    <2> SUFFICES ASSUME NEW x \in InLists(A) PROVE x \in InLists(B)
        OBVIOUS
    <2>0. PICK i \in DOMAIN A : \E m \in DOMAIN A[i] : x = A[i][m]
        BY InListsIs
    <2>1. PICK m \in DOMAIN A[i] : x = A[i][m]
        BY <2>0
    <2>2. \E n \in DOMAIN B[i] : x = B[i][n]
        <3>1. CASE i = h
            <4>1. m + 1 \in DOMAIN t /\ t[m + 1] = x
                BY <1>1, <2>1, <3>1
            <4> QED BY <3>1, <4>1
        <3>2. CASE i # h
            BY <2>1, <3>2
        <3> QED BY <3>1, <3>2
    <2> QED BY <2>2, InListsIs
<1>8. f \in InLists(B)
    <2>1. 1 \in DOMAIN B[h] /\ B[h][1] = f
        BY <1>1
    <2> QED BY <2>1, InListsIs
<1> QED BY <1>5, <1>6, <1>7, <1>8

(* A zone is opened, h.                                                      *)
LEMMA Opened ==
    ASSUME NEW A, NEW B, NoneTwice(A), NEW h, DOMAIN B = DOMAIN A \cup {h}, h \notin DOMAIN A,
           \A i \in DOMAIN A : B[i] = A[i], B[h] = << >>
    PROVE  NoneTwice(B) /\ InLists(B) = InLists(A)
<1>1. DOMAIN B[h] = {}
    OBVIOUS
<1>2. \A i \in DOMAIN B : \A m \in DOMAIN B[i] : i \in DOMAIN A /\ B[i] = A[i]
    BY <1>1
<1>3. NoneTwice(B)
    BY <1>2 DEF NoneTwice
<1>4. \A x \in InLists(B) : x \in InLists(A)
    BY <1>2, InListsIs
<1>5. \A x \in InLists(A) : x \in InLists(B)
    BY InListsIs
<1> QED BY <1>3, <1>4, <1>5

(* t is l and behind it s.                                                   *)
Joined(t, l, s) ==
    /\ Len(t) \in Nat /\ Len(s) \in Nat /\ Len(s) <= Len(t)
    /\ DOMAIN t = 1 .. Len(t) /\ DOMAIN s = 1 .. Len(s) /\ DOMAIN l = 1 .. Len(t) - Len(s)
    /\ \A m \in 1 .. Len(t) - Len(s) : l[m] = t[m]
    /\ \A m \in 1 .. Len(s) : s[m] = t[Len(t) - Len(s) + m]

LEMMA JoinedIs ==
    ASSUME NEW S, NEW t \in Seq(S), NEW s \in Seq(S), Rest(s, t)
    PROVE  Joined(t, SubSeq(t, 1, Len(t) - Len(s)), s)
<1> DEFINE k == Len(t) - Len(s)
           l == SubSeq(t, 1, k)
<1>1. /\ Len(t) \in Nat /\ Len(s) \in Nat /\ Len(s) <= Len(t)
      /\ DOMAIN t = 1 .. Len(t) /\ DOMAIN s = 1 .. Len(s)
      /\ \A m \in 1 .. Len(s) : s[m] = t[k + m]
    BY DEF Rest
<1>2. k \in Nat /\ \A m \in 1 .. k : m \in 1 .. Len(t) /\ t[m] \in S
    BY <1>1
<1> HIDE DEF k
<1>3. /\ l \in Seq(S) /\ Len(l) = IF 1 <= k THEN k - 1 + 1 ELSE 0
      /\ \A m \in 1 .. k - 1 + 1 : l[m] = t[1 + m - 1]
    BY <1>2, SubSeqProperties
<1>4. Len(l) = k
    BY <1>2, <1>3
<1>5. DOMAIN l = 1 .. k
    BY <1>3, <1>4, LenProperties
<1>6. ASSUME NEW m \in 1 .. k PROVE l[m] = t[m]
    <2>1. m \in 1 .. k - 1 + 1 /\ 1 + m - 1 = m
        BY <1>2
    <2> QED BY <1>3, <2>1
<1> HIDE DEF l
<1>7. Joined(t, l, s)
    BY <1>1, <1>5, <1>6 DEF Joined, k
<1> QED BY <1>7 DEF l, k

(* What is in front of the rest of the list of h is run.                     *)
Loses(A, L, B, h) ==
    /\ DOMAIN B = DOMAIN A /\ h \in DOMAIN A /\ DOMAIN L = {1}
    /\ \A i \in DOMAIN A : i # h => B[i] = A[i]
    /\ Joined(A[h], L[1], B[h])

LEMMA Cut ==
    ASSUME NEW A, NEW L, NEW B, NEW h, NoneTwice(A), Loses(A, L, B, h)
    PROVE  /\ NoneTwice(L) /\ NoneTwice(B) /\ InLists(L) \subseteq InLists(A)
           /\ InLists(B) = InLists(A) \ InLists(L)
<1> USE DEF Loses
<1> DEFINE k == Len(A[h]) - Len(B[h])
<1>1. /\ Len(A[h]) \in Nat /\ Len(B[h]) \in Nat /\ Len(B[h]) <= Len(A[h])
      /\ DOMAIN A[h] = 1 .. Len(A[h]) /\ DOMAIN B[h] = 1 .. Len(B[h])
    BY DEF Joined
<1>2. k \in Nat /\ Len(A[h]) = k + Len(B[h])
    BY <1>1
<1>3. \A m \in DOMAIN B[h] : B[h][m] = A[h][k + m]
    BY <1>1 DEF Joined
<1>4. DOMAIN L = {1}
    OBVIOUS
<1>5. DOMAIN L[1] = 1 .. k /\ \A m \in 1 .. k : L[1][m] = A[h][m]
    BY DEF Joined
<1> HIDE DEF k
<1>6. \A m \in 1 .. k : m \in DOMAIN A[h]
    BY <1>1, <1>2
<1>7. \A m \in DOMAIN B[h] : k + m \in DOMAIN A[h] /\ k + m \notin 1 .. k
    BY <1>1, <1>2
<1>8. \A m \in DOMAIN A[h] : m \in 1 .. k \/ (m - k \in DOMAIN B[h] /\ k + (m - k) = m)
    BY <1>1, <1>2
<1>9. NoneTwice(L)
    <2> SUFFICES ASSUME NEW m \in 1 .. k, NEW n \in 1 .. k, L[1][m] = L[1][n] PROVE m = n
        BY <1>4, <1>5 DEF NoneTwice
    <2>1. m \in DOMAIN A[h] /\ n \in DOMAIN A[h] /\ A[h][m] = A[h][n]
        BY <1>5, <1>6
    <2> QED BY <2>1, NoneTwiceIs
<1>10. \A i \in DOMAIN B : \A m \in DOMAIN B[i] :
          /\ i \in DOMAIN A
          /\ (IF i = h THEN k + m ELSE m) \in DOMAIN A[i]
          /\ B[i][m] = A[i][IF i = h THEN k + m ELSE m]
    BY <1>3, <1>7
<1>11. NoneTwice(B)
    <2> SUFFICES ASSUME NEW i \in DOMAIN B, NEW j \in DOMAIN B, NEW m \in DOMAIN B[i],
                        NEW n \in DOMAIN B[j], B[i][m] = B[j][n]
                 PROVE  i = j /\ m = n
        BY DEF NoneTwice
    <2>1. PICK a \in DOMAIN A[i] : a = (IF i = h THEN k + m ELSE m) /\ B[i][m] = A[i][a]
        BY <1>10
    <2>2. PICK b \in DOMAIN A[j] : b = (IF j = h THEN k + n ELSE n) /\ B[j][n] = A[j][b]
        BY <1>10
    <2>0. A[i][a] = A[j][b]
        BY <2>1, <2>2
    <2>3. i = j /\ a = b
        BY <2>0, <2>1, <2>2, NoneTwiceIs
    <2>4. CASE i = h
        <3>1. k + m = k + n /\ m \in Int /\ n \in Int
            BY <1>1, <2>1, <2>2, <2>3, <2>4
        <3>2. m = n
            BY <1>2, <3>1
        <3> QED BY <2>3, <3>2
    <2>5. CASE i # h
        BY <2>1, <2>2, <2>3, <2>5
    <2> QED BY <2>4, <2>5
<1>12. ASSUME NEW x \in InLists(L) PROVE \E m \in 1 .. k : x = A[h][m]
    <2>1. PICK i \in DOMAIN L : \E m \in DOMAIN L[i] : x = L[i][m]
        BY InListsIs
    <2>2. i = 1
        BY <1>4
    <2> QED BY <1>5, <2>1, <2>2
<1>13. \A x \in InLists(L) : x \in InLists(A)
    BY <1>6, <1>12, InListsIs
<1>14. ASSUME NEW x \in InLists(B) PROVE x \in InLists(A) /\ x \notin InLists(L)
    <2>1. PICK i \in DOMAIN B : \E m \in DOMAIN B[i] : x = B[i][m]
        BY InListsIs
    <2>2. PICK m \in DOMAIN B[i] : x = B[i][m]
        BY <2>1
    <2>3. PICK a \in DOMAIN A[i] : a = (IF i = h THEN k + m ELSE m) /\ x = A[i][a]
        BY <1>10, <2>2
    <2>4. x \in InLists(A)
        BY <2>3, InListsIs
    <2>5. ASSUME x \in InLists(L) PROVE FALSE
        <3>1. PICK n \in 1 .. k : x = A[h][n]
            BY <1>12, <2>5
        <3>2. n \in DOMAIN A[h] /\ A[i][a] = A[h][n]
            BY <1>6, <2>3, <3>1
        <3>3. i = h /\ a = n
            BY <2>3, <3>2, NoneTwiceIs
        <3> QED BY <1>7, <2>2, <2>3, <3>1, <3>3
    <2> QED BY <2>4, <2>5
<1>15. ASSUME NEW x \in InLists(A), x \notin InLists(L) PROVE x \in InLists(B)
    <2>1. PICK i \in DOMAIN A : \E m \in DOMAIN A[i] : x = A[i][m]
        BY InListsIs
    <2>2. PICK m \in DOMAIN A[i] : x = A[i][m]
        BY <2>1
    <2>3. \E n \in DOMAIN B[i] : x = B[i][n]
        <3>1. CASE i = h
            <4>1. m \notin 1 .. k
                BY <1>4, <1>5, <1>15, <2>2, <3>1, InListsIs
            <4>2. m - k \in DOMAIN B[h] /\ k + (m - k) = m
                BY <1>8, <2>2, <3>1, <4>1
            <4> QED BY <1>3, <2>2, <3>1, <4>2
        <3>2. CASE i # h
            BY <2>2, <3>2
        <3> QED BY <3>1, <3>2
    <2> QED BY <2>3, InListsIs
<1> QED BY <1>9, <1>11, <1>13, <1>14, <1>15

-----------------------------------------------------------------------------
(* What the types say, and what there is in ListOf.                          *)
Typed ==
    /\ DOMAIN blocks = 1 .. Len(blocks) /\ Len(blocks) \in Nat
    /\ DOMAIN zones = DOMAIN blocks /\ DOMAIN needs = DOMAIN blocks
    /\ \A c \in DOMAIN blocks : zones[c] \in Seq(ZoneType)
    /\ \A c \in DOMAIN blocks : Len(zones[c]) \in 0 .. MaxZones + MaxPast

LEMMA TypedIs == TypeOK => Typed
<1> SUFFICES ASSUME TypeOK PROVE Typed
    OBVIOUS
<1>1. DOMAIN blocks = 1 .. Len(blocks) /\ Len(blocks) \in Nat
    BY DEF TypeOK
<1>2. DOMAIN zones = DOMAIN blocks
    <2>1. zones \in Seq(Seq(ZoneType)) /\ Len(zones) = Len(blocks)
        BY DEF TypeOK
    <2> QED BY <1>1, <2>1, LenProperties
<1>3. DOMAIN needs = DOMAIN blocks
    BY <1>1 DEF TypeOK
<1>4. ASSUME NEW c \in DOMAIN blocks PROVE zones[c] \in Seq(ZoneType)
    <2>1. zones \in Seq(Seq(ZoneType)) /\ c \in 1 .. Len(zones)
        BY <1>1 DEF TypeOK
    <2> QED BY <2>1, ElementOfSeq
<1>5. ASSUME NEW c \in DOMAIN blocks PROVE Len(zones[c]) \in 0 .. MaxZones + MaxPast
    <2>1. Len(zones[c]) \in Nat
        BY <1>4, LenProperties
    <2>2. Len(zones[c]) <= MaxZones + MaxPast
        BY DEF TypeOK, Depth
    <2> QED BY <2>1, <2>2
<1> QED BY <1>1, <1>2, <1>3, <1>4, <1>5 DEF Typed

LEMMA TypedNext == TypeOK' => Typed'
BY TypedIs, PTL

ListsAre ==
    /\ DOMAIN ListOf = Holders
    /\ PermanentZone \in Holders /\ ListOf[PermanentZone] = permanent
    /\ \A c \in DOMAIN blocks : \A i \in 1 .. Len(zones[c]) :
          /\ <<c, i>> \in Holders /\ <<c, i>> # PermanentZone
          /\ ListOf[<<c, i>>] = zones[c][i].finalizers
    /\ \A h \in Holders :
          h = PermanentZone \/ \E c \in DOMAIN blocks : \E i \in 1 .. Len(zones[c]) : h = <<c, i>>

LEMMA ListsAreIs == Typed => ListsAre
<1> SUFFICES ASSUME Typed PROVE ListsAre
    OBVIOUS
<1>1. DOMAIN ListOf = Holders
    BY DEF ListOf
<1>2. PermanentZone \in Holders /\ ListOf[PermanentZone] = permanent
    BY DEF ListOf, Holders
<1>3. ASSUME NEW c \in DOMAIN blocks, NEW i \in 1 .. Len(zones[c])
      PROVE  /\ <<c, i>> \in Holders /\ <<c, i>> # PermanentZone
             /\ ListOf[<<c, i>>] = zones[c][i].finalizers
    <2>1. i \in 1 .. MaxZones + MaxPast /\ i <= Depth(c)
        BY DEF Typed, Depth
    <2>2. <<c, i>> \in Holders
        BY <2>1 DEF Holders
    <2>3. <<c, i>> # PermanentZone
        BY <2>1 DEF PermanentZone
    <2> QED BY <2>2, <2>3 DEF ListOf
<1>4. ASSUME NEW h \in Holders, h # PermanentZone
      PROVE  \E c \in DOMAIN blocks : \E i \in 1 .. Len(zones[c]) : h = <<c, i>>
    <2>1. h \in (DOMAIN blocks) \X (1 .. MaxZones + MaxPast) /\ h[2] <= Depth(h[1])
        BY <1>4 DEF Holders
    <2>2. h[1] \in DOMAIN blocks /\ h[2] \in 1 .. MaxZones + MaxPast /\ h = <<h[1], h[2]>>
        BY <2>1
    <2>3. h[2] \in 1 .. Len(zones[h[1]])
        BY <2>1, <2>2 DEF Typed, Depth
    <2> QED BY <2>2, <2>3
<1> QED BY <1>1, <1>2, <1>3, <1>4 DEF ListsAre

LEMMA ListsAreNext == Typed' => ListsAre'
BY ListsAreIs, PTL

-----------------------------------------------------------------------------
(* The finalizers of some lists run for the first time, and others, M, get    *)
(* lost.                                                                     *)
LEMMA RunSome ==
    ASSUME IInv, NEW L, NEW M, Run(L), NoneTwice(L), InLists(L) \subseteq InLists(ListOf),
           M \subseteq InLists(ListOf), M \cap InLists(L) = {}, lost' = lost \cup M,
           NoneTwice(ListOf'), InLists(ListOf') = InLists(ListOf) \ (InLists(L) \cup M)
    PROVE  FinalizedOnce'
<1>1. ~ misrun /\ armed = InLists(ListOf) \cup lost /\ lost \cap InLists(ListOf) = {}
    BY DEF IInv, FinalizedOnce
<1>2. misrun' = (misrun \/ ~ InLists(L) \subseteq armed \/ ~ NoneTwice(L))
    BY DEF Run
<1>3. ~ misrun'
    BY <1>1, <1>2, Zenon
<1>4. armed' = armed \ InLists(L)
    BY DEF Run
<1>5. armed' = InLists(ListOf') \cup lost' /\ lost' \cap InLists(ListOf') = {}
    BY ONLY <1>1, <1>4, InLists(L) \subseteq InLists(ListOf),
       M \subseteq InLists(ListOf), M \cap InLists(L) = {}, lost' = lost \cup M,
       InLists(ListOf') = InLists(ListOf) \ (InLists(L) \cup M)
<1> QED BY <1>3, <1>5 DEF FinalizedOnce

LEMMA RunOnce ==
    ASSUME IInv, NEW L, Run(L), NoneTwice(L), InLists(L) \subseteq InLists(ListOf),
           NoneTwice(ListOf'), InLists(ListOf') = InLists(ListOf) \ InLists(L), lost' = lost
    PROVE  FinalizedOnce'
<1> DEFINE M == {}
<1>1. M \subseteq InLists(ListOf) /\ M \cap InLists(L) = {} /\ lost' = lost \cup M
    OBVIOUS
<1>2. InLists(ListOf') = InLists(ListOf) \ (InLists(L) \cup M)
    OBVIOUS
<1> HIDE DEF M
<1> QED BY <1>1, <1>2, RunSome

LEMMA RunTypes ==
    ASSUME IInv, NEW L, Run(L)
    PROVE  misrun' \in BOOLEAN /\ armed' \subseteq Finalizers
<1>1. misrun' = (misrun \/ ~ InLists(L) \subseteq armed \/ ~ NoneTwice(L))
    BY DEF Run
<1>2. misrun' \in BOOLEAN
    BY <1>1, Zenon
<1>3. armed' \subseteq armed /\ armed \subseteq Finalizers
    BY DEF Run, IInv, TypeOK
<1> QED BY <1>2, <1>3

(* The open zones of a context become q.                                     *)
LEMMA ZonesChange ==
    ASSUME IInv, NEW c \in InUse, NEW q \in Seq(ZoneType), Len(q) \in 1 .. MaxZones + MaxPast,
           zones' = [zones EXCEPT ![c] = q], \A i \in 1 .. Len(q) : ZoneOK(q[i], i, Len(q)),
           UNCHANGED <<blocks, free, ref_count, needs, permanent, lost, panic>>,
           armed' \subseteq Finalizers, misrun' \in BOOLEAN
    PROVE  /\ TypeOK' /\ ContextsApart' /\ ZonesOK'
           /\ \A h \in DOMAIN ListOf' :
                 \/ h[1] # c /\ h \in DOMAIN ListOf /\ ListOf'[h] = ListOf[h]
                 \/ \E i \in 1 .. Len(q) : h = <<c, i>>
           /\ \A h \in DOMAIN ListOf : h[1] # c => h \in DOMAIN ListOf'
           /\ \A i \in 1 .. Len(q) :
                 <<c, i>> \in DOMAIN ListOf' /\ ListOf'[<<c, i>>] = q[i].finalizers
           /\ \A i \in 1 .. Len(zones[c]) :
                 <<c, i>> \in DOMAIN ListOf /\ ListOf[<<c, i>>] = zones[c][i].finalizers
           /\ \A h \in DOMAIN ListOf : h[1] = c => \E i \in 1 .. Len(zones[c]) : h = <<c, i>>
<1>1. Typed /\ ListsAre
    BY TypedIs, ListsAreIs DEF IInv
<1>2. c \in DOMAIN blocks /\ c \in DOMAIN zones /\ zones[c] # << >>
    BY <1>1 DEF InUse, Typed
<1>3. /\ DOMAIN zones' = DOMAIN zones /\ zones'[c] = q
      /\ \A d \in DOMAIN zones : d # c => zones'[d] = zones[d]
    BY <1>2
<1>4. /\ blocks' = blocks /\ free' = free /\ ref_count' = ref_count /\ needs' = needs
      /\ permanent' = permanent /\ lost' = lost /\ panic' = panic
    OBVIOUS
<1>5. TypeOK'
    <2>1. zones' \in Seq(Seq(ZoneType)) /\ Len(zones') = Len(blocks')
        <3>1. zones \in Seq(Seq(ZoneType)) /\ c \in 1 .. Len(zones) /\ Len(zones) = Len(blocks)
            BY <1>1, <1>2 DEF IInv, TypeOK, Typed
        <3> QED BY <1>4, <3>1, ExceptSeq
    <2>2. \A d \in DOMAIN blocks' : Depth(d)' <= MaxZones + MaxPast
        <3> SUFFICES ASSUME NEW d \in DOMAIN blocks PROVE Len(zones'[d]) <= MaxZones + MaxPast
            BY <1>4 DEF Depth
        <3>1. Len(zones[d]) <= MaxZones + MaxPast /\ d \in DOMAIN zones
            BY <1>1 DEF Typed
        <3> QED BY <1>3, <3>1
    <2>3. \A d \in DOMAIN blocks' : \A i \in 1 .. Depth(d)' :
              zones'[d][i].kind = "past" <=> i > MaxZones
        <3> SUFFICES ASSUME NEW d \in DOMAIN blocks, NEW i \in 1 .. Len(zones'[d])
                     PROVE  zones'[d][i].kind = "past" <=> i > MaxZones
            BY <1>4 DEF Depth
        <3>1. CASE d = c
            BY <1>3, <3>1 DEF ZoneOK
        <3>2. CASE d # c
            <4>1. zones'[d] = zones[d]
                BY <1>1, <1>3, <3>2 DEF Typed
            <4> QED BY <4>1 DEF IInv, TypeOK, Depth
        <3> QED BY <3>1, <3>2
    <2> QED BY <1>4, <2>1, <2>2, <2>3 DEF IInv, TypeOK
<1>6. Typed' /\ ListsAre'
    BY <1>5, TypedNext, ListsAreNext
<1>7. q # << >>
    OBVIOUS
<1>8. InUse' = InUse
    BY <1>1, <1>2, <1>3, <1>4, <1>7 DEF InUse, Typed
<1>9. ContextsApart'
    BY <1>4, <1>8 DEF IInv, ContextsApart
<1>10. ZonesOK'
    <2> SUFFICES ASSUME NEW d \in DOMAIN blocks, NEW i \in 1 .. Len(zones'[d])
                 PROVE  ZoneOK(zones'[d][i], i, Len(zones'[d]))
        BY <1>4 DEF ZonesOK, Depth
    <2>1. CASE d = c
        BY <1>3, <2>1
    <2>2. CASE d # c
        <3>1. zones'[d] = zones[d]
            BY <1>1, <1>3, <2>2 DEF Typed
        <3>2. ZoneOK(zones[d][i], i, Len(zones[d]))
            BY <3>1 DEF IInv, ZonesOK, Depth
        <3> QED BY <3>1, <3>2
    <2> QED BY <2>1, <2>2
<1>11. PermanentZone[1] = 0 /\ c \in Nat \ {0}
    BY <1>1, <1>2 DEF PermanentZone, Typed
<1>12. ASSUME NEW h \in DOMAIN ListOf'
       PROVE  \/ h[1] # c /\ h \in DOMAIN ListOf /\ ListOf'[h] = ListOf[h]
              \/ \E i \in 1 .. Len(q) : h = <<c, i>>
    <2>0. h \in Holders'
        BY <1>6 DEF ListsAre
    <2>1. CASE h = PermanentZone
        <3>1. ListOf'[PermanentZone] = permanent'
            BY <1>6 DEF ListsAre, PermanentZone
        <3>2. PermanentZone \in DOMAIN ListOf /\ ListOf[PermanentZone] = permanent
            BY <1>1 DEF ListsAre
        <3> QED BY <1>4, <1>11, <2>1, <3>1, <3>2
    <2>2. CASE h # PermanentZone
        <3>1. PICK d \in DOMAIN blocks : \E i \in 1 .. Len(zones'[d]) : h = <<d, i>>
            BY <1>4, <1>6, <2>0, <2>2 DEF ListsAre, PermanentZone
        <3>2. PICK i \in 1 .. Len(zones'[d]) : h = <<d, i>>
            BY <3>1
        <3>3. CASE d = c
            BY <1>3, <3>2, <3>3
        <3>4. CASE d # c
            <4>1. zones'[d] = zones[d]
                BY <1>1, <1>3, <3>4 DEF Typed
            <4>2. ListOf'[<<d, i>>] = zones'[d][i].finalizers
                BY <1>4, <1>6, <3>2 DEF ListsAre
            <4>3. <<d, i>> \in DOMAIN ListOf /\ ListOf[<<d, i>>] = zones[d][i].finalizers
                BY <1>1, <3>2, <4>1 DEF ListsAre
            <4> QED BY <3>2, <3>4, <4>1, <4>2, <4>3
        <3> QED BY <3>3, <3>4
    <2> QED BY <2>1, <2>2
<1>13. ASSUME NEW h \in DOMAIN ListOf, h[1] # c PROVE h \in DOMAIN ListOf'
    <2>1. CASE h = PermanentZone
        BY <1>6, <2>1 DEF ListsAre, PermanentZone
    <2>2. CASE h # PermanentZone
        <3>1. PICK d \in DOMAIN blocks : \E i \in 1 .. Len(zones[d]) : h = <<d, i>>
            BY <1>1, <2>2 DEF ListsAre
        <3>2. PICK i \in 1 .. Len(zones[d]) : h = <<d, i>>
            BY <3>1
        <3>3. zones'[d] = zones[d]
            BY <1>1, <1>3, <1>13, <3>2 DEF Typed
        <3> QED BY <1>4, <1>6, <3>2, <3>3 DEF ListsAre
    <2> QED BY <2>1, <2>2
<1>14. ASSUME NEW i \in 1 .. Len(q)
       PROVE  <<c, i>> \in DOMAIN ListOf' /\ ListOf'[<<c, i>>] = q[i].finalizers
    BY <1>2, <1>3, <1>4, <1>6 DEF ListsAre
<1>15. ASSUME NEW i \in 1 .. Len(zones[c])
       PROVE  <<c, i>> \in DOMAIN ListOf /\ ListOf[<<c, i>>] = zones[c][i].finalizers
    BY <1>1, <1>2 DEF ListsAre
<1>16. ASSUME NEW h \in DOMAIN ListOf, h[1] = c PROVE \E i \in 1 .. Len(zones[c]) : h = <<c, i>>
    <2>1. h # PermanentZone /\ h \in Holders
        BY <1>1, <1>11, <1>16 DEF ListsAre
    <2>2. PICK d \in DOMAIN blocks : \E i \in 1 .. Len(zones[d]) : h = <<d, i>>
        BY <1>1, <2>1 DEF ListsAre
    <2> QED BY <1>16, <2>2
<1> QED BY <1>5, <1>9, <1>10, <1>12, <1>13, <1>14, <1>15, <1>16

-----------------------------------------------------------------------------
(* The open zones of a context in use.                                       *)
LEMMA Here ==
    ASSUME IInv, NEW c \in InUse
    PROVE  /\ c \in DOMAIN zones /\ zones[c] \in Seq(ZoneType)
           /\ Len(zones[c]) \in 1 .. MaxZones + MaxPast /\ Depth(c) = Len(zones[c])
           /\ Current(c) = zones[c][Len(zones[c])]
           /\ \A i \in 1 .. Len(zones[c]) :
                 zones[c][i] \in ZoneType /\ ZoneOK(zones[c][i], i, Len(zones[c]))
<1>1. Typed
    BY TypedIs DEF IInv
<1>2. c \in DOMAIN blocks /\ zones[c] # << >>
    BY DEF InUse
<1>3. c \in DOMAIN zones /\ zones[c] \in Seq(ZoneType) /\ Len(zones[c]) \in 0 .. MaxZones + MaxPast
    BY <1>1, <1>2 DEF Typed
<1>4. Len(zones[c]) # 0
    BY <1>2, <1>3, EmptySeq
<1>5. \A i \in 1 .. Len(zones[c]) : zones[c][i] \in ZoneType
    BY <1>3, ElementOfSeq
<1>6. \A i \in 1 .. Len(zones[c]) : ZoneOK(zones[c][i], i, Len(zones[c]))
    BY <1>2 DEF IInv, ZonesOK, Depth
<1> QED BY <1>3, <1>4, <1>5, <1>6 DEF Depth, Current, Last

(* While nothing is being compiled.                                          *)
LEMMA OnlyCalls ==
    ASSUME IInv, NEW c \in InUse, Compiling = {}, NEW i \in 1 .. Len(zones[c])
    PROVE  zones[c][i].kind # "compiler" /\ zones[c][i].snapshots = << >>
<1>1. ZoneOK(zones[c][i], i, Len(zones[c])) /\ Len(zones[c]) \in Nat /\ zones[c][i] \in ZoneType
    BY Here
<1>2. CASE i = Len(zones[c])
    <2>1. Current(c).kind # "compiler"
        BY DEF Compiling
    <2>2. zones[c][i].kind # "compiler"
        BY <1>2, <2>1, Here
    <2> QED BY <1>1, <2>2 DEF ZoneType, ZoneOK
<1>3. CASE i # Len(zones[c])
    BY <1>1, <1>3 DEF ZoneOK
<1> QED BY <1>2, <1>3

LEMMA NewZone ==
    ASSUME NEW kind \in {"call", "compiler", "past"}
    PROVE  /\ Zone(kind) \in ZoneType /\ Nested(Zone(kind))
           /\ Zone(kind).finalizers = << >> /\ Zone(kind).snapshots = << >> /\ Zone(kind).kind = kind
BY DEF Zone, ZoneType, ListType, Nested

LEMMA Opens ==
    ASSUME IInv, NEW c \in InUse, Compiling = {}, Depth(c) < MaxZones + MaxPast,
           NEW kind \in {"call", "compiler", "past"}, kind = "past" <=> ~ ZoneAvailable(c),
           zones' = [zones EXCEPT ![c] = Append(@, Zone(kind))],
           UNCHANGED <<blocks, free, ref_count, needs, permanent, armed, misrun, lost, panic>>
    PROVE  IInv'
<1> DEFINE s == zones[c]
           n == Len(s)
           q == Append(s, Zone(kind))
<1>1. /\ s \in Seq(ZoneType) /\ n \in 1 .. MaxZones + MaxPast /\ n < MaxZones + MaxPast
      /\ kind = "past" <=> n + 1 > MaxZones
    BY Here DEF ZoneAvailable
<1>2. q \in Seq(ZoneType) /\ Len(q) = n + 1 /\ q[n + 1] = Zone(kind) /\ \A i \in 1 .. n : q[i] = s[i]
    BY <1>1, NewZone, AppendProperties
<1>3. zones' = [zones EXCEPT ![c] = q]
    OBVIOUS
<1>4. \A i \in 1 .. n : s[i].kind # "compiler" /\ ZoneOK(s[i], i, n) /\ s[i].snapshots = << >>
    BY Here, OnlyCalls
<1> HIDE DEF q, n
<1>5. ASSUME NEW i \in 1 .. Len(q) PROVE ZoneOK(q[i], i, Len(q))
    <2>1. CASE i = n + 1
        <3>1. ~ (i = 1 \/ i < Len(q)) /\ q[i] = Zone(kind)
            BY <1>1, <1>2, <2>1
        <3> QED BY <1>1, <2>1, <3>1, NewZone DEF ZoneOK
    <2>2. CASE i # n + 1
        <3>1. i \in 1 .. n
            BY <1>1, <1>2, <2>2
        <3> QED BY <1>2, <1>4, <3>1 DEF ZoneOK
    <2> QED BY <2>1, <2>2
<1>6. armed' \subseteq Finalizers /\ misrun' \in BOOLEAN
    BY DEF IInv, TypeOK
<1>7. Len(q) \in 1 .. MaxZones + MaxPast
    BY <1>1, <1>2
<1>8. /\ TypeOK' /\ ContextsApart' /\ ZonesOK'
      /\ \A h \in DOMAIN ListOf' :
            \/ h[1] # c /\ h \in DOMAIN ListOf /\ ListOf'[h] = ListOf[h]
            \/ \E i \in 1 .. Len(q) : h = <<c, i>>
      /\ \A h \in DOMAIN ListOf : h[1] # c => h \in DOMAIN ListOf'
      /\ \A i \in 1 .. Len(q) :
            <<c, i>> \in DOMAIN ListOf' /\ ListOf'[<<c, i>>] = q[i].finalizers
      /\ \A i \in 1 .. Len(s) :
            <<c, i>> \in DOMAIN ListOf /\ ListOf[<<c, i>>] = s[i].finalizers
      /\ \A h \in DOMAIN ListOf : h[1] = c => \E i \in 1 .. Len(s) : h = <<c, i>>
    BY <1>2, <1>3, <1>5, <1>6, <1>7, ZonesChange
<1> HIDE DEF s
<1>9. Len(s) = n
    BY DEF n
<1> DEFINE new == <<c, n + 1>>
<1>10. new \in DOMAIN ListOf' /\ ListOf'[new] = << >> /\ new[1] = c
    <2>1. n + 1 \in 1 .. Len(q) /\ q[n + 1].finalizers = << >>
        BY <1>1, <1>2, NewZone
    <2> QED BY <1>8, <2>1
<1>11. new \notin DOMAIN ListOf
    <2>1. \A i \in 1 .. n : i # n + 1
        BY <1>1
    <2> QED BY <1>8, <1>9, <2>1
<1>12. \A h \in DOMAIN ListOf : h \in DOMAIN ListOf' /\ ListOf'[h] = ListOf[h]
    <2> SUFFICES ASSUME NEW h \in DOMAIN ListOf
                 PROVE  h \in DOMAIN ListOf' /\ ListOf'[h] = ListOf[h]
        OBVIOUS
    <2>1. CASE h[1] = c
        <3>1. PICK i \in 1 .. n : h = <<c, i>>
            BY <1>8, <1>9, <2>1
        <3>2. i \in 1 .. Len(q) /\ q[i] = s[i]
            BY <1>1, <1>2, <3>1
        <3> QED BY <1>8, <1>9, <3>1, <3>2
    <2>2. CASE h[1] # c
        BY <1>8, <2>2
    <2> QED BY <2>1, <2>2
<1>13. \A h \in DOMAIN ListOf' : h \in DOMAIN ListOf \/ h = new
    <2> SUFFICES ASSUME NEW h \in DOMAIN ListOf', h \notin DOMAIN ListOf PROVE h = new
        OBVIOUS
    <2>1. PICK i \in 1 .. Len(q) : h = <<c, i>>
        BY <1>8
    <2>2. i \notin 1 .. n
        BY <1>8, <1>9, <2>1
    <2>3. i = n + 1
        BY <1>1, <1>2, <2>1, <2>2
    <2> QED BY <2>1, <2>3
<1> HIDE DEF new
<1>14. DOMAIN ListOf' = DOMAIN ListOf \cup {new}
    BY <1>10, <1>12, <1>13
<1>15. NoneTwice(ListOf)
    BY DEF IInv, FinalizedOnce
<1>16. NoneTwice(ListOf') /\ InLists(ListOf') = InLists(ListOf)
    <2>1. \A h \in DOMAIN ListOf : ListOf'[h] = ListOf[h]
        BY <1>12
    <2>2. ListOf'[new] = << >>
        BY <1>10
    <2> QED BY <1>11, <1>14, <1>15, <2>1, <2>2, Opened
<1>17. FinalizedOnce'
    <2>1. misrun' = misrun /\ armed' = armed /\ lost' = lost
        OBVIOUS
    <2>2. ~ misrun /\ armed = InLists(ListOf) \cup lost /\ lost \cap InLists(ListOf) = {}
        BY DEF IInv, FinalizedOnce
    <2>3. ~ misrun'
        BY <2>1, <2>2
    <2> QED BY <1>16, <2>1, <2>2, <2>3 DEF FinalizedOnce
<1> QED BY <1>8, <1>17 DEF IInv

LEMMA FrontIs ==
    ASSUME NEW S, NEW s \in Seq(S), Len(s) >= 1
    PROVE  /\ Front(s) \in Seq(S) /\ Len(Front(s)) = Len(s) - 1
           /\ \A i \in 1 .. Len(s) - 1 : Front(s)[i] = s[i]
<1> DEFINE n == Len(s) - 1
<1>1. n \in Nat /\ Len(s) = n + 1
    OBVIOUS
<1>2. \A i \in 1 .. n : s[i] \in S
    BY <1>1
<1>3. Front(s) = SubSeq(s, 1, n)
    BY DEF Front
<1> HIDE DEF n
<1>4. /\ Front(s) \in Seq(S)
      /\ Len(Front(s)) = IF 1 <= n THEN n - 1 + 1 ELSE 0
      /\ \A i \in 1 .. n - 1 + 1 : Front(s)[i] = s[1 + i - 1]
    BY <1>1, <1>2, <1>3, SubSeqProperties
<1>5. Len(Front(s)) = n
    BY <1>1, <1>4
<1>6. ASSUME NEW i \in 1 .. n PROVE Front(s)[i] = s[i]
    <2>1. i \in 1 .. n - 1 + 1 /\ 1 + i - 1 = i
        BY <1>1
    <2> QED BY <1>4, <2>1
<1>7. Len(s) - 1 = n
    BY <1>1
<1> QED BY <1>4, <1>5, <1>6, <1>7

LEMMA Closes ==
    ASSUME IInv, NEW c \in InUse, Len(zones[c]) > 1, ExitZone(c)
    PROVE  IInv'
<1> DEFINE s == zones[c]
           n == Len(s)
           q == Front(s)
           L == <<s[n].finalizers>>
           top == <<c, n>>
           g == [i \in {1} |-> top]
<1>1. s \in Seq(ZoneType) /\ n \in 1 .. MaxZones + MaxPast /\ n > 1
    BY Here
<1>2. q \in Seq(ZoneType) /\ Len(q) = n - 1 /\ \A i \in 1 .. n - 1 : q[i] = s[i]
    BY <1>1, FrontIs
<1>3. /\ zones' = [zones EXCEPT ![c] = q] /\ Run(L)
      /\ UNCHANGED <<blocks, free, ref_count, needs, permanent, lost, panic>>
    BY Here DEF ExitZone
<1>4. \A i \in 1 .. n : ZoneOK(s[i], i, n)
    BY Here
<1>5. DOMAIN L = {1} /\ L[1] = s[n].finalizers /\ DOMAIN g = {1} /\ g[1] = top
    OBVIOUS
<1> HIDE DEF q, n, L, g
<1>6. ASSUME NEW i \in 1 .. Len(q) PROVE ZoneOK(q[i], i, Len(q))
    <2>1. i \in 1 .. n /\ i < n /\ q[i] = s[i]
        BY <1>1, <1>2
    <2> QED BY <1>4, <2>1 DEF ZoneOK
<1>7. Len(q) \in 1 .. MaxZones + MaxPast
    BY <1>1, <1>2
<1>8. armed' \subseteq Finalizers /\ misrun' \in BOOLEAN
    BY <1>3, RunTypes
<1>9. /\ TypeOK' /\ ContextsApart' /\ ZonesOK'
      /\ \A h \in DOMAIN ListOf' :
            \/ h[1] # c /\ h \in DOMAIN ListOf /\ ListOf'[h] = ListOf[h]
            \/ \E i \in 1 .. Len(q) : h = <<c, i>>
      /\ \A h \in DOMAIN ListOf : h[1] # c => h \in DOMAIN ListOf'
      /\ \A i \in 1 .. Len(q) :
            <<c, i>> \in DOMAIN ListOf' /\ ListOf'[<<c, i>>] = q[i].finalizers
      /\ \A i \in 1 .. Len(s) :
            <<c, i>> \in DOMAIN ListOf /\ ListOf[<<c, i>>] = s[i].finalizers
      /\ \A h \in DOMAIN ListOf : h[1] = c => \E i \in 1 .. Len(s) : h = <<c, i>>
    BY <1>2, <1>3, <1>6, <1>7, <1>8, ZonesChange
<1> HIDE DEF s
<1>10. Len(s) = n
    BY DEF n
<1>11. top \in DOMAIN ListOf /\ ListOf[top] = s[n].finalizers /\ top[1] = c
    <2>1. n \in 1 .. n
        BY <1>1
    <2> QED BY <1>9, <1>10, <2>1
<1>12. top \notin DOMAIN ListOf'
    <2>1. \A i \in 1 .. n - 1 : i # n
        BY <1>1
    <2> QED BY <1>2, <1>9, <2>1
<1>13. \A h \in DOMAIN ListOf' : h \in DOMAIN ListOf /\ ListOf'[h] = ListOf[h]
    <2> SUFFICES ASSUME NEW h \in DOMAIN ListOf', \E i \in 1 .. Len(q) : h = <<c, i>>
                 PROVE  h \in DOMAIN ListOf /\ ListOf'[h] = ListOf[h]
        BY <1>9
    <2>1. PICK i \in 1 .. Len(q) : h = <<c, i>>
        OBVIOUS
    <2>2. i \in 1 .. Len(s) /\ q[i] = s[i]
        BY <1>1, <1>2, <1>10
    <2> QED BY <1>9, <2>1, <2>2
<1>14. \A h \in DOMAIN ListOf : h = top \/ h \in DOMAIN ListOf'
    <2> SUFFICES ASSUME NEW h \in DOMAIN ListOf, h # top, h[1] = c PROVE h \in DOMAIN ListOf'
        BY <1>9
    <2>1. PICK i \in 1 .. Len(s) : h = <<c, i>>
        BY <1>9
    <2>2. i \in 1 .. Len(q)
        BY <1>1, <1>2, <1>10, <2>1
    <2> QED BY <1>9, <2>1, <2>2
<1> HIDE DEF top
<1>15. NoneTwice(ListOf)
    BY DEF IInv, FinalizedOnce
<1>16. /\ NoneTwice(L) /\ NoneTwice(ListOf') /\ InLists(L) \subseteq InLists(ListOf)
       /\ InLists(ListOf') = InLists(ListOf) \ InLists(L)
    <2>1. g \in [DOMAIN L -> DOMAIN ListOf]
        BY <1>5, <1>11 DEF g
    <2>2. \A h \in DOMAIN ListOf' : h \in DOMAIN ListOf /\ ListOf'[h] = ListOf[h]
        BY <1>13
    <2>3. \A i \in DOMAIN L : L[i] = ListOf[g[i]]
        BY <1>5, <1>11
    <2>4. \A i, j \in DOMAIN L : g[i] = g[j] => i = j
        BY <1>5
    <2>5. \A h \in DOMAIN ListOf : h \in DOMAIN ListOf' <=> \A i \in DOMAIN L : g[i] # h
        BY <1>5, <1>12, <1>14
    <2>6. Leaves(ListOf, L, ListOf', g)
        BY <2>1, <2>2, <2>3, <2>4, <2>5 DEF Leaves
    <2> QED BY <1>15, <2>6, Removed
<1>17. FinalizedOnce'
    BY <1>3, <1>16, RunOnce
<1> QED BY <1>9, <1>17 DEF IInv

-----------------------------------------------------------------------------
(* An open zone becomes z.                                                   *)
LEMMA ZoneChanges ==
    ASSUME IInv, NEW c \in InUse, NEW i \in 1 .. Len(zones[c]), NEW z \in ZoneType,
           ZoneOK(z, i, Len(zones[c])),
           zones' = [zones EXCEPT ![c] = [zones[c] EXCEPT ![i] = z]],
           UNCHANGED <<blocks, free, ref_count, needs, permanent, lost, panic>>,
           armed' \subseteq Finalizers, misrun' \in BOOLEAN
    PROVE  /\ TypeOK' /\ ContextsApart' /\ ZonesOK'
           /\ DOMAIN ListOf' = DOMAIN ListOf /\ <<c, i>> \in DOMAIN ListOf
           /\ ListOf[<<c, i>>] = zones[c][i].finalizers /\ ListOf'[<<c, i>>] = z.finalizers
           /\ \A h \in DOMAIN ListOf : h # <<c, i>> => ListOf'[h] = ListOf[h]
<1> DEFINE s == zones[c]
           q == [s EXCEPT ![i] = z]
<1>1. s \in Seq(ZoneType) /\ Len(s) \in 1 .. MaxZones + MaxPast
    BY Here
<1>2. /\ q \in Seq(ZoneType) /\ Len(q) = Len(s)
      /\ \A j \in 1 .. Len(s) : q[j] = IF j = i THEN z ELSE s[j]
    BY <1>1, ExceptSeq
<1>3. zones' = [zones EXCEPT ![c] = q]
    OBVIOUS
<1>4. \A j \in 1 .. Len(s) : ZoneOK(s[j], j, Len(s))
    BY Here
<1> HIDE DEF q
<1>5. ASSUME NEW j \in 1 .. Len(q) PROVE ZoneOK(q[j], j, Len(q))
    BY <1>2, <1>4
<1>6. Len(q) \in 1 .. MaxZones + MaxPast
    BY <1>1, <1>2
<1>7. /\ TypeOK' /\ ContextsApart' /\ ZonesOK'
      /\ \A h \in DOMAIN ListOf' :
            \/ h[1] # c /\ h \in DOMAIN ListOf /\ ListOf'[h] = ListOf[h]
            \/ \E j \in 1 .. Len(q) : h = <<c, j>>
      /\ \A h \in DOMAIN ListOf : h[1] # c => h \in DOMAIN ListOf'
      /\ \A j \in 1 .. Len(q) :
            <<c, j>> \in DOMAIN ListOf' /\ ListOf'[<<c, j>>] = q[j].finalizers
      /\ \A j \in 1 .. Len(s) :
            <<c, j>> \in DOMAIN ListOf /\ ListOf[<<c, j>>] = s[j].finalizers
      /\ \A h \in DOMAIN ListOf : h[1] = c => \E j \in 1 .. Len(s) : h = <<c, j>>
    BY <1>2, <1>3, <1>5, <1>6, ZonesChange
<1> HIDE DEF s
<1>8. i \in 1 .. Len(s)
    BY DEF s
<1>9. ASSUME NEW h \in DOMAIN ListOf PROVE h \in DOMAIN ListOf' /\ (h # <<c, i>> => ListOf'[h] = ListOf[h])
    <2>1. CASE h[1] = c
        <3>1. PICK j \in 1 .. Len(s) : h = <<c, j>>
            BY <1>7, <2>1
        <3>2. j \in 1 .. Len(q) /\ (j # i => q[j] = s[j])
            BY <1>2, <3>1
        <3> QED BY <1>7, <3>1, <3>2
    <2>2. CASE h[1] # c
        BY <1>7, <2>2
    <2> QED BY <2>1, <2>2
<1>10. ASSUME NEW h \in DOMAIN ListOf' PROVE h \in DOMAIN ListOf
    BY <1>2, <1>7
<1>11. DOMAIN ListOf' = DOMAIN ListOf
    BY <1>9, <1>10
<1>12. <<c, i>> \in DOMAIN ListOf /\ ListOf[<<c, i>>] = s[i].finalizers
    BY <1>7, <1>8
<1>13. ListOf'[<<c, i>>] = z.finalizers
    BY <1>2, <1>7, <1>8
<1>14. s[i] = zones[c][i]
    BY DEF s
<1> QED BY <1>7, <1>9, <1>11, <1>12, <1>13, <1>14

(* A finalizer is added in front of the list of h.                           *)
LEMMA AddedOnce ==
    ASSUME IInv, NEW h \in DOMAIN ListOf, NEW f \in Finalizers \ armed,
           ListOf[h] \in Seq(Finalizers), DOMAIN ListOf' = DOMAIN ListOf,
           \A j \in DOMAIN ListOf : j # h => ListOf'[j] = ListOf[j],
           ListOf'[h] = <<f>> \o ListOf[h], armed' = armed \cup {f}, misrun' = misrun,
           lost' = lost
    PROVE  FinalizedOnce'
<1>1. /\ ~ misrun /\ NoneTwice(ListOf) /\ armed = InLists(ListOf) \cup lost
      /\ lost \cap InLists(ListOf) = {}
    BY DEF IInv, FinalizedOnce
<1>2. NoneTwice(ListOf) /\ f \notin InLists(ListOf) /\ f \in Finalizers
    BY <1>1
<1>3. Prefixed(ListOf'[h], f, ListOf[h])
    <2>1. /\ ListOf'[h] \in Seq(Finalizers) /\ Len(ListOf'[h]) = Len(ListOf[h]) + 1
          /\ ListOf'[h][1] = f
          /\ \A m \in 1 .. Len(ListOf[h]) : ListOf'[h][m + 1] = ListOf[h][m]
        BY <1>2, InFront
    <2>2. Len(ListOf[h]) \in Nat /\ DOMAIN ListOf[h] = 1 .. Len(ListOf[h])
        BY LenProperties
    <2>3. DOMAIN ListOf'[h] = 1 .. Len(ListOf[h]) + 1
        BY <2>1, LenProperties
    <2> QED BY <2>1, <2>2, <2>3 DEF Prefixed
<1>4. NoneTwice(ListOf') /\ InLists(ListOf') = InLists(ListOf) \cup {f}
    <2>1. NoneTwice(ListOf)
        BY <1>2
    <2>2. DOMAIN ListOf' = DOMAIN ListOf
        OBVIOUS
    <2>3. h \in DOMAIN ListOf
        OBVIOUS
    <2>4. \A i \in DOMAIN ListOf : i # h => ListOf'[i] = ListOf[i]
        OBVIOUS
    <2>5. f \notin InLists(ListOf)
        BY <1>2
    <2>6. Gains(ListOf, ListOf', h, f)
        BY <1>3, <2>2, <2>3, <2>4 DEF Gains
    <2> QED BY <2>1, <2>5, <2>6, Added
<1>5. ~ misrun'
    BY <1>1
<1>6. armed' = InLists(ListOf') \cup lost' /\ lost' \cap InLists(ListOf') = {}
    BY <1>1, <1>4
<1> QED BY <1>4, <1>5, <1>6 DEF FinalizedOnce

(* A finalizer is added to an open zone, and nothing runs.                   *)
LEMMA Adds ==
    ASSUME IInv, NEW c \in InUse, NEW i \in 1 .. Len(zones[c]), NEW z \in ZoneType,
           NEW f \in Finalizers \ armed,
           ZoneOK(z, i, Len(zones[c])), z.finalizers = <<f>> \o zones[c][i].finalizers,
           zones' = [zones EXCEPT ![c] = [zones[c] EXCEPT ![i] = z]],
           armed' = armed \cup {f},
           UNCHANGED <<blocks, free, ref_count, needs, permanent, misrun, lost, panic>>
    PROVE  IInv'
<1> DEFINE h == <<c, i>>
<1>1. armed' \subseteq Finalizers /\ misrun' \in BOOLEAN
    BY DEF IInv, TypeOK
<1>2. /\ TypeOK' /\ ContextsApart' /\ ZonesOK'
      /\ DOMAIN ListOf' = DOMAIN ListOf /\ h \in DOMAIN ListOf
      /\ ListOf[h] = zones[c][i].finalizers /\ ListOf'[h] = z.finalizers
      /\ \A j \in DOMAIN ListOf : j # h => ListOf'[j] = ListOf[j]
    BY <1>1, ZoneChanges
<1>3. ListOf[h] \in Seq(Finalizers)
    <2>1. zones[c][i] \in ZoneType
        BY Here
    <2> QED BY <1>2, <2>1 DEF ZoneType, ListType
<1>4. ListOf'[h] = <<f>> \o ListOf[h]
    BY <1>2
<1>5. misrun' = misrun
    OBVIOUS
<1> HIDE DEF h
<1>6. FinalizedOnce'
    BY <1>2, <1>3, <1>4, <1>5, AddedOnce
<1> QED BY <1>2, <1>6 DEF IInv

LEMMA RegisterStep ==
    ASSUME IInv, NEW c \in DOMAIN blocks, NEW i \in 1 .. MaxZones + 1, NEW f \in Finalizers,
           Register(c, i, f)
    PROVE  IInv'
<1> DEFINE z == [zones[c][i] EXCEPT !.finalizers = <<f>> \o @]
<1>1. c \in InUse /\ Compiling = {} /\ f \in Finalizers \ armed /\ i <= Depth(c)
    BY DEF Register, Running
<1>2. i \in 1 .. Len(zones[c])
    BY <1>1, Here
<1>3. zones[c][i] \in ZoneType /\ ZoneOK(zones[c][i], i, Len(zones[c]))
    BY <1>1, <1>2, Here
<1>4. zones[c][i].kind # "compiler" /\ zones[c][i].snapshots = << >>
    BY <1>1, <1>2, OnlyCalls
<1>5. <<f>> \o zones[c][i].finalizers \in ListType
    <2>1. zones[c][i].finalizers \in Seq(Finalizers) /\ f \in Finalizers
        BY <1>1, <1>3 DEF ZoneType, ListType
    <2> QED BY <2>1, InFront DEF ListType
<1>6. /\ z \in ZoneType /\ z.finalizers = <<f>> \o zones[c][i].finalizers
      /\ z.kind = zones[c][i].kind /\ z.snapshots = << >>
    BY <1>3, <1>4, <1>5 DEF ZoneType
<1>7. ZoneOK(z, i, Len(zones[c]))
    BY <1>3, <1>4, <1>6 DEF ZoneOK, Nested
<1>8. /\ zones' = [zones EXCEPT ![c] = [zones[c] EXCEPT ![i] = z]]
      /\ armed' = armed \cup {f}
      /\ UNCHANGED <<blocks, free, ref_count, needs, permanent, misrun, lost, panic>>
    BY DEF Register
<1> HIDE DEF z
<1> QED BY <1>1, <1>2, <1>6, <1>7, <1>8, Adds

LEMMA RegisterPermanentStep ==
    ASSUME IInv, NEW f \in Finalizers, RegisterPermanent(f)
    PROVE  IInv'
<1>1. /\ permanent' = <<f>> \o permanent /\ armed' = armed \cup {f}
      /\ UNCHANGED <<blocks, free, ref_count, zones, needs, lost, panic>> /\ f \in Finalizers \ armed
    BY DEF RegisterPermanent
<1>2. misrun' = misrun
    BY DEF RegisterPermanent
<1>3. permanent \in Seq(Finalizers) /\ armed \subseteq Finalizers /\ misrun \in BOOLEAN
    BY DEF IInv, TypeOK, ListType
<1>4. permanent' \in ListType /\ armed' \subseteq Finalizers
    BY <1>1, <1>3, InFront DEF ListType
<1>5. misrun' \in BOOLEAN
    BY <1>2, <1>3
<1>6. TypeOK'
    BY <1>1, <1>4, <1>5 DEF IInv, TypeOK, Depth
<1>7. ContextsApart'
    BY <1>1 DEF IInv, ContextsApart, InUse
<1>8. ZonesOK'
    BY <1>1 DEF IInv, ZonesOK, Depth
<1>9. /\ DOMAIN ListOf' = DOMAIN ListOf /\ PermanentZone \in DOMAIN ListOf
      /\ ListOf[PermanentZone] = permanent /\ ListOf'[PermanentZone] = permanent'
      /\ \A h \in DOMAIN ListOf : h # PermanentZone => ListOf'[h] = ListOf[h]
    <2>1. Holders' = Holders
        BY <1>1 DEF Holders, PermanentZone, Depth
    <2>2. PermanentZone' = PermanentZone
        BY DEF PermanentZone
    <2>3. DOMAIN ListOf = Holders /\ DOMAIN ListOf' = Holders
        BY <2>1 DEF ListOf
    <2>4. PermanentZone \in Holders
        BY DEF Holders
    <2> QED BY <1>1, <2>1, <2>2, <2>3, <2>4 DEF ListOf
<1>10. FinalizedOnce'
    BY <1>1, <1>2, <1>3, <1>9, AddedOnce
<1> QED BY <1>6, <1>7, <1>8, <1>10 DEF IInv

-----------------------------------------------------------------------------
(* A function is begun in the compiler's zone.                               *)
LEMMA BeginFunctionStep ==
    ASSUME IInv, NEW c \in DOMAIN blocks, NEW f \in Finalizers, BeginFunction(c, f)
    PROVE  IInv'
<1> DEFINE n == Len(zones[c])
           y == zones[c][n]
           z == Begun(y, f)
<1>1. c \in InUse /\ f \in Finalizers \ armed /\ y.kind = "compiler" /\ Current(c) = y /\ Depth(c) = n
    BY Here DEF BeginFunction, Compiling
<1>2. n \in 1 .. Len(zones[c]) /\ n \in Nat /\ y \in ZoneType /\ ZoneOK(y, n, n)
    BY <1>1, Here
<1>3. y.finalizers \in Seq(Finalizers) /\ y.snapshots \in Seq(Seq(Finalizers))
    BY <1>2 DEF ZoneType, ListType
<1> DEFINE old == y.finalizers
           new == <<f>> \o y.finalizers
           snaps == y.snapshots
           k == Len(y.snapshots)
<1>4. /\ new \in Seq(Finalizers) /\ Len(new) = Len(old) + 1 /\ Len(old) \in Nat
      /\ \A m \in 1 .. Len(old) : new[m + 1] = old[m]
    BY <1>3, InFront, LenProperties
<1>5. /\ Append(snaps, old) \in Seq(Seq(Finalizers)) /\ k \in Nat
      /\ Len(Append(snaps, old)) = k + 1 /\ Append(snaps, old)[k + 1] = old
      /\ \A m \in 1 .. k : Append(snaps, old)[m] = snaps[m]
    <2>1. snaps \in Seq(Seq(Finalizers)) /\ old \in Seq(Finalizers)
        BY <1>3
    <2> HIDE DEF snaps, old
    <2>2. k = Len(snaps)
        BY DEF snaps
    <2> HIDE DEF k
    <2> QED BY <2>1, <2>2, AppendProperties, LenProperties
<1>6. /\ z \in ZoneType /\ z.kind = "compiler"
      /\ z.finalizers = new /\ z.snapshots = Append(snaps, old)
    BY <1>1, <1>2, <1>4, <1>5 DEF ZoneType, ListType, Begun
<1>7. Rest(old, new)
    <2> HIDE DEF old, new
    <2>1. Len(old) <= Len(new) /\ Len(new) - Len(old) = 1
        BY <1>4
    <2>2. ASSUME NEW j \in 1 .. Len(old) PROVE old[j] = new[Len(new) - Len(old) + j]
        <3>1. Len(new) - Len(old) + j = j + 1
            BY <1>4
        <3> QED BY <1>4, <3>1
    <2> QED BY <2>1, <2>2 DEF Rest
<1>8. \A m \in 1 .. k : Rest(snaps[m], IF m < k THEN snaps[m + 1] ELSE old)
    BY <1>2 DEF ZoneOK, Nested
<1>9. zones' = [zones EXCEPT ![c] = [zones[c] EXCEPT ![n] = z]]
    <2>1. zones' = [zones EXCEPT ![c][Depth(c)] = Begun(zones[c][Depth(c)], f)]
        BY DEF BeginFunction
    <2> QED BY <1>1, <2>1
<1>10. armed' = armed \cup {f} /\ UNCHANGED <<blocks, free, ref_count, needs, permanent, misrun, lost, panic>>
    BY DEF BeginFunction
<1> HIDE DEF y, z, old, new, snaps, k
<1>11. Nested(z)
    <2> SUFFICES ASSUME NEW m \in 1 .. k + 1
                 PROVE  Rest(z.snapshots[m],
                             IF m < k + 1 THEN z.snapshots[m + 1] ELSE z.finalizers)
        BY <1>5, <1>6 DEF Nested
    <2>1. CASE m = k + 1
        BY <1>5, <1>6, <1>7, <2>1
    <2>2. CASE m # k + 1
        <3>1. m \in 1 .. k /\ m < k + 1
            BY <1>5, <2>2
        <3>2. z.snapshots[m] = snaps[m]
            BY <1>5, <1>6, <3>1
        <3>3. z.snapshots[m + 1] = IF m < k THEN snaps[m + 1] ELSE old
            <4>1. CASE m < k
                <5>1. m + 1 \in 1 .. k
                    BY <1>5, <4>1
                <5> QED BY <1>5, <1>6, <4>1, <5>1
            <4>2. CASE ~ (m < k)
                <5>1. m = k
                    BY <1>5, <3>1, <4>2
                <5> QED BY <1>5, <1>6, <4>2, <5>1
            <4> QED BY <4>1, <4>2
        <3>4. Rest(snaps[m], IF m < k THEN snaps[m + 1] ELSE old)
            BY <1>8, <3>1
        <3>5. Rest(z.snapshots[m], z.snapshots[m + 1])
            BY <3>2, <3>3, <3>4
        <3> QED BY <3>1, <3>5
    <2> QED BY <2>1, <2>2
<1>12. ZoneOK(z, n, Len(zones[c]))
    <2>1. z.kind = "compiler" /\ ~ (n = 1 \/ n < Len(zones[c])) /\ ~ (n > MaxZones)
        BY <1>1, <1>2, <1>6 DEF ZoneOK, y
    <2> QED BY <1>11, <2>1 DEF ZoneOK
<1>13. z.finalizers = <<f>> \o zones[c][n].finalizers
    BY <1>6 DEF new, y
<1> HIDE DEF n
<1> QED BY <1>1, <1>2, <1>6, <1>9, <1>10, <1>12, <1>13, Adds

(* A function is compiled: what was registered since it was begun is run.    *)
LEMMA EndFunctionStep ==
    ASSUME IInv, NEW c \in DOMAIN blocks, EndFunction(c)
    PROVE  IInv'
<1> DEFINE n == Len(zones[c])
           y == zones[c][n]
           z == Restored(y)
           old == y.finalizers
           snaps == y.snapshots
           k == Len(y.snapshots)
           h == <<c, n>>
           L == <<Newer(y)>>
<1>1. c \in InUse /\ y.kind = "compiler" /\ Current(c) = y /\ Depth(c) = n /\ y.snapshots # << >>
    BY Here DEF EndFunction, Compiling
<1>2. n \in 1 .. Len(zones[c]) /\ n \in Nat /\ y \in ZoneType /\ ZoneOK(y, n, n)
    BY <1>1, Here
<1>3. old \in Seq(Finalizers) /\ snaps \in Seq(Seq(Finalizers)) /\ snaps # << >>
    BY <1>1, <1>2 DEF ZoneType, ListType
<1>4. k \in Nat /\ k >= 1 /\ k = Len(snaps)
    BY <1>3, EmptySeq
<1>5. \A m \in 1 .. k : Rest(snaps[m], IF m < k THEN snaps[m + 1] ELSE old)
    BY <1>2 DEF ZoneOK, Nested
<1>6. UNCHANGED <<blocks, free, ref_count, needs, permanent, lost, panic>> /\ Run(L)
    BY <1>1 DEF EndFunction
<1>7. zones' = [zones EXCEPT ![c] = [zones[c] EXCEPT ![n] = z]]
    <2>1. zones' = [zones EXCEPT ![c][Depth(c)] = Restored(zones[c][Depth(c)])]
        BY DEF EndFunction
    <2> QED BY <1>1, <2>1
<1>8. DOMAIN L = {1} /\ L[1] = SubSeq(old, 1, Len(old) - Len(snaps[k]))
    BY DEF Newer, Last
<1>9. z = [y EXCEPT !.snapshots = Front(snaps), !.finalizers = snaps[k]]
    BY DEF Restored, Last
<1> HIDE DEF z, old, snaps, k, h, L
<1>10. /\ Front(snaps) \in Seq(Seq(Finalizers)) /\ Len(Front(snaps)) = k - 1
       /\ \A m \in 1 .. k - 1 : Front(snaps)[m] = snaps[m]
    BY <1>3, <1>4, FrontIs
<1>11. snaps[k] \in Seq(Finalizers)
    BY <1>3, <1>4, ElementOfSeq
<1>12. /\ z \in ZoneType /\ z.kind = "compiler"
       /\ z.finalizers = snaps[k] /\ z.snapshots = Front(snaps)
    BY <1>1, <1>2, <1>9, <1>10, <1>11 DEF ZoneType, ListType
<1>13. Rest(snaps[k], old)
    <2>1. k \in 1 .. k /\ ~ (k < k)
        BY <1>4
    <2> QED BY <1>5, <2>1
<1>14. Nested(z)
    <2> SUFFICES ASSUME NEW m \in 1 .. k - 1
                 PROVE  Rest(z.snapshots[m],
                             IF m < k - 1 THEN z.snapshots[m + 1] ELSE z.finalizers)
        BY <1>10, <1>12 DEF Nested
    <2>1. m \in 1 .. k /\ m < k
        BY <1>4
    <2>2. Rest(snaps[m], snaps[m + 1])
        BY <1>5, <2>1
    <2>3. z.snapshots[m] = snaps[m]
        BY <1>10, <1>12
    <2>4. CASE m < k - 1
        <3>1. m + 1 \in 1 .. k - 1
            BY <1>4, <2>4
        <3>2. z.snapshots[m + 1] = snaps[m + 1]
            BY <1>10, <1>12, <3>1
        <3> QED BY <2>2, <2>3, <2>4, <3>2
    <2>5. CASE ~ (m < k - 1)
        <3>1. m + 1 = k
            BY <1>4, <2>5
        <3>2. z.finalizers = snaps[m + 1]
            BY <1>12, <3>1
        <3> QED BY <2>2, <2>3, <2>5, <3>2
    <2> QED BY <2>4, <2>5
<1>15. ZoneOK(z, n, Len(zones[c]))
    <2>1. z.kind = "compiler" /\ ~ (n = 1 \/ n < Len(zones[c])) /\ ~ (n > MaxZones)
        BY <1>1, <1>2, <1>12 DEF ZoneOK, y
    <2> QED BY <1>14, <2>1 DEF ZoneOK
<1>16. armed' \subseteq Finalizers /\ misrun' \in BOOLEAN
    BY <1>6, RunTypes
<1> HIDE DEF n
<1>17. /\ TypeOK' /\ ContextsApart' /\ ZonesOK'
       /\ DOMAIN ListOf' = DOMAIN ListOf /\ h \in DOMAIN ListOf
       /\ ListOf[h] = zones[c][n].finalizers /\ ListOf'[h] = z.finalizers
       /\ \A j \in DOMAIN ListOf : j # h => ListOf'[j] = ListOf[j]
    BY <1>1, <1>2, <1>6, <1>7, <1>12, <1>15, <1>16, ZoneChanges DEF h
<1>18. ListOf[h] = old /\ ListOf'[h] = snaps[k]
    BY <1>12, <1>17 DEF old
<1>19. /\ NoneTwice(L) /\ NoneTwice(ListOf') /\ InLists(L) \subseteq InLists(ListOf)
       /\ InLists(ListOf') = InLists(ListOf) \ InLists(L)
    <2>1. NoneTwice(ListOf)
        BY DEF IInv, FinalizedOnce
    <2>2. DOMAIN ListOf' = DOMAIN ListOf
        BY <1>17
    <2>3. h \in DOMAIN ListOf
        BY <1>17
    <2>4. \A i \in DOMAIN ListOf : i # h => ListOf'[i] = ListOf[i]
        BY <1>17
    <2>5. Joined(old, L[1], snaps[k])
        BY <1>3, <1>8, <1>11, <1>13, JoinedIs
    <2>6. Joined(ListOf[h], L[1], ListOf'[h])
        BY <1>18, <2>5
    <2>7. DOMAIN L = {1}
        BY <1>8
    <2>8. Loses(ListOf, L, ListOf', h)
        BY ONLY <2>2, <2>3, <2>4, <2>6, <2>7 DEF Loses
    <2> QED BY <2>1, <2>8, Cut
<1>20. FinalizedOnce'
    BY <1>6, <1>19, RunOnce
<1> QED BY <1>17, <1>20 DEF IInv

-----------------------------------------------------------------------------
LEMMA CompileEndsStep ==
    ASSUME IInv, NEW c \in DOMAIN blocks, CompileEnds(c)
    PROVE  IInv'
<1>1. c \in InUse /\ Current(c).kind = "compiler" /\ ExitZone(c)
    BY DEF CompileEnds, Compiling
<1>2. /\ Len(zones[c]) \in 1 .. MaxZones + MaxPast
      /\ zones[c][Len(zones[c])].kind = "compiler" /\ zones[c][Len(zones[c])] \in ZoneType
      /\ ZoneOK(zones[c][Len(zones[c])], Len(zones[c]), Len(zones[c]))
    BY <1>1, Here
<1>3. Len(zones[c]) > 1
    <2>1. Len(zones[c]) # 1
        BY <1>2 DEF ZoneOK
    <2>2. Len(zones[c]) \in 1 .. MaxZones + MaxPast
        BY <1>2
    <2>3. \A n \in 1 .. MaxZones + MaxPast : n # 1 => n > 1
        OBVIOUS
    <2> QED BY <2>1, <2>2, <2>3
<1> QED BY <1>1, <1>3, Closes

(* The program stops.                                                        *)
LEMMA PanicStep ==
    ASSUME IInv, NEW why \in Panics, Panic(why)
    PROVE  IInv'
<1>1. /\ panic' \in Panics
      /\ UNCHANGED <<blocks, free, ref_count, zones, needs, permanent, armed, misrun, lost>>
    BY DEF Panic
<1>2. TypeOK'
    BY <1>1 DEF IInv, TypeOK, Depth
<1>3. /\ ContextsApart' = ContextsApart /\ FinalizedOnce' = FinalizedOnce
      /\ ZonesOK' = ZonesOK
    BY <1>1 DEF ContextsApart, FinalizedOnce, ZonesOK, ListOf, Holders, PermanentZone, InUse,
                Depth
<1> QED BY <1>2, <1>3 DEF IInv

LEMMA ExitStep ==
    ASSUME IInv, NEW c \in DOMAIN blocks, Exit(c)
    PROVE  IInv'
<1>1. c \in InUse /\ Len(zones[c]) > 1
    BY DEF Exit, Running, Depth
<1>2. CASE ExitZone(c)
    BY <1>1, <1>2, Closes
<1>3. CASE Panic("Unmatched zone")
    BY <1>3, PanicStep DEF Panics
<1> QED BY <1>2, <1>3 DEF Exit

LEMMA EnterStep ==
    ASSUME IInv, NEW c \in DOMAIN blocks, Enter(c) \/ Compile(c)
    PROVE  IInv'
<1>1. c \in InUse /\ Compiling = {} /\ Depth(c) < MaxZones + MaxPast
    BY DEF Enter, Compile, Running
<1>2. UNCHANGED <<blocks, free, ref_count, needs, permanent, armed, misrun, lost, panic>>
    BY DEF Enter, Compile
<1>3. PICK asked \in {"call", "compiler"} :
          zones' = [zones EXCEPT ![c] =
                       Append(@, Zone(IF ZoneAvailable(c) THEN asked ELSE "past"))]
    BY DEF Enter, Compile, Entered
<1> DEFINE kind == IF ZoneAvailable(c) THEN asked ELSE "past"
<1>4. kind \in {"call", "compiler", "past"} /\ (kind = "past" <=> ~ ZoneAvailable(c))
    OBVIOUS
<1>5. zones' = [zones EXCEPT ![c] = Append(@, Zone(kind))]
    BY <1>3
<1> HIDE DEF kind
<1> QED BY <1>1, <1>2, <1>4, <1>5, Opens

-----------------------------------------------------------------------------
LEMMA InUseFinite ==
    ASSUME Typed
    PROVE  IsFiniteSet(InUse)
<1>1. IsFiniteSet(1 .. Len(blocks)) /\ InUse \in SUBSET (1 .. Len(blocks))
    BY FS_Interval DEF Typed, InUse
<1> QED BY <1>1, FS_Subset

(* A context that was not in use has its first zone.                         *)
LEMMA Starts ==
    ASSUME IInv, TypeOK', NEW c \in DOMAIN blocks', zones'[c] = <<Zone("call")>>,
           \A d : d # c => (d \in DOMAIN blocks' <=> d \in DOMAIN blocks),
           \A d \in DOMAIN blocks : d # c => zones'[d] = zones[d],
           c \in DOMAIN blocks => zones[c] = << >>,
           UNCHANGED <<permanent, armed, misrun, lost, panic>>
    PROVE  ZonesOK' /\ FinalizedOnce' /\ InUse' = InUse \cup {c} /\ c \notin InUse
<1> DEFINE q == <<Zone("call")>>
<1>1. Typed /\ ListsAre /\ Typed' /\ ListsAre'
    BY TypedIs, ListsAreIs, TypedNext, ListsAreNext DEF IInv
<1>2. q # << >> /\ Len(q) = 1 /\ q[1] = Zone("call")
    OBVIOUS
<1>3. zones'[c] = q
    OBVIOUS
<1> HIDE DEF q
<1>4. InUse' = InUse \cup {c} /\ c \notin InUse
    BY <1>2, <1>3 DEF InUse
<1>5. ZonesOK'
    <2> SUFFICES ASSUME NEW d \in DOMAIN blocks', NEW i \in 1 .. Len(zones'[d])
                 PROVE  ZoneOK(zones'[d][i], i, Len(zones'[d]))
        BY DEF ZonesOK, Depth
    <2>1. CASE d = c
        <3>1. zones'[d] = q
            BY <1>3, <2>1
        <3>2. Len(zones'[d]) = 1
            BY <1>2, <3>1
        <3>3. i = 1
            BY <3>2
        <3>4. zones'[d][i] = Zone("call")
            BY <1>2, <3>1, <3>3
        <3> QED BY <3>2, <3>3, <3>4, NewZone DEF ZoneOK
    <2>2. CASE d # c
        <3>1. zones'[d] = zones[d] /\ d \in DOMAIN blocks
            BY <2>2
        <3>2. ZoneOK(zones[d][i], i, Len(zones[d]))
            BY <3>1 DEF IInv, ZonesOK, Depth
        <3> QED BY <3>1, <3>2
    <2> QED BY <2>1, <2>2
<1> DEFINE new == <<c, 1>>
<1>6. PermanentZone' = PermanentZone
    BY DEF PermanentZone
<1>7. new \in DOMAIN ListOf' /\ ListOf'[new] = << >>
    <2>1. 1 \in 1 .. Len(zones'[c]) /\ zones'[c][1] = Zone("call")
        BY <1>2, <1>3
    <2>2. <<c, 1>> \in Holders' /\ ListOf'[<<c, 1>>] = zones'[c][1].finalizers
        BY <1>1, <2>1 DEF ListsAre
    <2> QED BY <1>1, <2>1, <2>2, NewZone DEF ListsAre
<1>8. new \notin DOMAIN ListOf
    <2> SUFFICES ASSUME new \in Holders PROVE FALSE
        BY <1>1 DEF ListsAre
    <2>1. new # PermanentZone
        BY DEF PermanentZone
    <2>2. PICK d \in DOMAIN blocks : \E i \in 1 .. Len(zones[d]) : new = <<d, i>>
        BY <1>1, <2>1 DEF ListsAre
    <2>3. d = c /\ zones[c] = << >>
        BY <2>2
    <2> QED BY <2>2, <2>3
<1>9. ASSUME NEW h \in DOMAIN ListOf PROVE h \in DOMAIN ListOf' /\ ListOf'[h] = ListOf[h]
    <2>0. h \in Holders
        BY <1>1 DEF ListsAre
    <2>1. CASE h = PermanentZone
        BY <1>1, <1>6, <2>1 DEF ListsAre
    <2>2. CASE h # PermanentZone
        <3>1. PICK d \in DOMAIN blocks : \E i \in 1 .. Len(zones[d]) : h = <<d, i>>
            BY <1>1, <2>0, <2>2 DEF ListsAre
        <3>2. PICK i \in 1 .. Len(zones[d]) : h = <<d, i>>
            BY <3>1
        <3>3. d # c
            BY <3>2
        <3>4. d \in DOMAIN blocks' /\ zones'[d] = zones[d]
            BY <3>3
        <3>5. h \in Holders' /\ ListOf'[h] = zones'[d][i].finalizers
            BY <1>1, <3>2, <3>4 DEF ListsAre
        <3>6. ListOf[h] = zones[d][i].finalizers
            BY <1>1, <3>2 DEF ListsAre
        <3> QED BY <1>1, <3>4, <3>5, <3>6 DEF ListsAre
    <2> QED BY <2>1, <2>2
<1>10. ASSUME NEW h \in DOMAIN ListOf' PROVE h \in DOMAIN ListOf \/ h = new
    <2>0. h \in Holders'
        BY <1>1 DEF ListsAre
    <2>1. CASE h = PermanentZone
        BY <1>1, <2>1 DEF ListsAre
    <2>2. CASE h # PermanentZone
        <3>1. PICK d \in DOMAIN blocks' : \E i \in 1 .. Len(zones'[d]) : h = <<d, i>>
            BY <1>1, <1>6, <2>0, <2>2 DEF ListsAre
        <3>2. PICK i \in 1 .. Len(zones'[d]) : h = <<d, i>>
            BY <3>1
        <3>3. CASE d = c
            BY <1>2, <1>3, <3>2, <3>3
        <3>4. CASE d # c
            <4>1. d \in DOMAIN blocks /\ zones'[d] = zones[d]
                BY <3>4
            <4> QED BY <1>1, <3>2, <4>1 DEF ListsAre
        <3> QED BY <3>3, <3>4
    <2> QED BY <2>1, <2>2
<1> HIDE DEF new
<1>11. NoneTwice(ListOf') /\ InLists(ListOf') = InLists(ListOf)
    <2>1. NoneTwice(ListOf)
        BY DEF IInv, FinalizedOnce
    <2>2. DOMAIN ListOf' = DOMAIN ListOf \cup {new}
        BY <1>7, <1>9, <1>10
    <2>3. \A h \in DOMAIN ListOf : ListOf'[h] = ListOf[h]
        BY <1>9
    <2>4. ListOf'[new] = << >>
        BY <1>7
    <2> QED BY <1>8, <2>1, <2>2, <2>3, <2>4, Opened
<1>12. FinalizedOnce'
    <2>1. misrun' = misrun /\ armed' = armed /\ lost' = lost
        OBVIOUS
    <2>2. ~ misrun /\ armed = InLists(ListOf) \cup lost /\ lost \cap InLists(ListOf) = {}
        BY DEF IInv, FinalizedOnce
    <2>3. ~ misrun'
        BY <2>1, <2>2
    <2> QED BY <1>11, <2>1, <2>2, <2>3 DEF FinalizedOnce
<1> QED BY <1>4, <1>5, <1>12

LEMMA BeginStep ==
    ASSUME IInv, NEW size \in Sizes, Begin(size)
    PROVE  IInv'
<1>1. Typed /\ IsFiniteSet(InUse)
    BY TypedIs, InUseFinite DEF IInv
<1>2. /\ blocks \in Seq(Sizes) /\ free \in Seq(DOMAIN blocks) /\ needs \in Seq(Sizes)
      /\ zones \in Seq(Seq(ZoneType)) /\ Len(zones) = Len(blocks) /\ Len(needs) = Len(blocks)
      /\ Len(blocks) <= MaxBlocks /\ ref_count \in Nat
    BY DEF IInv, TypeOK
<1>3. /\ IsInjective(free) /\ ToSet(free) = DOMAIN blocks \ InUse
      /\ \A c \in InUse : needs[c] <= blocks[c]
      /\ ref_count = Cardinality(InUse)
    BY DEF IInv, ContextsApart
<1>4. UNCHANGED <<permanent, armed, misrun, lost, panic>> /\ ref_count' = ref_count + 1
    BY DEF Begin
<1>5. /\ permanent' \in ListType /\ armed' \subseteq Finalizers
      /\ lost' \subseteq Finalizers /\ panic' \in Panics
    BY <1>4 DEF IInv, TypeOK
<1>6. misrun' \in BOOLEAN
    BY <1>4 DEF IInv, TypeOK
<1>7. <<Zone("call")>> \in Seq(ZoneType) /\ Len(<<Zone("call")>>) = 1
    BY NewZone
<1>8. CASE /\ Fits(size) /\ free' = Tail(free) /\ UNCHANGED blocks
           /\ zones' = [zones EXCEPT ![Head(free)] = <<Zone("call")>>]
           /\ needs' = [needs EXCEPT ![Head(free)] = size]
    <2> DEFINE c == Head(free)
               q == <<Zone("call")>>
    <2>1. free # << >> /\ blocks[c] >= size
        BY <1>8 DEF Fits
    <2>2. /\ c \in DOMAIN blocks /\ Tail(free) \in Seq(DOMAIN blocks)
          /\ Len(Tail(free)) = Len(free) - 1 /\ Len(free) \in Nat \ {0} /\ c = free[1]
          /\ \A i \in 1 .. Len(Tail(free)) : Tail(free)[i] = free[i + 1]
        BY <1>2, <2>1, HeadTailProperties, EmptySeq
    <2>3. c \in 1 .. Len(zones) /\ c \in 1 .. Len(needs) /\ q \in Seq(ZoneType)
        BY <1>1, <1>2, <1>7, <2>2 DEF Typed
    <2>4. /\ zones' = [zones EXCEPT ![c] = q] /\ needs' = [needs EXCEPT ![c] = size]
          /\ free' = Tail(free) /\ blocks' = blocks
        BY <1>8
    <2> HIDE DEF c, q
    <2>5. /\ zones' \in Seq(Seq(ZoneType)) /\ Len(zones') = Len(zones) /\ zones'[c] = q
          /\ \A d \in DOMAIN zones : d # c => zones'[d] = zones[d]
        BY <1>2, <2>3, <2>4, ExceptSeq
    <2>6. /\ needs' \in Seq(Sizes) /\ Len(needs') = Len(needs) /\ needs'[c] = size
          /\ \A d \in DOMAIN needs : d # c => needs'[d] = needs[d]
        BY <1>2, <2>3, <2>4, ExceptSeq
    <2>7. TypeOK'
        <3>0. ASSUME NEW d \in DOMAIN blocks, NEW i \in 1 .. Len(zones'[d])
              PROVE  zones'[d][i].kind = "past" <=> i > MaxZones
            <4>1. CASE d = c
                <5>1. zones'[d] = q /\ Len(q) = 1 /\ q[1] = Zone("call")
                    BY <1>7, <2>5, <4>1 DEF q
                <5>2. i = 1 /\ zones'[d][i] = Zone("call")
                    BY <5>1
                <5> QED BY <5>2, NewZone
            <4>2. CASE d # c
                <5>1. zones'[d] = zones[d]
                    BY <1>1, <2>5, <4>2 DEF Typed
                <5> QED BY <5>1 DEF IInv, TypeOK, Depth
            <4> QED BY <4>1, <4>2
        <3>1. ASSUME NEW d \in DOMAIN blocks PROVE Len(zones'[d]) <= MaxZones + MaxPast
            <4>1. CASE d = c
                <5>1. Len(zones'[d]) = 1
                    BY <1>7, <2>5, <4>1 DEF q
                <5> QED BY <5>1
            <4>2. CASE d # c
                BY <1>1, <2>5, <4>2 DEF Typed
            <4> QED BY <4>1, <4>2
        <3>2. ref_count' \in Nat
            BY <1>2, <1>4
        <3> QED BY <1>2, <1>5, <1>6, <2>2, <2>4, <2>5, <2>6, <3>0, <3>1, <3>2 DEF TypeOK, Depth
    <2>8. ToSet(free') = ToSet(free) \ {c} /\ c \in ToSet(free) /\ IsInjective(free')
        <3>1. DOMAIN free = 1 .. Len(free) /\ DOMAIN free' = 1 .. Len(free) - 1
            BY <1>2, <2>2, <2>4, LenProperties
        <3>2. ASSUME NEW i \in DOMAIN free' PROVE i + 1 \in DOMAIN free /\ free'[i] = free[i + 1] /\ i \in Int
            BY <2>2, <2>4, <3>1
        <3>3. IsInjective(free')
            <4> SUFFICES ASSUME NEW i \in DOMAIN free', NEW j \in DOMAIN free', free'[i] = free'[j]
                         PROVE  i = j
                BY DEF IsInjective
            <4>1. i + 1 = j + 1 /\ i \in Int /\ j \in Int
                BY <1>3, <3>2 DEF IsInjective
            <4> QED BY <4>1
        <3>4. 1 \in DOMAIN free /\ c \in ToSet(free)
            BY <2>2, <3>1 DEF ToSet
        <3>5. ASSUME NEW i \in DOMAIN free' PROVE free'[i] \in ToSet(free) \ {c}
            <4>1. i + 1 # 1
                BY <3>1
            <4>2. free[i + 1] # free[1]
                BY <1>3, <3>2, <3>4, <4>1 DEF IsInjective
            <4> QED BY <2>2, <3>2, <4>2 DEF ToSet
        <3>6. ASSUME NEW x \in ToSet(free), x # c PROVE x \in ToSet(free')
            <4>1. PICK i \in DOMAIN free : x = free[i]
                BY DEF ToSet
            <4>2. i # 1
                BY <2>2, <3>6, <4>1
            <4>3. i - 1 \in DOMAIN free' /\ i - 1 + 1 = i
                BY <2>2, <3>1, <4>2
            <4>4. x = free'[i - 1]
                BY <3>2, <4>1, <4>3
            <4> QED BY <4>3, <4>4 DEF ToSet
        <3> QED BY <3>3, <3>4, <3>5, <3>6 DEF ToSet
    <2>9. c \in DOMAIN blocks \ InUse
        BY <1>3, <2>8
    <2>10. ZonesOK' /\ FinalizedOnce' /\ InUse' = InUse \cup {c}
        <3>1. zones[c] = << >>
            BY <2>9 DEF InUse
        <3>2. zones'[c] = <<Zone("call")>>
            BY <2>5 DEF q
        <3>3. \A d \in DOMAIN blocks : d # c => zones'[d] = zones[d]
            BY <1>1, <2>5 DEF Typed
        <3>4. c \in DOMAIN blocks'
            BY <2>4, <2>9
        <3> QED BY <1>4, <2>4, <2>7, <3>1, <3>2, <3>3, <3>4, Starts
    <2>11. ContextsApart'
        <3>1. ToSet(free') = DOMAIN blocks' \ InUse'
            BY <1>3, <2>4, <2>8, <2>10
        <3>2. ASSUME NEW d \in InUse' PROVE needs'[d] <= blocks'[d]
            <4>1. CASE d = c
                <5>1. blocks[c] \in Nat /\ size \in Nat
                    <6>1. c \in 1 .. Len(blocks) /\ blocks \in Seq(Sizes)
                        BY <1>1, <1>2, <2>2 DEF Typed
                    <6>2. blocks[c] \in Sizes
                        BY <6>1, ElementOfSeq
                    <6> QED BY <6>2
                <5> QED BY <2>1, <2>4, <2>6, <4>1, <5>1
            <4>2. CASE d # c
                <5>1. d \in InUse /\ d \in DOMAIN needs
                    BY <1>1, <2>10, <4>2 DEF InUse, Typed
                <5> QED BY <1>3, <2>4, <2>6, <4>2, <5>1
            <4> QED BY <4>1, <4>2
        <3>3. ref_count' = Cardinality(InUse')
            <4>1. Cardinality(InUse \cup {c}) = Cardinality(InUse) + 1
                BY <1>1, <2>9, FS_AddElement
            <4> QED BY <1>3, <1>4, <2>10, <4>1
        <3> QED BY <2>8, <3>1, <3>2, <3>3 DEF ContextsApart
    <2> QED BY <2>7, <2>10, <2>11 DEF IInv
<1>9. CASE /\ ~ Fits(size) /\ Len(blocks) < MaxBlocks /\ UNCHANGED free
           /\ blocks' = Append(blocks, size) /\ needs' = Append(needs, size)
           /\ zones' = Append(zones, <<Zone("call")>>)
    <2> DEFINE n == Len(blocks)
               c == n + 1
               q == <<Zone("call")>>
    <2>1. n \in Nat /\ DOMAIN blocks = 1 .. n /\ n < MaxBlocks
        BY <1>1, <1>9 DEF Typed
    <2>2. /\ blocks' = Append(blocks, size) /\ needs' = Append(needs, size)
          /\ zones' = Append(zones, q) /\ free' = free
        BY <1>9
    <2>3. q \in Seq(ZoneType) /\ Len(needs) = n /\ Len(zones) = n
        BY <1>2, <1>7
    <2> HIDE DEF q
    <2>4. /\ blocks' \in Seq(Sizes) /\ Len(blocks') = n + 1 /\ blocks'[n + 1] = size
          /\ \A d \in 1 .. n : blocks'[d] = blocks[d]
        BY <1>2, <2>2, AppendProperties
    <2> HIDE DEF n
    <2>5. /\ needs' \in Seq(Sizes) /\ Len(needs') = n + 1 /\ needs'[n + 1] = size
          /\ \A d \in 1 .. n : needs'[d] = needs[d]
        BY <1>2, <2>2, <2>3, AppendProperties
    <2>6. /\ zones' \in Seq(Seq(ZoneType)) /\ Len(zones') = n + 1 /\ zones'[n + 1] = q
          /\ \A d \in 1 .. n : zones'[d] = zones[d]
        BY <1>2, <2>2, <2>3, AppendProperties
    <2>7. DOMAIN blocks' = 1 .. c
        BY <2>4, LenProperties
    <2>8. c \in DOMAIN blocks' /\ c \notin DOMAIN blocks /\ c \in Nat
        BY <2>1, <2>7
    <2>9. ASSUME NEW d PROVE d \in DOMAIN blocks' <=> (d \in DOMAIN blocks \/ d = c)
        BY <2>1, <2>7
    <2> HIDE DEF c
    <2>10. TypeOK'
        <3>0. ASSUME NEW d \in DOMAIN blocks', NEW i \in 1 .. Len(zones'[d])
              PROVE  zones'[d][i].kind = "past" <=> i > MaxZones
            <4>1. CASE d = c
                <5>1. zones'[d] = q /\ Len(q) = 1 /\ q[1] = Zone("call")
                    BY <1>7, <2>6, <4>1 DEF q, c
                <5>2. i = 1 /\ zones'[d][i] = Zone("call")
                    BY <5>1
                <5> QED BY <5>2, NewZone
            <4>2. CASE d # c
                <5>1. d \in DOMAIN blocks /\ zones'[d] = zones[d]
                    BY <2>1, <2>6, <2>9, <4>2
                <5> QED BY <5>1 DEF IInv, TypeOK, Depth
            <4> QED BY <4>1, <4>2
        <3>1. ASSUME NEW d \in DOMAIN blocks' PROVE Len(zones'[d]) <= MaxZones + MaxPast
            <4>1. CASE d = c
                <5>1. Len(zones'[d]) = 1
                    BY <1>7, <2>6, <4>1 DEF q, c
                <5> QED BY <5>1
            <4>2. CASE d # c
                <5>1. d \in DOMAIN blocks /\ zones'[d] = zones[d]
                    BY <2>1, <2>6, <2>9, <4>2
                <5> QED BY <1>1, <5>1 DEF Typed
            <4> QED BY <4>1, <4>2
        <3>2. ref_count' \in Nat
            BY <1>2, <1>4
        <3>3. free' \in Seq(DOMAIN blocks')
            <4>1. DOMAIN blocks \subseteq DOMAIN blocks'
                BY <2>9
            <4> QED BY <1>2, <2>2, <4>1, SeqMonotonic
        <3>4. Len(blocks') <= MaxBlocks
            BY <2>1, <2>4
        <3> QED BY <1>5, <1>6, <2>4, <2>5, <2>6, <3>0, <3>1, <3>2, <3>3, <3>4
           DEF TypeOK, Depth
    <2>11. ZonesOK' /\ FinalizedOnce' /\ InUse' = InUse \cup {c} /\ c \notin InUse
        <3>1. zones'[c] = <<Zone("call")>>
            BY <2>6 DEF q, c
        <3>2. \A d \in DOMAIN blocks : d # c => zones'[d] = zones[d]
            BY <2>1, <2>6
        <3>3. \A d : d # c => (d \in DOMAIN blocks' <=> d \in DOMAIN blocks)
            BY <2>9
        <3> QED BY <1>4, <2>8, <2>10, <3>1, <3>2, <3>3, Starts
    <2>12. ContextsApart'
        <3>1. ToSet(free') = DOMAIN blocks' \ InUse'
            <4>1. DOMAIN blocks' = DOMAIN blocks \cup {c}
                BY <2>9
            <4> QED BY <1>3, <2>2, <2>8, <2>11, <4>1
        <3>2. ASSUME NEW d \in InUse' PROVE needs'[d] <= blocks'[d]
            <4>1. CASE d = c
                <5>1. size \in Nat /\ needs'[c] = size /\ blocks'[c] = size
                    BY <2>4, <2>5 DEF c
                <5> QED BY <4>1, <5>1
            <4>2. CASE d # c
                <5>1. d \in InUse /\ d \in 1 .. n
                    BY <2>1, <2>11, <4>2 DEF InUse
                <5> QED BY <1>3, <2>4, <2>5, <5>1
            <4> QED BY <4>1, <4>2
        <3>3. ref_count' = Cardinality(InUse')
            <4>1. Cardinality(InUse \cup {c}) = Cardinality(InUse) + 1
                BY <1>1, <2>11, FS_AddElement
            <4> QED BY <1>3, <1>4, <2>11, <4>1
        <3>4. IsInjective(free')
            BY <1>3, <2>2
        <3> QED BY <3>1, <3>2, <3>3, <3>4 DEF ContextsApart
    <2> QED BY <2>10, <2>11, <2>12 DEF IInv
<1>10. QED
    BY <1>8, <1>9 DEF Begin

(* mara_end runs the finalizers of all zones, or behind the zones those of the *)
(* last place only, and leaves the others behind.                             *)
LEMMA EndsWith ==
    ASSUME NEW c, NEW n \in Nat \ {0}, n = Len(zones[c])
    PROVE  LET L == Lists(c, 1, n)
               R == Cleaned(c)
               M == Abandoned(c)
           IN  /\ InLists(L) = InLists(R) \cup M
               /\ NoneTwice(L) => NoneTwice(R) /\ M \cap InLists(R) = {}
               /\ M \subseteq InLists(L)
<1> DEFINE L == Lists(c, 1, n)
           K == Lists(c, 1, n - 1)
           R == Cleaned(c)
           M == Abandoned(c)
<1>1. Depth(c) = n
    BY DEF Depth
<1>2. CASE n <= MaxZones
    BY <1>1, <1>2 DEF Cleaned, Abandoned
<1>3. CASE ~ (n <= MaxZones)
    <2>1. R = Lists(c, n, n) /\ M = InLists(K)
        BY <1>1, <1>3 DEF Cleaned, Abandoned
    <2>2. /\ DOMAIN L = 1 .. n /\ \A i \in 1 .. n : L[i] = zones[c][i].finalizers
          /\ DOMAIN K = 1 .. n - 1 /\ \A i \in 1 .. n - 1 : K[i] = zones[c][i].finalizers
        BY DEF Lists
    <2>3. DOMAIN R = {1} /\ R[1] = zones[c][n].finalizers
        BY <2>1 DEF Lists
    <2> HIDE DEF L, K, R, M
    <2>4. n \in DOMAIN L /\ R[1] = L[n] /\ \A i \in DOMAIN K : i \in DOMAIN L /\ K[i] = L[i] /\ i # n
        BY <2>2, <2>3
    <2>5. \A i \in DOMAIN L : i = n \/ (i \in DOMAIN K /\ K[i] = L[i])
        BY <2>2
    <2>6. \A x : x \in InLists(R) <=> \E m \in DOMAIN L[n] : x = L[n][m]
        BY <2>3, <2>4, InListsIs
    <2>7. \A x : x \in M <=> \E i \in DOMAIN K : \E m \in DOMAIN L[i] : x = L[i][m]
        BY <2>1, <2>4, InListsIs
    <2>8. InLists(L) = InLists(R) \cup M
        <3>1. ASSUME NEW x \in InLists(L) PROVE x \in InLists(R) \cup M
            <4>1. PICK i \in DOMAIN L : \E m \in DOMAIN L[i] : x = L[i][m]
                BY InListsIs
            <4> QED BY <2>5, <2>6, <2>7, <4>1
        <3>2. ASSUME NEW x \in InLists(R) \cup M PROVE x \in InLists(L)
            <4>1. \E i \in DOMAIN L : \E m \in DOMAIN L[i] : x = L[i][m]
                BY <2>4, <2>6, <2>7
            <4> QED BY <4>1, InListsIs
        <3> QED BY <3>1, <3>2
    <2>9. ASSUME NoneTwice(L), NEW x, x \in M, x \in InLists(R) PROVE FALSE
        <3>1. PICK i \in DOMAIN K : \E m \in DOMAIN L[i] : x = L[i][m]
            BY <2>7, <2>9
        <3>2. PICK m \in DOMAIN L[i] : x = L[i][m]
            BY <3>1
        <3>3. PICK k \in DOMAIN L[n] : x = L[n][k]
            BY <2>6, <2>9
        <3>4. i \in DOMAIN L /\ i # n /\ n \in DOMAIN L /\ L[i][m] = L[n][k]
            BY <2>4, <3>2, <3>3
        <3> QED BY <2>9, <3>4, NoneTwiceIs
    <2>10. ASSUME NoneTwice(L) PROVE NoneTwice(R)
        <3> SUFFICES ASSUME NEW m \in DOMAIN L[n], NEW k \in DOMAIN L[n], L[n][m] = L[n][k]
                     PROVE  m = k
            BY <2>3, <2>4 DEF NoneTwice
        <3> QED BY <2>4, <2>10, NoneTwiceIs
    <2>11. M \subseteq InLists(L) /\ (NoneTwice(L) => M \cap InLists(R) = {})
        BY <2>8, <2>9
    <2> QED BY <2>8, <2>10, <2>11 DEF L, R, M
<1> QED BY <1>2, <1>3

LEMMA EndStep ==
    ASSUME IInv, NEW c \in DOMAIN blocks, End(c)
    PROVE  IInv'
<1> DEFINE n == Len(zones[c])
           L == Lists(c, 1, n)
           R == Cleaned(c)
           M == Abandoned(c)
           g == [i \in 1 .. n |-> <<c, i>>]
           e == << >>
<1>1. Typed /\ ListsAre /\ IsFiniteSet(InUse)
    BY TypedIs, ListsAreIs, InUseFinite DEF IInv
<1>2. /\ blocks \in Seq(Sizes) /\ free \in Seq(DOMAIN blocks) /\ needs \in Seq(Sizes)
      /\ zones \in Seq(Seq(ZoneType)) /\ Len(zones) = Len(blocks) /\ ref_count \in Nat
    BY DEF IInv, TypeOK
<1>3. /\ IsInjective(free) /\ ToSet(free) = DOMAIN blocks \ InUse
      /\ \A d \in InUse : needs[d] <= blocks[d]
      /\ ref_count = Cardinality(InUse)
    BY DEF IInv, ContextsApart
<1>4. /\ Run(R) /\ UNCHANGED <<blocks, needs, permanent, panic>> /\ ref_count' = ref_count - 1
      /\ zones' = [zones EXCEPT ![c] = << >>] /\ free' = <<c>> \o free /\ c \in InUse
      /\ lost' = lost \cup M
    BY DEF End, Running
<1>5. n \in 1 .. MaxZones + MaxPast /\ Depth(c) = n
    BY <1>4, Here
<1>6. /\ DOMAIN L = 1 .. n /\ \A i \in 1 .. n : L[i] = zones[c][i].finalizers
      /\ DOMAIN g = 1 .. n /\ \A i \in 1 .. n : g[i] = <<c, i>>
    BY <1>5 DEF Lists
<1>0. /\ InLists(L) = InLists(R) \cup M
      /\ NoneTwice(L) => NoneTwice(R) /\ M \cap InLists(R) = {}
      /\ M \subseteq InLists(L)
    BY <1>4, <1>5, EndsWith
<1> HIDE DEF L, R, M, g, n
<1>19. \A i \in 1 .. n : <<c, i>> \in DOMAIN ListOf /\ ListOf[<<c, i>>] = zones[c][i].finalizers
    BY <1>1 DEF ListsAre, n
<1>7. armed' \subseteq Finalizers /\ misrun' \in BOOLEAN /\ lost' \subseteq Finalizers
    <2>1. ASSUME NEW x \in M PROVE x \in Finalizers
        <3>1. PICK i \in DOMAIN L : \E m \in DOMAIN L[i] : x = L[i][m]
            BY <1>0, InListsIs
        <3>2. \E m \in DOMAIN ListOf[<<c, i>>] : x = ListOf[<<c, i>>][m]
            BY <1>6, <1>19, <3>1
        <3>3. x \in InLists(ListOf)
            BY <1>6, <1>19, <3>2, InListsIs
        <3> QED BY <3>3 DEF IInv, TypeOK, FinalizedOnce
    <2>2. lost \subseteq Finalizers
        BY DEF IInv, TypeOK
    <2> QED BY <1>4, <2>1, <2>2, RunTypes
<1>8. /\ zones' \in Seq(Seq(ZoneType)) /\ Len(zones') = Len(zones) /\ zones'[c] = e
      /\ \A d \in DOMAIN blocks : d # c => zones'[d] = zones[d]
    <2>1. c \in 1 .. Len(zones) /\ e \in Seq(ZoneType) /\ DOMAIN blocks = 1 .. Len(zones)
        BY <1>1, <1>2 DEF Typed
    <2> QED BY <1>2, <1>4, <2>1, ExceptSeq
<1>9. InUse' = InUse \ {c}
    <2> SUFFICES ASSUME NEW d \in DOMAIN blocks
                 PROVE  zones'[d] # << >> <=> (zones[d] # << >> /\ d # c)
        BY <1>4 DEF InUse
    <2> QED BY <1>8
<1>10. Cardinality(InUse \ {c}) = Cardinality(InUse) - 1 /\ Cardinality(InUse \ {c}) \in Nat
    BY <1>1, <1>4, FS_RemoveElement, FS_CardinalityType
<1>11. /\ free' \in Seq(DOMAIN blocks) /\ Len(free') = Len(free) + 1 /\ free'[1] = c
       /\ \A m \in 1 .. Len(free) : free'[m + 1] = free[m]
       /\ Len(free) \in Nat /\ DOMAIN free = 1 .. Len(free) /\ DOMAIN free' = 1 .. Len(free) + 1
    <2>1. /\ free' \in Seq(DOMAIN blocks) /\ Len(free') = Len(free) + 1 /\ free'[1] = c
          /\ \A m \in 1 .. Len(free) : free'[m + 1] = free[m]
        <3>1. free \in Seq(DOMAIN blocks) /\ free' = <<c>> \o free
            BY <1>2, <1>4
        <3> QED BY ONLY <3>1, InFront
    <2>2. Len(free) \in Nat /\ DOMAIN free = 1 .. Len(free)
        BY <1>2, LenProperties
    <2> QED BY <2>1, <2>2, LenProperties
<1>12. TypeOK'
    <2>1. ASSUME NEW d \in DOMAIN blocks PROVE Len(zones'[d]) <= MaxZones + MaxPast
        <3>1. CASE d = c
            <4>1. Len(zones'[d]) = 0
                BY <1>8, <3>1
            <4> QED BY <4>1
        <3>2. CASE d # c
            BY <1>1, <1>8, <3>2 DEF Typed
        <3> QED BY <3>1, <3>2
    <2>2. ref_count' \in Nat
        BY <1>3, <1>4, <1>10
    <2>3. ASSUME NEW d \in DOMAIN blocks, NEW i \in 1 .. Len(zones'[d])
          PROVE  zones'[d][i].kind = "past" <=> i > MaxZones
        <3>1. d # c
            BY <1>8
        <3>2. zones'[d] = zones[d]
            BY <1>8, <3>1
        <3> QED BY <3>2 DEF IInv, TypeOK, Depth
    <2> QED BY <1>2, <1>4, <1>7, <1>8, <1>11, <2>1, <2>2, <2>3 DEF IInv, TypeOK, Depth
<1>13. Typed' /\ ListsAre'
    BY <1>12, TypedNext, ListsAreNext
<1>14. ContextsApart'
    <2>1. ASSUME NEW m \in DOMAIN free', m # 1
          PROVE  m - 1 \in DOMAIN free /\ free'[m] = free[m - 1] /\ m \in Int
        <3>1. m - 1 \in 1 .. Len(free) /\ m - 1 + 1 = m
            BY <1>11, <2>1
        <3> QED BY <1>11, <2>1, <3>1
    <2>2. ASSUME NEW m \in DOMAIN free', m # 1 PROVE free'[m] \in ToSet(free)
        BY <2>1, <2>2 DEF ToSet
    <2>3. c \notin ToSet(free)
        BY <1>3, <1>4
    <2>4. IsInjective(free')
        <3> SUFFICES ASSUME NEW i \in DOMAIN free', NEW j \in DOMAIN free', free'[i] = free'[j]
                     PROVE  i = j
            BY DEF IsInjective
        <3>1. CASE i = 1 \/ j = 1
            BY <1>11, <2>2, <2>3, <3>1
        <3>2. CASE i # 1 /\ j # 1
            <4>1. i - 1 = j - 1 /\ i \in Int /\ j \in Int
                BY <1>3, <2>1, <3>2 DEF IsInjective
            <4> QED BY <4>1
        <3> QED BY <3>1, <3>2
    <2>5. ToSet(free') = ToSet(free) \cup {c}
        <3>1. \A x \in ToSet(free') : x \in ToSet(free) \/ x = c
            BY <1>11, <2>2 DEF ToSet
        <3>2. \A x \in ToSet(free) : x \in ToSet(free')
            <4> SUFFICES ASSUME NEW m \in 1 .. Len(free) PROVE free[m] \in ToSet(free')
                BY <1>11 DEF ToSet
            <4>1. m + 1 \in DOMAIN free' /\ free'[m + 1] = free[m]
                BY <1>11
            <4> QED BY <4>1 DEF ToSet
        <3>3. c \in ToSet(free')
            BY <1>11 DEF ToSet
        <3> QED BY <3>1, <3>2, <3>3
    <2>6. ToSet(free') = DOMAIN blocks' \ InUse'
        BY <1>3, <1>4, <1>9, <2>5
    <2>7. \A d \in InUse' : needs'[d] <= blocks'[d]
        BY <1>3, <1>4, <1>9
    <2>8. ref_count' = Cardinality(InUse')
        BY <1>3, <1>4, <1>9, <1>10
    <2> QED BY <2>4, <2>6, <2>7, <2>8 DEF ContextsApart
<1>15. ZonesOK'
    <2> SUFFICES ASSUME NEW d \in DOMAIN blocks, NEW i \in 1 .. Len(zones'[d])
                 PROVE  ZoneOK(zones'[d][i], i, Len(zones'[d]))
        BY <1>4 DEF ZonesOK, Depth
    <2>1. d # c
        BY <1>8
    <2>2. zones'[d] = zones[d]
        BY <1>8, <2>1
    <2>3. ZoneOK(zones[d][i], i, Len(zones[d]))
        BY <2>2 DEF IInv, ZonesOK, Depth
    <2> QED BY <2>2, <2>3
<1>16. PermanentZone' = PermanentZone /\ \A i \in 1 .. n : <<c, i>> # PermanentZone
    BY <1>1, <1>5 DEF PermanentZone, Typed
<1>17. \A h \in DOMAIN ListOf' : h \in DOMAIN ListOf /\ ListOf'[h] = ListOf[h] /\ \A i \in 1 .. n : h # <<c, i>>
    <2> SUFFICES ASSUME NEW h \in Holders'
                 PROVE  /\ h \in Holders /\ ListOf'[h] = ListOf[h]
                        /\ \A i \in 1 .. n : h # <<c, i>>
        BY <1>1, <1>13 DEF ListsAre
    <2>1. CASE h = PermanentZone
        BY <1>1, <1>4, <1>13, <1>16, <2>1 DEF ListsAre
    <2>2. CASE h # PermanentZone
        <3>1. PICK d \in DOMAIN blocks : \E i \in 1 .. Len(zones'[d]) : h = <<d, i>>
            BY <1>4, <1>13, <1>16, <2>2 DEF ListsAre
        <3>2. PICK i \in 1 .. Len(zones'[d]) : h = <<d, i>>
            BY <3>1
        <3>3. d # c
            BY <1>8
        <3>4. zones'[d] = zones[d]
            BY <1>8, <3>3
        <3>5. ListOf'[h] = zones'[d][i].finalizers
            BY <1>4, <1>13, <3>2 DEF ListsAre
        <3>6. h \in Holders /\ ListOf[h] = zones[d][i].finalizers
            BY <1>1, <3>2, <3>4 DEF ListsAre
        <3> QED BY <3>2, <3>3, <3>4, <3>5, <3>6
    <2> QED BY <2>1, <2>2
<1>18. \A h \in DOMAIN ListOf : h \in DOMAIN ListOf' \/ \E i \in 1 .. n : h = <<c, i>>
    <2> SUFFICES ASSUME NEW h \in Holders, \A i \in 1 .. n : h # <<c, i>> PROVE h \in Holders'
        BY <1>1, <1>13 DEF ListsAre
    <2>1. CASE h = PermanentZone
        BY <1>13, <1>16, <2>1 DEF ListsAre
    <2>2. CASE h # PermanentZone
        <3>1. PICK d \in DOMAIN blocks : \E i \in 1 .. Len(zones[d]) : h = <<d, i>>
            BY <1>1, <2>2 DEF ListsAre
        <3>2. PICK i \in 1 .. Len(zones[d]) : h = <<d, i>>
            BY <3>1
        <3>3. d # c
            BY <3>2 DEF n
        <3>4. zones'[d] = zones[d]
            BY <1>8, <3>3
        <3> QED BY <1>4, <1>13, <3>2, <3>4 DEF ListsAre
    <2> QED BY <2>1, <2>2
<1>20. /\ NoneTwice(L) /\ NoneTwice(ListOf') /\ InLists(L) \subseteq InLists(ListOf)
       /\ InLists(ListOf') = InLists(ListOf) \ InLists(L)
    <2>0. NoneTwice(ListOf)
        BY DEF IInv, FinalizedOnce
    <2>1. g \in [DOMAIN L -> DOMAIN ListOf]
        BY <1>6, <1>19 DEF g
    <2>2. \A h \in DOMAIN ListOf' : h \in DOMAIN ListOf /\ ListOf'[h] = ListOf[h]
        BY <1>17
    <2>3. \A i \in DOMAIN L : L[i] = ListOf[g[i]]
        BY <1>6, <1>19
    <2>4. \A i, j \in DOMAIN L : g[i] = g[j] => i = j
        BY <1>6
    <2>5. \A h \in DOMAIN ListOf : h \in DOMAIN ListOf' <=> \A i \in DOMAIN L : g[i] # h
        <3> SUFFICES ASSUME NEW h \in DOMAIN ListOf
                     PROVE  h \in DOMAIN ListOf' <=> \A i \in 1 .. n : g[i] # h
            BY <1>6
        <3>1. ASSUME h \in DOMAIN ListOf', NEW i \in 1 .. n PROVE g[i] # h
            <4>1. h # <<c, i>>
                BY <1>17, <3>1
            <4>2. g[i] = <<c, i>>
                BY <1>6
            <4> QED BY <4>1, <4>2
        <3>2. ASSUME \A i \in 1 .. n : g[i] # h PROVE h \in DOMAIN ListOf'
            BY <1>6, <1>18, <3>2
        <3> QED BY <3>1, <3>2
    <2>6. Leaves(ListOf, L, ListOf', g)
        BY ONLY <2>1, <2>2, <2>3, <2>4, <2>5 DEF Leaves
    <2> QED BY <2>0, <2>6, Removed
<1>21. FinalizedOnce'
    <2>1. /\ NoneTwice(R) /\ InLists(R) \subseteq InLists(ListOf) /\ M \subseteq InLists(ListOf)
          /\ M \cap InLists(R) = {}
          /\ InLists(ListOf') = InLists(ListOf) \ (InLists(R) \cup M)
        BY <1>0, <1>20
    <2> QED BY <1>4, <1>20, <2>1, RunSome
<1> QED BY <1>12, <1>14, <1>15, <1>21 DEF IInv

(* With no context there is nothing but the permanent zone's list.           *)
LEMMA DestroyStep ==
    ASSUME IInv, Destroy
    PROVE  IInv'
<1> DEFINE L == <<permanent>>
<1>1. Typed /\ ListsAre /\ IsFiniteSet(InUse) /\ ref_count = Cardinality(InUse)
    BY TypedIs, ListsAreIs, InUseFinite DEF IInv, ContextsApart
<1>2. /\ Run(L) /\ permanent' = << >> /\ blocks' = << >> /\ free' = << >>
      /\ zones' = << >> /\ needs' = << >> /\ ref_count' = 0 /\ ref_count = 0
      /\ lost' = lost /\ panic' = panic
    BY DEF Destroy
<1>3. InUse = {}
    BY <1>1, <1>2, FS_EmptySet
<1>4. DOMAIN L = {1} /\ L[1] = permanent
    OBVIOUS
<1> HIDE DEF L
<1>5. armed' \subseteq Finalizers /\ misrun' \in BOOLEAN
    BY <1>2, RunTypes
<1>6. TypeOK'
    <2>1. \A S : << >> \in Seq(S)
        OBVIOUS
    <2>2. Len(<< >>) = 0 /\ DOMAIN << >> = {}
        OBVIOUS
    <2>3. lost' \subseteq Finalizers /\ panic' \in Panics
        BY <1>2 DEF IInv, TypeOK
    <2> QED BY <1>2, <1>5, <2>1, <2>2, <2>3 DEF TypeOK, ListType
<1>7. DOMAIN blocks' = {} /\ InUse' = {}
    BY <1>2 DEF InUse
<1>8. ContextsApart'
    <2>1. DOMAIN free' = {}
        BY <1>2
    <2> QED BY <1>2, <1>7, <2>1, FS_EmptySet DEF ContextsApart, IsInjective, ToSet
<1>9. ZonesOK'
    BY <1>7 DEF ZonesOK
<1>10. Typed' /\ ListsAre' /\ PermanentZone' = PermanentZone
    BY <1>6, TypedNext, ListsAreNext DEF PermanentZone
<1>11. DOMAIN ListOf' = {PermanentZone} /\ ListOf'[PermanentZone] = << >>
    BY <1>2, <1>7, <1>10 DEF ListsAre
<1>12. DOMAIN ListOf = {PermanentZone} /\ ListOf[PermanentZone] = permanent
    <2>1. ASSUME NEW h \in Holders, h # PermanentZone PROVE FALSE
        <3>1. PICK d \in DOMAIN blocks : \E i \in 1 .. Len(zones[d]) : h = <<d, i>>
            BY <1>1, <2>1 DEF ListsAre
        <3>2. zones[d] = << >>
            BY <1>3 DEF InUse
        <3> QED BY <3>1, <3>2
    <2> QED BY <1>1, <2>1 DEF ListsAre
<1>13. \A m \in DOMAIN ListOf'[PermanentZone] : FALSE
    BY <1>11
<1>14. NoneTwice(ListOf') /\ \A x : x \notin InLists(ListOf')
    <2>1. NoneTwice(ListOf')
        BY <1>11, <1>13 DEF NoneTwice
    <2>2. ASSUME NEW x, x \in InLists(ListOf') PROVE FALSE
        BY <1>11, <1>13, <2>2, InListsIs
    <2> QED BY <2>1, <2>2
<1>15. NoneTwice(L) /\ \A x : x \in InLists(L) <=> x \in InLists(ListOf)
    <2>1. NoneTwice(ListOf)
        BY DEF IInv, FinalizedOnce
    <2>2. NoneTwice(L)
        <3> SUFFICES ASSUME NEW m \in DOMAIN permanent, NEW n \in DOMAIN permanent,
                            permanent[m] = permanent[n]
                     PROVE  m = n
            BY <1>4 DEF NoneTwice
        <3>1. /\ PermanentZone \in DOMAIN ListOf
              /\ m \in DOMAIN ListOf[PermanentZone] /\ n \in DOMAIN ListOf[PermanentZone]
              /\ ListOf[PermanentZone][m] = ListOf[PermanentZone][n]
            BY <1>12
        <3> QED BY <2>1, <3>1, NoneTwiceIs
    <2>3. ASSUME NEW x PROVE x \in InLists(L) <=> \E m \in DOMAIN permanent : x = permanent[m]
        BY <1>4, InListsIs
    <2>4. ASSUME NEW x PROVE x \in InLists(ListOf) <=> \E m \in DOMAIN permanent : x = permanent[m]
        BY <1>12, InListsIs
    <2> QED BY <2>2, <2>3, <2>4
<1>16. InLists(L) \subseteq InLists(ListOf) /\ InLists(ListOf') = InLists(ListOf) \ InLists(L)
    BY <1>14, <1>15
<1>17. FinalizedOnce'
    BY <1>2, <1>14, <1>15, <1>16, RunOnce
<1> QED BY <1>6, <1>8, <1>9, <1>17 DEF IInv

LEMMA InitOK == Init => IInv
<1> SUFFICES ASSUME Init PROVE IInv
    OBVIOUS
<1>1. /\ blocks = << >> /\ free = << >> /\ ref_count = 0 /\ zones = << >> /\ needs = << >>
      /\ permanent = << >> /\ armed = {} /\ misrun = FALSE /\ lost = {} /\ panic = "none"
    BY DEF Init
<1>2. TypeOK
    <2>1. \A S : << >> \in Seq(S)
        OBVIOUS
    <2>2. Len(<< >>) = 0 /\ DOMAIN << >> = {}
        OBVIOUS
    <2>3. misrun \in BOOLEAN
        BY <1>1
    <2>4. blocks \in Seq(Sizes) /\ Len(blocks) = 0 /\ DOMAIN blocks = {} /\ free \in Seq(DOMAIN blocks)
        BY <1>1, <2>1, <2>2
    <2>5. zones \in Seq(Seq(ZoneType)) /\ Len(zones) = 0
        BY <1>1, <2>1, <2>2
    <2>6. needs \in Seq(Sizes) /\ Len(needs) = 0 /\ permanent \in ListType
        BY <1>1, <2>1, <2>2 DEF ListType
    <2>7. ref_count \in Nat /\ armed \subseteq Finalizers /\ lost \subseteq Finalizers /\ panic \in Panics
        BY <1>1 DEF Panics
    <2> QED BY <2>3, <2>4, <2>5, <2>6, <2>7 DEF TypeOK
<1>3. DOMAIN blocks = {} /\ InUse = {} /\ DOMAIN free = {}
    BY <1>1 DEF InUse
<1>4. ContextsApart
    BY <1>1, <1>3, FS_EmptySet DEF ContextsApart, IsInjective, ToSet
<1>5. ZonesOK
    BY <1>3 DEF ZonesOK
<1>6. DOMAIN ListOf = {PermanentZone} /\ ListOf[PermanentZone] = << >>
    <2>1. Holders = {PermanentZone}
        BY <1>3 DEF Holders
    <2> QED BY <1>1, <2>1 DEF ListOf
<1>7. \A m \in DOMAIN ListOf[PermanentZone] : FALSE
    BY <1>6
<1>8. NoneTwice(ListOf)
    BY <1>6, <1>7 DEF NoneTwice
<1>9. ASSUME NEW x \in InLists(ListOf) PROVE FALSE
    BY <1>6, <1>7, InListsIs
<1>10. ~ misrun
    BY <1>1
<1>11. armed = InLists(ListOf) \cup lost /\ lost \cap InLists(ListOf) = {}
    BY <1>1, <1>9
<1> QED BY <1>2, <1>4, <1>5, <1>8, <1>10, <1>11 DEF IInv, FinalizedOnce

LEMMA NextOK == IInv /\ [Next]_vars => IInv'
<1> SUFFICES ASSUME IInv, [Next]_vars PROVE IInv'
    OBVIOUS
<1>1. ASSUME NEW size \in Sizes, Begin(size) PROVE IInv'
    BY <1>1, BeginStep
<1>2. ASSUME NEW c \in DOMAIN blocks, End(c) PROVE IInv'
    BY <1>2, EndStep
<1>3. ASSUME NEW c \in DOMAIN blocks, Enter(c) \/ Compile(c) PROVE IInv'
    BY <1>3, EnterStep
<1>4. ASSUME NEW c \in DOMAIN blocks, Exit(c) PROVE IInv'
    BY <1>4, ExitStep
<1>5. ASSUME NEW c \in DOMAIN blocks, NEW f \in Finalizers, BeginFunction(c, f) PROVE IInv'
    BY <1>5, BeginFunctionStep
<1>6. ASSUME NEW c \in DOMAIN blocks, NEW f \in Finalizers, NEW i \in 1 .. MaxZones + 1,
             Register(c, i, f)
      PROVE  IInv'
    BY <1>6, RegisterStep
<1>7. ASSUME NEW c \in DOMAIN blocks, EndFunction(c) PROVE IInv'
    BY <1>7, EndFunctionStep
<1>8. ASSUME NEW c \in DOMAIN blocks, CompileEnds(c) PROVE IInv'
    BY <1>8, CompileEndsStep
<1>9. ASSUME NEW f \in Finalizers, RegisterPermanent(f) PROVE IInv'
    BY <1>9, RegisterPermanentStep
<1>10. CASE Destroy
    BY <1>10, DestroyStep
<1>11. CASE UNCHANGED vars
    <2>1. /\ TypeOK' = TypeOK /\ ContextsApart' = ContextsApart
          /\ FinalizedOnce' = FinalizedOnce /\ ZonesOK' = ZonesOK
        BY <1>11 DEF vars, TypeOK, ContextsApart, FinalizedOnce, ZonesOK, ListOf, Holders,
                     PermanentZone, InUse, Depth
    <2> QED BY <2>1 DEF IInv
<1>12. ASSUME NEW c \in DOMAIN blocks, EndWildly(c) \/ EnterFails(c) \/ RegisterWildly(c)
       PROVE  IInv'
    <2>1. \E why \in Panics : Panic(why)
        BY <1>12 DEF EndWildly, EnterFails, RegisterWildly, Panics
    <2> QED BY <2>1, PanicStep
<1> QED BY <1>1, <1>2, <1>3, <1>4, <1>5, <1>6, <1>7, <1>8, <1>9, <1>10, <1>11, <1>12 DEF Next

(* In every reachable state the snapshots of a zone are rests of its list of *)
(* finalizers, and only the zone of a compilation has any.                   *)
THEOREM Invariant == Spec => []IInv
BY InitOK, NextOK, PTL DEF Spec

(* Every variable has its type, in every reachable state, and the places      *)
(* behind the zones are exactly those that a failing mara_zone_enter has      *)
(* moved current_zone to. *)
THEOREM TypeCorrect == Spec => []TypeOK
<1>1. IInv => TypeOK
    BY DEF IInv
<1> QED BY <1>1, Invariant, PTL

(* A context in use has a block of its own, large enough, and the count that *)
(* guards the environment's destruction is the number of contexts in use.    *)
THEOREM ContextsKeptApart == Spec => []ContextsApart
<1>1. IInv => ContextsApart
    BY DEF IInv
<1> QED BY <1>1, Invariant, PTL

(* A finalizer that was registered never runs twice and runs when its zone is *)
(* cleaned up, its function compiled, or the environment destroyed, unless    *)
(* mara_end began behind the zones of its context.                           *)
THEOREM EachFinalizedOnce == Spec => []FinalizedOnce
<1>1. IInv => FinalizedOnce
    BY DEF IInv
<1> QED BY <1>1, Invariant, PTL
=============================================================================
