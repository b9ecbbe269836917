---------------------------- MODULE ArenaProofs ----------------------------
(***************************************************************************)
(* Proofs about Arena, for any number of arenas, chunks and snapshots, any  *)
(* sizes and any alignments.                                                *)
(*                                                                          *)
(* BlocksSafe and SnapshotsRestorable are not inductive: what a restored    *)
(* snapshot gives back must be exactly what was handed out after it, which  *)
(* takes an order.  The blocks of an arena lie in the order in which they   *)
(* were handed out, in the chunks of its chain from the back to the front   *)
(* and upwards in each chunk; a snapshot has a place in that order, and the *)
(* snapshots of an arena are in that order too.                             *)
(***************************************************************************)
EXTENDS Arena, Integers, SequenceTheorems, TLAPS

(* Chunk c is older than chunk d in the chain ch.                            *)
Behind(ch, c, d) == \E p, q \in DOMAIN ch : ch[p] = c /\ ch[q] = d /\ q < p

(* Address e of chunk c comes no later than address b of chunk d.            *)
Before(ch, c, e, d, b) == Behind(ch, c, d) \/ (c = d /\ e <= b)

Distinct(s) == \A i, j \in DOMAIN s : s[i] = s[j] => i = j

(* The blocks bl that are in use in a chain ch.                              *)
Held(ch, bp, bl) ==
    /\ \A c \in Range(ch) : Header <= bp[c]
    /\ \A i \in DOMAIN bl :
          bl[i].chunk \in Range(ch) /\ Header <= bl[i].lo /\ bl[i].hi <= bp[bl[i].chunk]

Ordered(ch, bl) ==
    \A i, j \in DOMAIN bl :
        i < j => Before(ch, bl[i].chunk, bl[i].hi, bl[j].chunk, bl[j].lo)

(* Address b of chunk c is where the last of the first n blocks ends.        *)
EndsAt(bl, n, c, b) ==
    b = Header \/ \E i \in DOMAIN bl : i <= n /\ bl[i].chunk = c /\ bl[i].hi = b

Tight(ch, bp, bl) == \A c \in Range(ch) : EndsAt(bl, Len(bl), c, bp[c])

(* A snapshot: the blocks that are older than it, and those that are newer.  *)
SnapOK(ch, bp, bl, s) ==
    /\ s.count <= Len(bl)
    /\ s.chunk = NoChunk => s.count = 0
    /\ s.chunk # NoChunk =>
         /\ s.chunk \in Range(ch) /\ Header <= s.bump /\ s.bump <= bp[s.chunk]
         /\ EndsAt(bl, s.count, s.chunk, s.bump)
         /\ \A i \in DOMAIN bl : i <= s.count =>
               Before(ch, bl[i].chunk, bl[i].hi, s.chunk, s.bump)
         /\ \A i \in DOMAIN bl : s.count < i =>
               Before(ch, s.chunk, s.bump, bl[i].chunk, bl[i].lo)

(* Snapshot r was made before snapshot s.                                    *)
Older(ch, r, s) ==
    /\ r.count <= s.count
    /\ r.chunk # NoChunk =>
         s.chunk # NoChunk /\ Before(ch, r.chunk, r.bump, s.chunk, s.bump)

Nested(ch, sn) == \A k, m \in DOMAIN sn : k < m => Older(ch, sn[k], sn[m])

ArenaOK(ch, bp, bl, sn) ==
    /\ Held(ch, bp, bl) /\ Ordered(ch, bl) /\ Tight(ch, bp, bl)
    /\ \A k \in DOMAIN sn : SnapOK(ch, bp, bl, sn[k])
    /\ Nested(ch, sn)

IInv ==
    /\ TypeOK /\ ChunkOnOneList
    /\ \A a \in Arenas : ArenaOK(chain[a], bump, blocks[a], snaps[a])

USE ArenaAssumption, NoChunkIsNoChunk

-----------------------------------------------------------------------------
(* The order of the chunks of a chain.                                       *)
LEMMA InRange ==
    ASSUME NEW f, NEW x
    PROVE  x \in Range(f) <=> \E p \in DOMAIN f : f[p] = x
BY DEF Range

LEMMA SeqFacts ==
    ASSUME NEW S, NEW s \in Seq(S)
    PROVE  Len(s) \in Nat /\ DOMAIN s = 1 .. Len(s) /\ \A p \in DOMAIN s : p \in Int /\ s[p] \in S
BY LenProperties, ElementOfSeq

LEMMA BehindIn ==
    ASSUME NEW ch, NEW c, NEW d, Behind(ch, c, d)
    PROVE  c \in Range(ch) /\ d \in Range(ch)
BY InRange DEF Behind

LEMMA BehindStrict ==
    ASSUME NEW ch \in Seq(Chunks), Distinct(ch), NEW c, NEW d, Behind(ch, c, d)
    PROVE  ~ Behind(ch, d, c) /\ c # d
<1>1. \A p \in DOMAIN ch : p \in Int
    BY SeqFacts
<1>2. PICK p \in DOMAIN ch, q \in DOMAIN ch : ch[p] = c /\ ch[q] = d /\ q < p
    BY DEF Behind
<1>3. c # d
    BY <1>1, <1>2 DEF Distinct
<1>4. ASSUME Behind(ch, d, c) PROVE FALSE
    <2>1. PICK x \in DOMAIN ch, y \in DOMAIN ch : ch[x] = d /\ ch[y] = c /\ y < x
        BY <1>4 DEF Behind
    <2>2. x = q /\ y = p
        BY <1>2, <2>1 DEF Distinct
    <2> QED BY <1>1, <1>2, <2>1, <2>2
<1> QED BY <1>3, <1>4

(* A chunk becomes the current one.                                          *)
LEMMA Pushed ==
    ASSUME NEW ch \in Seq(Chunks), NEW c \in Chunks
    PROVE  /\ <<c>> \o ch \in Seq(Chunks)
           /\ Range(<<c>> \o ch) = Range(ch) \cup {c}
           /\ Head(<<c>> \o ch) = c /\ <<c>> \o ch # << >>
           /\ \A x, y : Behind(ch, x, y) => Behind(<<c>> \o ch, x, y)
           /\ \A x \in Range(ch) : Behind(<<c>> \o ch, x, c)
           /\ Distinct(ch) /\ c \notin Range(ch) => Distinct(<<c>> \o ch)
<1> DEFINE t == <<c>> \o ch
           n == Len(ch)
<1>1. n \in Nat /\ DOMAIN ch = 1 .. n
    BY SeqFacts
<1>2. <<c>> \in Seq(Chunks) /\ Len(<<c>>) = 1 /\ <<c>>[1] = c
    OBVIOUS
<1>3. /\ t \in Seq(Chunks) /\ Len(t) = 1 + n
      /\ \A i \in 1 .. 1 + n : t[i] = IF i <= 1 THEN <<c>>[i] ELSE ch[i - 1]
    BY <1>2, ConcatProperties
<1>4. DOMAIN t = 1 .. n + 1 /\ t # << >> /\ Len(t) = n + 1
    BY <1>1, <1>3, SeqFacts
<1>5. Head(t) = t[1]
    BY <1>3, <1>4
<1> HIDE DEF t, n
<1>6. t[1] = c
    <2>1. 1 \in 1 .. 1 + n /\ 1 <= 1
        BY <1>1
    <2> QED BY <1>2, <1>3, <2>1
<1>7. ASSUME NEW p \in 1 .. n PROVE p + 1 \in 1 .. n + 1 /\ t[p + 1] = ch[p]
    <2>1. p + 1 \in 1 .. 1 + n /\ p + 1 \in 1 .. n + 1 /\ ~ (p + 1 <= 1) /\ p + 1 - 1 = p
        BY <1>1
    <2> QED BY <1>3, <2>1
<1>8. ASSUME NEW p \in 1 .. n + 1, p # 1 PROVE p - 1 \in 1 .. n /\ t[p] = ch[p - 1] /\ p \in Int
    <2>1. p - 1 \in 1 .. n /\ p - 1 + 1 = p
        BY <1>1, <1>8
    <2> QED BY <1>7, <2>1
<1>9. Range(t) = Range(ch) \cup {c}
    <2>1. ASSUME NEW x \in Range(t), x # c PROVE x \in Range(ch)
        <3>1. PICK p \in 1 .. n + 1 : t[p] = x
            BY <1>4, InRange
        <3> QED BY <1>1, <1>6, <1>8, <2>1, <3>1, InRange
    <2>2. ASSUME NEW x \in Range(ch) PROVE x \in Range(t)
        <3>1. PICK p \in 1 .. n : ch[p] = x
            BY <1>1, InRange
        <3> QED BY <1>4, <1>7, <3>1, InRange
    <2>3. c \in Range(t)
        <3>1. 1 \in DOMAIN t
            BY <1>1, <1>4
        <3> QED BY <1>6, <3>1, InRange
    <2> QED BY <2>1, <2>2, <2>3
<1>10. ASSUME NEW x, NEW y, Behind(ch, x, y) PROVE Behind(t, x, y)
    <2>1. PICK p \in 1 .. n, q \in 1 .. n : ch[p] = x /\ ch[q] = y /\ q < p
        BY <1>1, <1>10 DEF Behind
    <2>2. p + 1 \in DOMAIN t /\ q + 1 \in DOMAIN t /\ t[p + 1] = x /\ t[q + 1] = y /\ q + 1 < p + 1
        BY <1>4, <1>7, <2>1
    <2> QED BY <2>2 DEF Behind
<1>11. ASSUME NEW x \in Range(ch) PROVE Behind(t, x, c)
    <2>1. PICK p \in 1 .. n : ch[p] = x
        BY <1>1, InRange
    <2>2. p + 1 \in DOMAIN t /\ 1 \in DOMAIN t /\ t[p + 1] = x /\ t[1] = c /\ 1 < p + 1
        BY <1>1, <1>4, <1>6, <1>7, <2>1
    <2> QED BY <2>2 DEF Behind
<1>12. ASSUME Distinct(ch), c \notin Range(ch) PROVE Distinct(t)
    <2> SUFFICES ASSUME NEW p \in 1 .. n + 1, NEW q \in 1 .. n + 1, t[p] = t[q] PROVE p = q
        BY <1>4 DEF Distinct
    <2>1. CASE p = 1 \/ q = 1
        BY <1>1, <1>6, <1>8, <1>12, <2>1, InRange
    <2>2. CASE p # 1 /\ q # 1
        <3>1. /\ p - 1 \in DOMAIN ch /\ q - 1 \in DOMAIN ch /\ ch[p - 1] = ch[q - 1]
              /\ p \in Int /\ q \in Int
            BY <1>1, <1>8, <2>2
        <3>2. p - 1 = q - 1
            BY <1>12, <3>1 DEF Distinct
        <3> QED BY <3>1, <3>2
    <2> QED BY <2>1, <2>2
<1>13. t \in Seq(Chunks) /\ Head(t) = c /\ t # << >>
    BY <1>3, <1>4, <1>5, <1>6
<1> QED BY <1>9, <1>10, <1>11, <1>12, <1>13 DEF t

(* What is left of a chain when the first k of its chunks are released.      *)
LEMMA Popped ==
    ASSUME NEW ch \in Seq(Chunks), Distinct(ch), NEW k \in 0 .. Len(ch)
    PROVE  /\ SubSeq(ch, k + 1, Len(ch)) \in Seq(Chunks) /\ Distinct(SubSeq(ch, k + 1, Len(ch)))
           /\ \A x : x \in Range(SubSeq(ch, k + 1, Len(ch)))
                       <=> \E p \in DOMAIN ch : p > k /\ ch[p] = x
           /\ \A x, y \in Range(SubSeq(ch, k + 1, Len(ch))) :
                 Behind(ch, x, y) => Behind(SubSeq(ch, k + 1, Len(ch)), x, y)
<1> DEFINE n == Len(ch)
           t == SubSeq(ch, k + 1, n)
<1>1. n \in Nat /\ DOMAIN ch = 1 .. n /\ k \in Nat /\ k <= n
    BY SeqFacts
<1>2. \A p \in k + 1 .. n : ch[p] \in Chunks
    <2>1. \A p \in k + 1 .. n : p \in DOMAIN ch
        BY <1>1
    <2> QED BY <2>1, SeqFacts
<1> HIDE DEF n
<1>3. /\ t \in Seq(Chunks) /\ Len(t) = IF k + 1 <= n THEN n - (k + 1) + 1 ELSE 0
      /\ \A p \in 1 .. n - (k + 1) + 1 : t[p] = ch[k + 1 + p - 1]
    <2>1. k + 1 \in Int /\ n \in Int
        BY <1>1
    <2> QED BY <1>2, <2>1, SubSeqProperties
<1>4. Len(t) = n - k
    BY <1>1, <1>3
<1>5. DOMAIN t = 1 .. n - k
    BY <1>3, <1>4, SeqFacts
<1>6. ASSUME NEW p \in 1 .. n - k PROVE t[p] = ch[k + p] /\ k + p \in 1 .. n /\ k + p > k /\ p \in Int
    <2>1. p \in 1 .. n - (k + 1) + 1 /\ k + 1 + p - 1 = k + p /\ k + p \in 1 .. n /\ k + p > k
        BY <1>1
    <2> QED BY <1>3, <2>1
<1>7. ASSUME NEW p \in 1 .. n, p > k PROVE p - k \in 1 .. n - k /\ t[p - k] = ch[p]
    <2>1. p - k \in 1 .. n - k /\ k + (p - k) = p
        BY <1>1, <1>7
    <2> QED BY <1>6, <2>1
<1> HIDE DEF t
<1>8. Distinct(t)
    <2> SUFFICES ASSUME NEW p \in 1 .. n - k, NEW q \in 1 .. n - k, t[p] = t[q] PROVE p = q
        BY <1>5 DEF Distinct
    <2>1. k + p = k + q /\ p \in Int /\ q \in Int
        BY <1>1, <1>6 DEF Distinct
    <2> QED BY <1>1, <2>1
<1>9. ASSUME NEW x PROVE x \in Range(t) <=> \E p \in DOMAIN ch : p > k /\ ch[p] = x
    <2>1. ASSUME x \in Range(t) PROVE \E p \in DOMAIN ch : p > k /\ ch[p] = x
        <3>1. PICK p \in 1 .. n - k : t[p] = x
            BY <1>5, <2>1, InRange
        <3> QED BY <1>1, <1>6, <3>1
    <2>2. ASSUME NEW p \in DOMAIN ch, p > k, ch[p] = x PROVE x \in Range(t)
        BY <1>1, <1>5, <1>7, <2>2, InRange
    <2> QED BY <2>1, <2>2
<1>10. ASSUME NEW x \in Range(t), NEW y \in Range(t), Behind(ch, x, y) PROVE Behind(t, x, y)
    <2>1. PICK p \in DOMAIN ch, q \in DOMAIN ch : ch[p] = x /\ ch[q] = y /\ q < p
        BY <1>10 DEF Behind
    <2>2. PICK i \in DOMAIN ch : i > k /\ ch[i] = x
        BY <1>9
    <2>3. PICK j \in DOMAIN ch : j > k /\ ch[j] = y
        BY <1>9
    <2>4. i = p /\ j = q
        BY <2>1, <2>2, <2>3 DEF Distinct
    <2>5. p - k \in DOMAIN t /\ q - k \in DOMAIN t /\ t[p - k] = x /\ t[q - k] = y
        BY <1>1, <1>5, <1>7, <2>1, <2>2, <2>3, <2>4
    <2>6. q - k < p - k
        BY <1>1, <2>1
    <2> QED BY <2>5, <2>6 DEF Behind
<1> QED BY <1>3, <1>8, <1>9, <1>10 DEF t, n

LEMMA HeadIsNewest ==
    ASSUME NEW ch \in Seq(Chunks), ch # << >>, NEW c \in Range(ch)
    PROVE  Head(ch) \in Range(ch) /\ (c = Head(ch) \/ Behind(ch, c, Head(ch)))
<1>1. Head(ch) = ch[1] /\ 1 \in DOMAIN ch /\ \A p \in DOMAIN ch : p = 1 \/ 1 < p
    BY EmptySeq
<1>2. PICK p \in DOMAIN ch : ch[p] = c
    BY InRange
<1>3. p = 1 \/ Behind(ch, c, Head(ch))
    BY <1>1, <1>2 DEF Behind
<1> QED BY <1>1, <1>2, <1>3, InRange

-----------------------------------------------------------------------------
(* What keeps the blocks and the snapshots of an arena in order.             *)
Types(ch, bp, bl, sn) ==
    ch \in Seq(Chunks) /\ bp \in [Chunks -> Nat] /\ bl \in Seq(Block) /\ sn \in Seq(Snap)

(* The bump pointers of other arenas' chunks and of free ones do not matter. *)
LEMMA Framed ==
    ASSUME NEW ch, NEW bp, NEW bl, NEW sn, NEW new, \A c \in Range(ch) : new[c] = bp[c],
           ArenaOK(ch, bp, bl, sn)
    PROVE  ArenaOK(ch, new, bl, sn)
<1>1. Held(ch, new, bl)
    BY DEF ArenaOK, Held
<1>2. Tight(ch, new, bl)
    BY DEF ArenaOK, Tight
<1>3. ASSUME NEW k \in DOMAIN sn PROVE SnapOK(ch, new, bl, sn[k])
    BY DEF ArenaOK, SnapOK
<1> QED BY <1>1, <1>2, <1>3 DEF ArenaOK

(* A chunk with an empty body becomes the current one.                       *)
LEMMA ChunkAdded ==
    ASSUME NEW ch, NEW bp, NEW bl, NEW sn, NEW new, NEW c \in Chunks, Types(ch, bp, bl, sn),
           c \notin Range(ch), new[c] = Header, \A d \in Range(ch) : new[d] = bp[d],
           ArenaOK(ch, bp, bl, sn)
    PROVE  ArenaOK(<<c>> \o ch, new, bl, sn)
<1> DEFINE t == <<c>> \o ch
<1>1. ArenaOK(ch, new, bl, sn)
    BY Framed
<1>2. Range(t) = Range(ch) \cup {c} /\ \A x, y : Behind(ch, x, y) => Behind(t, x, y)
    BY Pushed DEF Types
<1> HIDE DEF t
<1>3. ASSUME NEW x, NEW e, NEW y, NEW b, Before(ch, x, e, y, b) PROVE Before(t, x, e, y, b)
    BY <1>2, <1>3 DEF Before
<1>4. Held(t, new, bl)
    <2>1. \A d \in Range(t) : Header <= new[d]
        <3>1. Header <= Header
            OBVIOUS
        <3> QED BY <1>1, <1>2, <3>1 DEF ArenaOK, Held
    <2>2. \A i \in DOMAIN bl :
             bl[i].chunk \in Range(t) /\ Header <= bl[i].lo /\ bl[i].hi <= new[bl[i].chunk]
        BY <1>1, <1>2 DEF ArenaOK, Held
    <2> QED BY <2>1, <2>2 DEF Held
<1>5. Ordered(t, bl)
    BY <1>1, <1>3 DEF ArenaOK, Ordered
<1>6. Tight(t, new, bl)
    <2>1. EndsAt(bl, Len(bl), c, new[c])
        BY DEF EndsAt
    <2> QED BY <1>1, <1>2, <2>1 DEF ArenaOK, Tight
<1>7. ASSUME NEW k \in DOMAIN sn PROVE SnapOK(t, new, bl, sn[k])
    <2>1. SnapOK(ch, new, bl, sn[k])
        BY <1>1 DEF ArenaOK
    <2> QED BY <1>2, <1>3, <2>1 DEF SnapOK
<1>8. Nested(t, sn)
    BY <1>1, <1>3 DEF ArenaOK, Nested, Older
<1>9. ArenaOK(t, new, bl, sn)
    BY <1>4, <1>5, <1>6, <1>7, <1>8 DEF ArenaOK
<1> QED BY <1>9 DEF t

(* A block is placed in the current chunk.                                   *)
LEMMA BlockPlaced ==
    ASSUME NEW ch, NEW bp, NEW bl, NEW sn, NEW new, NEW c, NEW lo \in Nat, NEW hi \in Nat,
           Types(ch, bp, bl, sn), Distinct(ch), ch # << >>, c = Head(ch),
           bp[c] <= lo, lo <= hi, new[c] = hi, \A d \in Range(ch) : d # c => new[d] = bp[d],
           ArenaOK(ch, bp, bl, sn)
    PROVE  ArenaOK(ch, new, Append(bl, [chunk |-> c, lo |-> lo, hi |-> hi]), sn)
<1> DEFINE n == Len(bl)
           b == [chunk |-> c, lo |-> lo, hi |-> hi]
           t == Append(bl, b)
<1>1. c \in Range(ch) /\ \A d \in Range(ch) : d = c \/ Behind(ch, d, c)
    <2>1. ch \in Seq(Chunks)
        BY DEF Types
    <2>2. Head(ch) = ch[1] /\ 1 \in DOMAIN ch
        BY <2>1, EmptySeq
    <2>3. c \in Range(ch)
        BY <2>2, InRange
    <2> QED BY <2>1, <2>3, HeadIsNewest
<1>2. c \in Chunks /\ bp[c] \in Nat
    <2>1. \A p \in DOMAIN ch : ch[p] \in Chunks
        BY SeqFacts DEF Types
    <2> QED BY <1>1, <2>1, InRange DEF Types
<1>3. n \in Nat /\ DOMAIN bl = 1 .. n /\ \A i \in DOMAIN bl : bl[i] \in Block
    BY SeqFacts DEF Types
<1>4. b \in Block /\ b.chunk = c /\ b.lo = lo /\ b.hi = hi
    BY <1>2 DEF Block
<1> HIDE DEF b
<1>5. /\ t \in Seq(Block) /\ Len(t) = n + 1 /\ t[n + 1] = b
      /\ \A i \in 1 .. n : t[i] = bl[i]
    BY <1>4, AppendProperties DEF Types
<1>6. DOMAIN t = 1 .. n + 1
    BY <1>3, <1>5, SeqFacts
<1> HIDE DEF n, t
<1>7. \A i \in DOMAIN t : (i \in DOMAIN bl /\ t[i] = bl[i]) \/ (i = n + 1 /\ t[i] = b)
    BY <1>3, <1>5, <1>6
<1>8. \A i \in DOMAIN bl : i \in DOMAIN t /\ i < n + 1 /\ i <= n /\ t[i] = bl[i]
    BY <1>3, <1>5, <1>6
<1>9. \A d \in Range(ch) : bp[d] \in Nat
    <2>1. \A p \in DOMAIN ch : ch[p] \in Chunks
        BY SeqFacts DEF Types
    <2> QED BY <2>1, InRange DEF Types
<1>10. /\ \A i \in DOMAIN bl : bl[i].hi \in Nat /\ bl[i].lo \in Nat
       /\ \A i \in DOMAIN bl : bl[i].chunk \in Range(ch) /\ bl[i].hi <= bp[bl[i].chunk] /\ Header <= bl[i].lo
       /\ \A d \in Range(ch) : Header <= bp[d]
    BY <1>3 DEF Block, ArenaOK, Held
<1>11. ASSUME NEW d \in Range(ch) PROVE bp[d] <= new[d]
    <2>1. CASE d = c
        BY <1>2, <2>1
    <2>2. CASE d # c
        BY <1>9, <2>2
    <2> QED BY <2>1, <2>2
<1>12. Held(ch, new, t)
    <2>1. ASSUME NEW d \in Range(ch) PROVE Header <= new[d]
        <3>1. CASE d = c
            BY <1>2, <1>10, <3>1
        <3>2. CASE d # c
            BY <1>10, <3>2
        <3> QED BY <3>1, <3>2
    <2>2. ASSUME NEW i \in DOMAIN t
          PROVE  t[i].chunk \in Range(ch) /\ Header <= t[i].lo /\ t[i].hi <= new[t[i].chunk]
        <3>1. CASE i \in DOMAIN bl /\ t[i] = bl[i]
            <4>1. CASE bl[i].chunk = c
                <5>1. bl[i].hi <= bp[c] /\ bl[i].hi \in Nat
                    BY <1>10, <3>1, <4>1
                <5>2. bl[i].hi <= hi
                    BY <1>2, <5>1
                <5> QED BY <1>10, <3>1, <4>1, <5>2
            <4>2. CASE bl[i].chunk # c
                BY <1>10, <3>1, <4>2
            <4> QED BY <4>1, <4>2
        <3>2. CASE i = n + 1 /\ t[i] = b
            <4>1. Header <= lo /\ hi <= hi
                BY <1>1, <1>2, <1>10
            <4> QED BY <1>1, <1>4, <3>2, <4>1
        <3> QED BY <1>7, <3>1, <3>2
    <2> QED BY <2>1, <2>2 DEF Held
<1>13. ASSUME NEW i \in DOMAIN bl PROVE Before(ch, bl[i].chunk, bl[i].hi, c, lo)
    <2>1. CASE bl[i].chunk = c
        <3>1. bl[i].hi <= bp[c] /\ bl[i].hi \in Nat
            BY <1>10, <2>1
        <3>2. bl[i].hi <= lo
            BY <1>2, <3>1
        <3> QED BY <2>1, <3>2 DEF Before
    <2>2. CASE bl[i].chunk # c
        BY <1>1, <1>10, <2>2 DEF Before
    <2> QED BY <2>1, <2>2
<1>14. Ordered(ch, t)
    <2> SUFFICES ASSUME NEW i \in DOMAIN t, NEW j \in DOMAIN t, i < j
                 PROVE  Before(ch, t[i].chunk, t[i].hi, t[j].chunk, t[j].lo)
        BY DEF Ordered
    <2>1. i \in DOMAIN bl
        BY <1>3, <1>6
    <2>2. CASE j \in DOMAIN bl
        BY <1>8, <2>1, <2>2 DEF ArenaOK, Ordered
    <2>3. CASE j = n + 1
        BY <1>4, <1>5, <1>8, <1>13, <2>1, <2>3
    <2> QED BY <1>7, <2>2, <2>3
<1>15. ASSUME NEW m, NEW d, NEW e, EndsAt(bl, m, d, e) PROVE EndsAt(t, m, d, e)
    BY <1>8, <1>15 DEF EndsAt
<1>16. Tight(ch, new, t)
    <2> SUFFICES ASSUME NEW d \in Range(ch) PROVE EndsAt(t, n + 1, d, new[d])
        BY <1>5 DEF Tight
    <2>1. CASE d = c
        <3>1. n + 1 \in DOMAIN t /\ n + 1 <= n + 1 /\ t[n + 1].chunk = c /\ t[n + 1].hi = hi
            BY <1>3, <1>4, <1>5, <1>6
        <3> QED BY <2>1, <3>1 DEF EndsAt
    <2>2. CASE d # c
        <3>1. new[d] = Header \/ \E i \in DOMAIN bl : bl[i].chunk = d /\ bl[i].hi = new[d]
            BY <2>2 DEF ArenaOK, Tight, EndsAt
        <3>2. \A i \in DOMAIN bl : i <= n + 1
            BY <1>3
        <3> QED BY <1>8, <3>1, <3>2 DEF EndsAt
    <2> QED BY <2>1, <2>2
<1>17. ASSUME NEW k \in DOMAIN sn PROVE SnapOK(ch, new, t, sn[k])
    <2> DEFINE s == sn[k]
    <2>1. SnapOK(ch, bp, bl, s) /\ s \in Snap
        BY SeqFacts DEF ArenaOK, Types
    <2> HIDE DEF s
    <2>2. s.count <= Len(t) /\ s.count <= n /\ s.count \in Nat /\ s.bump \in Nat
        BY <1>3, <1>5, <2>1 DEF SnapOK, Snap, n
    <2>3. ASSUME s.chunk # NoChunk
          PROVE  /\ s.chunk \in Range(ch) /\ Header <= s.bump /\ s.bump <= new[s.chunk]
                 /\ EndsAt(t, s.count, s.chunk, s.bump)
                 /\ \A i \in DOMAIN t : i <= s.count =>
                       Before(ch, t[i].chunk, t[i].hi, s.chunk, s.bump)
                 /\ \A i \in DOMAIN t : s.count < i =>
                       Before(ch, s.chunk, s.bump, t[i].chunk, t[i].lo)
        <3>1. /\ s.chunk \in Range(ch) /\ Header <= s.bump /\ s.bump <= bp[s.chunk]
              /\ EndsAt(bl, s.count, s.chunk, s.bump)
              /\ \A i \in DOMAIN bl : i <= s.count =>
                    Before(ch, bl[i].chunk, bl[i].hi, s.chunk, s.bump)
              /\ \A i \in DOMAIN bl : s.count < i =>
                    Before(ch, s.chunk, s.bump, bl[i].chunk, bl[i].lo)
            BY <2>1, <2>3 DEF SnapOK
        <3>2. s.bump <= new[s.chunk]
            <4>1. CASE s.chunk = c
                <5>1. s.bump <= bp[c]
                    BY <3>1, <4>1
                <5>2. s.bump <= hi
                    BY <1>2, <2>2, <5>1
                <5> QED BY <4>1, <5>2
            <4>2. CASE s.chunk # c
                BY <3>1, <4>2
            <4> QED BY <4>1, <4>2
        <3>3. ASSUME NEW i \in DOMAIN t, i <= s.count
              PROVE  Before(ch, t[i].chunk, t[i].hi, s.chunk, s.bump)
            <4>1. i \in DOMAIN bl
                BY <1>3, <1>6, <2>2, <3>3
            <4> QED BY <1>8, <3>1, <3>3, <4>1
        <3>4. ASSUME NEW i \in DOMAIN t, s.count < i
              PROVE  Before(ch, s.chunk, s.bump, t[i].chunk, t[i].lo)
            <4>1. CASE i \in DOMAIN bl
                BY <1>8, <3>1, <3>4, <4>1
            <4>2. CASE i = n + 1 /\ t[i] = b
                <5>1. Before(ch, s.chunk, s.bump, c, lo)
                    <6>1. CASE s.chunk = c
                        <7>1. s.bump <= bp[c]
                            BY <3>1, <6>1
                        <7>2. s.bump <= lo
                            BY <1>2, <2>2, <7>1
                        <7> QED BY <6>1, <7>2 DEF Before
                    <6>2. CASE s.chunk # c
                        BY <1>1, <3>1, <6>2 DEF Before
                    <6> QED BY <6>1, <6>2
                <5> QED BY <1>4, <4>2, <5>1
            <4> QED BY <1>7, <4>1, <4>2
        <3> QED BY <1>15, <3>1, <3>2, <3>3, <3>4
    <2>4. s.chunk = NoChunk => s.count = 0
        BY <2>1 DEF SnapOK
    <2>5. SnapOK(ch, new, t, s)
        BY <2>2, <2>3, <2>4 DEF SnapOK
    <2> QED BY <2>5 DEF s
<1>18. ArenaOK(ch, new, t, sn)
    BY <1>12, <1>14, <1>16, <1>17 DEF ArenaOK
<1> QED BY <1>18 DEF t, b

LEMMA Prefix ==
    ASSUME NEW S, NEW s \in Seq(S), NEW n \in 0 .. Len(s)
    PROVE  /\ SubSeq(s, 1, n) \in Seq(S) /\ Len(SubSeq(s, 1, n)) = n
           /\ DOMAIN SubSeq(s, 1, n) = 1 .. n
           /\ \A j \in 1 .. n : j \in DOMAIN s /\ SubSeq(s, 1, n)[j] = s[j]
<1> DEFINE t == SubSeq(s, 1, n)
<1>1. n \in Nat /\ n <= Len(s) /\ \A j \in 1 .. n : j \in DOMAIN s
    BY SeqFacts
<1>2. \A j \in 1 .. n : s[j] \in S
    BY <1>1, SeqFacts
<1>3. /\ t \in Seq(S) /\ Len(t) = IF 1 <= n THEN n - 1 + 1 ELSE 0
      /\ \A j \in 1 .. n - 1 + 1 : t[j] = s[1 + j - 1]
    BY <1>1, <1>2, SubSeqProperties
<1>4. Len(t) = n
    BY <1>1, <1>3
<1>5. DOMAIN t = 1 .. n
    BY <1>3, <1>4, SeqFacts
<1>6. ASSUME NEW j \in 1 .. n PROVE t[j] = s[j]
    <2>1. j \in 1 .. n - 1 + 1 /\ 1 + j - 1 = j
        BY <1>1
    <2> QED BY <1>3, <2>1
<1> QED BY <1>1, <1>3, <1>4, <1>5, <1>6

(* A snapshot is taken.                                                      *)
LEMMA SnapshotTaken ==
    ASSUME NEW ch, NEW bp, NEW bl, NEW sn, NEW s \in Snap,
           Types(ch, bp, bl, sn), ArenaOK(ch, bp, bl, sn), s.count = Len(bl),
           ch = << >> => s.chunk = NoChunk,
           ch # << >> => s.chunk = Head(ch) /\ s.bump = bp[s.chunk]
    PROVE  ArenaOK(ch, bp, bl, Append(sn, s))
<1> DEFINE t == Append(sn, s)
           n == Len(sn)
<1>1. n \in Nat /\ DOMAIN sn = 1 .. n /\ \A k \in DOMAIN sn : sn[k] \in Snap
    BY SeqFacts DEF Types
<1>2. t \in Seq(Snap) /\ Len(t) = n + 1 /\ t[n + 1] = s /\ \A k \in 1 .. n : t[k] = sn[k]
    BY AppendProperties DEF Types
<1>3. DOMAIN t = 1 .. n + 1
    BY <1>2, SeqFacts
<1> HIDE DEF t, n
<1>4. \A k \in DOMAIN t : (k \in DOMAIN sn /\ t[k] = sn[k]) \/ (k = n + 1 /\ t[k] = s)
    BY <1>1, <1>2, <1>3
<1>5. DOMAIN bl = 1 .. Len(bl) /\ Len(bl) \in Nat
    BY SeqFacts DEF Types
<1>6. /\ \A i \in DOMAIN bl : bl[i].chunk \in Range(ch) /\ bl[i].hi <= bp[bl[i].chunk]
      /\ \A d \in Range(ch) : Header <= bp[d] /\ EndsAt(bl, Len(bl), d, bp[d])
    BY DEF ArenaOK, Held, Tight
<1>7. CASE ch = << >>
    <2>1. \A x : x \notin Range(ch)
        BY <1>7, InRange
    <2>2. Len(bl) = 0
        <3>1. 1 \notin DOMAIN bl
            BY <1>6, <2>1
        <3> QED BY <1>5, <3>1
    <2>3. SnapOK(ch, bp, bl, s)
        BY <1>7, <2>2 DEF SnapOK
    <2>4. \A k \in DOMAIN sn : sn[k].chunk = NoChunk /\ sn[k].count = 0
        BY <2>1 DEF ArenaOK, SnapOK
    <2>5. Nested(ch, t)
        <3>1. \A k \in DOMAIN t : t[k].chunk = NoChunk /\ t[k].count = 0
            BY <1>4, <1>7, <2>2, <2>4
        <3>2. 0 <= 0
            OBVIOUS
        <3> QED BY <3>1, <3>2 DEF Nested, Older
    <2>6. ASSUME NEW k \in DOMAIN t PROVE SnapOK(ch, bp, bl, t[k])
        BY <1>4, <2>3 DEF ArenaOK
    <2>7. ArenaOK(ch, bp, bl, t)
        BY <2>5, <2>6 DEF ArenaOK
    <2> QED BY <2>7 DEF t
<1>8. CASE ch # << >>
    <2>1. /\ s.chunk \in Range(ch) /\ s.bump = bp[s.chunk]
          /\ \A d \in Range(ch) : d = s.chunk \/ Behind(ch, d, s.chunk)
        <3>1. Head(ch) = ch[1] /\ 1 \in DOMAIN ch
            BY <1>8, EmptySeq DEF Types
        <3>2. s.chunk \in Range(ch)
            BY <1>8, <3>1, InRange
        <3> QED BY <1>8, <3>2, HeadIsNewest DEF Types
    <2>2. s.chunk # NoChunk /\ s.bump \in Nat
        <3>1. \A p \in DOMAIN ch : ch[p] \in Chunks
            BY SeqFacts DEF Types
        <3>2. s.chunk \in Chunks
            BY <2>1, <3>1, InRange
        <3> QED BY <2>1, <3>2 DEF Types
    <2>3. ASSUME NEW d \in Range(ch), NEW e, e <= bp[d] PROVE Before(ch, d, e, s.chunk, s.bump)
        BY <2>1, <2>3 DEF Before
    <2>4. SnapOK(ch, bp, bl, s)
        <3>1. s.count <= Len(bl) /\ s.bump <= bp[s.chunk] /\ Header <= s.bump
            BY <1>5, <1>6, <2>1, <2>2
        <3>2. \A i \in DOMAIN bl : i <= s.count /\ ~ (s.count < i)
            BY <1>5
        <3>3. EndsAt(bl, s.count, s.chunk, s.bump)
            BY <1>6, <2>1
        <3>4. \A i \in DOMAIN bl : Before(ch, bl[i].chunk, bl[i].hi, s.chunk, s.bump)
            BY <1>6, <2>3
        <3> QED BY <2>1, <2>2, <3>1, <3>2, <3>3, <3>4 DEF SnapOK
    <2>5. ASSUME NEW k \in DOMAIN sn PROVE Older(ch, sn[k], s)
        <3>1. SnapOK(ch, bp, bl, sn[k])
            BY DEF ArenaOK
        <3>2. sn[k].count <= s.count
            BY <3>1 DEF SnapOK
        <3>3. sn[k].chunk # NoChunk => Before(ch, sn[k].chunk, sn[k].bump, s.chunk, s.bump)
            BY <2>3, <3>1 DEF SnapOK
        <3> QED BY <2>2, <3>2, <3>3 DEF Older
    <2>6. Nested(ch, t)
        <3> SUFFICES ASSUME NEW k \in DOMAIN t, NEW m \in DOMAIN t, k < m
                     PROVE  Older(ch, t[k], t[m])
            BY DEF Nested
        <3>1. k \in DOMAIN sn /\ t[k] = sn[k]
            BY <1>1, <1>2, <1>3
        <3>2. CASE m \in DOMAIN sn /\ t[m] = sn[m]
            BY <3>1, <3>2 DEF ArenaOK, Nested
        <3>3. CASE m = n + 1 /\ t[m] = s
            BY <2>5, <3>1, <3>3
        <3> QED BY <1>4, <3>2, <3>3
    <2>7. ASSUME NEW k \in DOMAIN t PROVE SnapOK(ch, bp, bl, t[k])
        BY <1>4, <2>4 DEF ArenaOK
    <2>8. ArenaOK(ch, bp, bl, t)
        BY <2>6, <2>7 DEF ArenaOK
    <2> QED BY <2>8 DEF t
<1> QED BY <1>7, <1>8

(* The newest snapshots are given up.                                        *)
LEMMA SnapshotsForgotten ==
    ASSUME NEW ch, NEW bp, NEW bl, NEW sn, Types(ch, bp, bl, sn), ArenaOK(ch, bp, bl, sn),
           NEW n \in 0 .. Len(sn)
    PROVE  ArenaOK(ch, bp, bl, SubSeq(sn, 1, n))
<1> DEFINE t == SubSeq(sn, 1, n)
<1>1. DOMAIN t = 1 .. n /\ \A j \in 1 .. n : j \in DOMAIN sn /\ t[j] = sn[j]
    BY Prefix DEF Types
<1> HIDE DEF t
<1>2. Nested(ch, t)
    BY <1>1 DEF ArenaOK, Nested
<1>3. ASSUME NEW k \in DOMAIN t PROVE SnapOK(ch, bp, bl, t[k])
    BY <1>1 DEF ArenaOK
<1>4. ArenaOK(ch, bp, bl, t)
    BY <1>2, <1>3 DEF ArenaOK
<1> QED BY <1>4 DEF t

(* What mara_arena_restore makes of the chain ch: the chunks in front of     *)
(* the snapshot's chunk c go, and the bump pointer of c goes back to b.      *)
CutAt(ch, bp, c, b, t, new) ==
    /\ \A x : x \in Range(t) <=> (x = c \/ Behind(ch, x, c))
    /\ \A x, y \in Range(t) : Behind(ch, x, y) => Behind(t, x, y)
    /\ new[c] = b /\ \A d \in Range(ch) : d # c => new[d] = bp[d]

(* The last of the remaining snapshots is restored: the blocks that are      *)
(* newer go too.                                                             *)
LEMMA SnapshotRestored ==
    ASSUME NEW ch, NEW bp, NEW bl, NEW sn, NEW new, NEW t, NEW s \in Snap,
           Types(ch, bp, bl, sn), Distinct(ch), ArenaOK(ch, bp, bl, sn),
           SnapOK(ch, bp, bl, s), s.chunk # NoChunk,
           \A k \in DOMAIN sn : sn[k] = s \/ Older(ch, sn[k], s),
           CutAt(ch, bp, s.chunk, s.bump, t, new)
    PROVE  ArenaOK(t, new, SubSeq(bl, 1, s.count), sn)
<1> USE DEF CutAt
<1> DEFINE r == SubSeq(bl, 1, s.count)
           c == s.chunk
           n == s.count
<1>1. n \in Nat /\ n <= Len(bl) /\ n \in 0 .. Len(bl) /\ s.bump \in Nat /\ Len(bl) \in Nat
    <2>1. n \in Nat /\ s.bump \in Nat /\ n <= Len(bl)
        BY DEF Snap, SnapOK
    <2>2. Len(bl) \in Nat
        BY SeqFacts DEF Types
    <2> QED BY <2>1, <2>2
<1>2. /\ Len(r) = n /\ DOMAIN r = 1 .. n
      /\ \A j \in 1 .. n : j \in DOMAIN bl /\ r[j] = bl[j]
    BY <1>1, Prefix DEF Types
<1>3. /\ c \in Range(ch) /\ Header <= s.bump /\ s.bump <= bp[c]
      /\ EndsAt(bl, n, c, s.bump)
      /\ \A i \in DOMAIN bl : i <= n => Before(ch, bl[i].chunk, bl[i].hi, c, s.bump)
      /\ \A i \in DOMAIN bl : n < i => Before(ch, c, s.bump, bl[i].chunk, bl[i].lo)
    BY DEF SnapOK
<1> HIDE DEF r, c, n
<1>4. /\ \A x : x \in Range(t) <=> (x = c \/ Behind(ch, x, c))
      /\ new[c] = s.bump /\ \A d \in Range(ch) : d # c => new[d] = bp[d]
    BY DEF c
<1>5. \A x \in Range(t) : x \in Range(ch)
    BY <1>3, <1>4, BehindIn
<1>6. \A x, y : Behind(ch, x, y) => ~ Behind(ch, y, x) /\ x # y
    BY BehindStrict DEF Types
<1>7. ASSUME NEW x, NEW e, NEW y \in Range(t), NEW b, x \in Range(t), Before(ch, x, e, y, b)
      PROVE  Before(t, x, e, y, b)
    BY <1>7 DEF Before
<1>8. ASSUME NEW x, NEW e, Before(ch, x, e, c, s.bump)
      PROVE  x \in Range(t) /\ (x = c => e <= s.bump) /\ (x # c => Behind(ch, x, c))
    BY <1>4, <1>6, <1>8 DEF Before
<1>9. \A i \in DOMAIN r : i \in DOMAIN bl /\ i <= n /\ r[i] = bl[i] /\ i \in Int
    BY <1>1, <1>2
<1>10. ASSUME NEW i \in DOMAIN r PROVE r[i].chunk \in Range(t) /\ r[i].hi <= new[r[i].chunk]
    <2>1. Before(ch, r[i].chunk, r[i].hi, c, s.bump)
        BY <1>3, <1>9
    <2>2. r[i].chunk \in Range(t) /\ (r[i].chunk = c => r[i].hi <= s.bump)
        BY <1>8, <2>1
    <2>3. r[i].chunk # c => r[i].hi <= bp[r[i].chunk] /\ new[r[i].chunk] = bp[r[i].chunk]
        BY <1>4, <1>5, <1>9, <2>2 DEF ArenaOK, Held
    <2> QED BY <1>4, <2>2, <2>3
<1>11. Held(t, new, r)
    <2>1. ASSUME NEW d \in Range(t) PROVE Header <= new[d]
        <3>1. CASE d = c
            BY <1>3, <1>4, <3>1
        <3>2. CASE d # c
            BY <1>4, <1>5, <3>2 DEF ArenaOK, Held
        <3> QED BY <3>1, <3>2
    <2>2. \A i \in DOMAIN r : Header <= r[i].lo
        BY <1>9 DEF ArenaOK, Held
    <2> QED BY <1>10, <2>1, <2>2 DEF Held
<1>12. Ordered(t, r)
    <2> SUFFICES ASSUME NEW i \in DOMAIN r, NEW j \in DOMAIN r, i < j
                 PROVE  Before(t, r[i].chunk, r[i].hi, r[j].chunk, r[j].lo)
        BY DEF Ordered
    <2>1. Before(ch, r[i].chunk, r[i].hi, r[j].chunk, r[j].lo)
        BY <1>9 DEF ArenaOK, Ordered
    <2> QED BY <1>7, <1>10, <2>1
<1>13. ASSUME NEW d, NEW m \in Nat, NEW e, m <= n, EndsAt(bl, m, d, e) PROVE EndsAt(r, m, d, e)
    <2>1. CASE e = Header
        BY <2>1 DEF EndsAt
    <2>2. CASE e # Header
        <3>1. PICK i \in DOMAIN bl : i <= m /\ bl[i].chunk = d /\ bl[i].hi = e
            BY <1>13, <2>2 DEF EndsAt
        <3>2. i \in DOMAIN r /\ r[i] = bl[i]
            <4>1. i \in 1 .. Len(bl)
                BY SeqFacts DEF Types
            <4>2. i \in 1 .. n
                BY <1>1, <1>13, <3>1, <4>1
            <4> QED BY <1>2, <4>2
        <3> QED BY <3>1, <3>2 DEF EndsAt
    <2> QED BY <2>1, <2>2
<1>14. Tight(t, new, r)
    <2> SUFFICES ASSUME NEW d \in Range(t) PROVE EndsAt(r, n, d, new[d])
        BY <1>2 DEF Tight
    <2>1. CASE d = c
        <3>1. n <= n
            BY <1>1
        <3> QED BY <1>1, <1>3, <1>4, <1>13, <2>1, <3>1
    <2>2. CASE d # c
        <3>1. d \in Range(ch) /\ new[d] = bp[d] /\ Behind(ch, d, c)
            BY <1>4, <1>5, <2>2
        <3>2. bp[d] = Header \/ \E i \in DOMAIN bl : bl[i].chunk = d /\ bl[i].hi = bp[d]
            BY <3>1 DEF ArenaOK, Tight, EndsAt
        <3>3. ASSUME NEW i \in DOMAIN bl, bl[i].chunk = d PROVE i <= n
            <4>1. ASSUME n < i PROVE FALSE
                <5>1. Before(ch, c, s.bump, d, bl[i].lo)
                    BY <1>3, <3>3, <4>1
                <5>2. Behind(ch, c, d)
                    BY <2>2, <5>1 DEF Before
                <5> QED BY <1>6, <3>1, <5>2
            <4>2. i \in Int
                BY SeqFacts DEF Types
            <4> QED BY <1>1, <4>1, <4>2
        <3>4. EndsAt(bl, n, d, bp[d])
            BY <3>2, <3>3 DEF EndsAt
        <3>5. n <= n
            BY <1>1
        <3>6. EndsAt(r, n, d, bp[d])
            BY <1>1, <1>13, <3>4, <3>5
        <3> QED BY <3>1, <3>6
    <2> QED BY <2>1, <2>2
<1>15. ASSUME NEW k \in DOMAIN sn
       PROVE  /\ sn[k].count <= n
              /\ sn[k].chunk # NoChunk =>
                   sn[k].chunk \in Range(t) /\ sn[k].bump <= new[sn[k].chunk]
    <2>1. CASE sn[k] = s
        <3>1. n <= n /\ s.bump <= s.bump
            BY <1>1
        <3> QED BY <1>4, <2>1, <3>1 DEF n, c
    <2>2. CASE Older(ch, sn[k], s)
        <3>1. sn[k].count <= n
            BY <2>2 DEF Older, n
        <3>2. ASSUME sn[k].chunk # NoChunk
              PROVE  sn[k].chunk \in Range(t) /\ sn[k].bump <= new[sn[k].chunk]
            <4>1. Before(ch, sn[k].chunk, sn[k].bump, c, s.bump)
                BY <2>2, <3>2 DEF Older, c
            <4>2. /\ sn[k].chunk \in Range(t)
                  /\ sn[k].chunk = c => sn[k].bump <= s.bump
                BY <1>8, <4>1
            <4>3. sn[k].bump <= bp[sn[k].chunk]
                BY <3>2 DEF ArenaOK, SnapOK
            <4>4. sn[k].chunk # c => new[sn[k].chunk] = bp[sn[k].chunk]
                BY <1>4, <1>5, <4>2
            <4> QED BY <1>4, <4>2, <4>3, <4>4
        <3> QED BY <3>1, <3>2
    <2> QED BY <2>1, <2>2
<1>16. ASSUME NEW k \in DOMAIN sn PROVE SnapOK(t, new, r, sn[k])
    <2>0. sn[k] \in Snap
        BY SeqFacts DEF Types
    <2>1. SnapOK(ch, bp, bl, sn[k]) /\ sn[k].count \in Nat
        BY <2>0 DEF ArenaOK, Snap
    <2>2. sn[k].count <= Len(r) /\ (sn[k].chunk = NoChunk => sn[k].count = 0)
        BY <1>2, <1>15, <2>1 DEF SnapOK
    <2>3. ASSUME sn[k].chunk # NoChunk
          PROVE  /\ EndsAt(r, sn[k].count, sn[k].chunk, sn[k].bump)
                 /\ \A i \in DOMAIN r : i <= sn[k].count =>
                       Before(t, r[i].chunk, r[i].hi, sn[k].chunk, sn[k].bump)
                 /\ \A i \in DOMAIN r : sn[k].count < i =>
                       Before(t, sn[k].chunk, sn[k].bump, r[i].chunk, r[i].lo)
        <3>1. /\ EndsAt(bl, sn[k].count, sn[k].chunk, sn[k].bump)
              /\ \A i \in DOMAIN bl : i <= sn[k].count =>
                    Before(ch, bl[i].chunk, bl[i].hi, sn[k].chunk, sn[k].bump)
              /\ \A i \in DOMAIN bl : sn[k].count < i =>
                    Before(ch, sn[k].chunk, sn[k].bump, bl[i].chunk, bl[i].lo)
            BY <2>1, <2>3 DEF SnapOK
        <3>2. sn[k].chunk \in Range(t)
            BY <1>15, <2>3
        <3>3. EndsAt(r, sn[k].count, sn[k].chunk, sn[k].bump)
            BY <1>13, <1>15, <2>1, <3>1
        <3> QED BY <1>7, <1>9, <1>10, <3>1, <3>2, <3>3
    <2> QED BY <1>15, <2>1, <2>2, <2>3 DEF SnapOK
<1>17. Nested(t, sn)
    <2> SUFFICES ASSUME NEW k \in DOMAIN sn, NEW m \in DOMAIN sn, k < m
                 PROVE  Older(t, sn[k], sn[m])
        BY DEF Nested
    <2>1. Older(ch, sn[k], sn[m])
        BY DEF ArenaOK, Nested
    <2> QED BY <1>7, <1>15, <2>1 DEF Older
<1>18. ArenaOK(t, new, r, sn)
    BY <1>11, <1>12, <1>14, <1>16, <1>17 DEF ArenaOK
<1> QED BY <1>18 DEF r

-----------------------------------------------------------------------------
(* The arithmetic of mara_align_ptr.                                         *)
LEMMA AlignUpIs ==
    ASSUME NEW b \in Nat, NEW align \in Nat \ {0}
    PROVE  AlignUp(b, align) \in Nat /\ b <= AlignUp(b, align)
<1> DEFINE x == b + align - 1
           q == x \div align
<1>1. x \in Nat
    OBVIOUS
<1> HIDE DEF x
<1>2. q \in Nat /\ q * align <= x /\ x < (q + 1) * align
    BY <1>1
<1> HIDE DEF q
<1>3. (q + 1) * align = q * align + align /\ q * align \in Nat
    BY <1>2
<1>4. b <= q * align
    BY <1>2, <1>3 DEF x
<1> QED BY <1>3, <1>4 DEF AlignUp, q, x

(* ChunkOnOneList in terms of the lists' ranges.                             *)
OnOneList ==
    /\ \A a \in Arenas : Distinct(chain[a])
    /\ \A a, b \in Arenas : \A c : c \in Range(chain[a]) /\ c \in Range(chain[b]) => a = b
    /\ Distinct(free)
    /\ \A a \in Arenas : \A c : c \in Range(chain[a]) => c \notin Range(free)
    /\ \A c \in Chunks : size[c] > 0 <=>
          (c \in Range(free) \/ \E a \in Arenas : c \in Range(chain[a]))

LEMMA RangeIn ==
    ASSUME NEW S, NEW s \in Seq(S), NEW x \in Range(s)
    PROVE  x \in S
BY SeqFacts, InRange

LEMMA OnOneListIs == TypeOK => (OnOneList <=> ChunkOnOneList)
<1> SUFFICES ASSUME TypeOK PROVE OnOneList <=> ChunkOnOneList
    OBVIOUS
<1>1. \A a \in Arenas : chain[a] \in Seq(Chunks)
    BY DEF TypeOK
<1>2. \A c \in Range(free) : c \in Chunks
    BY RangeIn DEF TypeOK
<1>3. \A a \in Arenas : \A c \in Range(chain[a]) : c \in Chunks
    BY <1>1, RangeIn
<1>4. ASSUME OnOneList PROVE ChunkOnOneList
    <2>1. ASSUME NEW a \in Arenas, NEW b \in Arenas, NEW i \in DOMAIN chain[a],
                 NEW j \in DOMAIN chain[b], chain[a][i] = chain[b][j]
          PROVE  a = b /\ i = j
        <3>1. chain[a][i] \in Range(chain[a]) /\ chain[a][i] \in Range(chain[b])
            BY <2>1, InRange
        <3>2. a = b
            BY <1>4, <3>1 DEF OnOneList
        <3> QED BY <1>4, <2>1, <3>2 DEF OnOneList, Distinct
    <2>2. \A i, j \in DOMAIN free : free[i] = free[j] => i = j
        BY <1>4 DEF OnOneList, Distinct
    <2>3. \A a \in Arenas : Range(chain[a]) \cap Range(free) = {}
        BY <1>4 DEF OnOneList
    <2>4. {c \in Chunks : size[c] > 0} = Range(free) \cup UNION {Range(chain[a]) : a \in Arenas}
        BY <1>2, <1>3, <1>4 DEF OnOneList
    <2> QED BY <2>1, <2>2, <2>3, <2>4 DEF ChunkOnOneList
<1>5. ASSUME ChunkOnOneList PROVE OnOneList
    <2>1. \A a, b \in Arenas : \A i \in DOMAIN chain[a], j \in DOMAIN chain[b] :
             chain[a][i] = chain[b][j] => a = b /\ i = j
        BY <1>5 DEF ChunkOnOneList
    <2>2. \A a \in Arenas : Distinct(chain[a])
        BY <2>1 DEF Distinct
    <2>3. ASSUME NEW a \in Arenas, NEW b \in Arenas, NEW c, c \in Range(chain[a]), c \in Range(chain[b])
          PROVE  a = b
        <3>1. PICK i \in DOMAIN chain[a] : chain[a][i] = c
            BY <2>3, InRange
        <3>2. PICK j \in DOMAIN chain[b] : chain[b][j] = c
            BY <2>3, InRange
        <3> QED BY <2>1, <3>1, <3>2
    <2>4. Distinct(free)
        BY <1>5 DEF ChunkOnOneList, Distinct
    <2>5. \A a \in Arenas : \A c : c \in Range(chain[a]) => c \notin Range(free)
        BY <1>5 DEF ChunkOnOneList
    <2>6. ASSUME NEW c \in Chunks
          PROVE  size[c] > 0 <=> (c \in Range(free) \/ \E a \in Arenas : c \in Range(chain[a]))
        <3>1. {d \in Chunks : size[d] > 0} = Range(free) \cup UNION {Range(chain[a]) : a \in Arenas}
            BY <1>5 DEF ChunkOnOneList
        <3>2. c \in {d \in Chunks : size[d] > 0} <=>
                 c \in Range(free) \cup UNION {Range(chain[a]) : a \in Arenas}
            BY <3>1
        <3> QED BY <3>2
    <2> QED BY <2>2, <2>3, <2>4, <2>5, <2>6 DEF OnOneList
<1> QED BY <1>4, <1>5

LEMMA OnOneListNext == TypeOK' => (OnOneList' <=> ChunkOnOneList')
BY OnOneListIs, PTL

LEMMA Typed ==
    ASSUME TypeOK, NEW a \in Arenas
    PROVE  /\ Types(chain[a], bump, blocks[a], snaps[a])
           /\ \A c \in Range(chain[a]) : c \in Chunks
<1>1. /\ chain[a] \in Seq(Chunks) /\ bump \in [Chunks -> Nat]
      /\ blocks[a] \in Seq(Block) /\ snaps[a] \in Seq(Snap)
    BY DEF TypeOK
<1> QED BY <1>1, RangeIn DEF Types

-----------------------------------------------------------------------------
(* The list of free chunks.                                                  *)
LEMMA Concatenated ==
    ASSUME NEW s \in Seq(Chunks), NEW t \in Seq(Chunks), Distinct(s), Distinct(t),
           \A x : x \in Range(s) => x \notin Range(t)
    PROVE  /\ s \o t \in Seq(Chunks) /\ Distinct(s \o t)
           /\ \A x : x \in Range(s \o t) <=> x \in Range(s) \/ x \in Range(t)
<1> DEFINE m == Len(s)
           n == Len(t)
           u == s \o t
<1>1. m \in Nat /\ n \in Nat /\ DOMAIN s = 1 .. m /\ DOMAIN t = 1 .. n
    BY SeqFacts
<1>2. /\ u \in Seq(Chunks) /\ Len(u) = m + n
      /\ \A i \in 1 .. m + n : u[i] = IF i <= m THEN s[i] ELSE t[i - m]
    BY ConcatProperties
<1>3. DOMAIN u = 1 .. m + n
    BY <1>2, SeqFacts
<1> HIDE DEF m, n, u
<1>4. ASSUME NEW i \in 1 .. m + n
      PROVE  \/ i \in DOMAIN s /\ u[i] = s[i]
             \/ i - m \in DOMAIN t /\ u[i] = t[i - m] /\ i \in Int
    <2>1. (i <= m /\ i \in 1 .. m) \/ (~ (i <= m) /\ i - m \in 1 .. n /\ i \in Int)
        BY <1>1
    <2> QED BY <1>1, <1>2, <2>1
<1>5. ASSUME NEW x PROVE x \in Range(u) <=> x \in Range(s) \/ x \in Range(t)
    <2>1. ASSUME x \in Range(u) PROVE x \in Range(s) \/ x \in Range(t)
        <3>1. PICK i \in 1 .. m + n : u[i] = x
            BY <1>3, <2>1, InRange
        <3> QED BY <1>4, <3>1, InRange
    <2>2. ASSUME NEW i \in DOMAIN s, s[i] = x PROVE x \in Range(u)
        <3>1. i \in 1 .. m + n /\ i <= m
            BY <1>1
        <3>2. i \in DOMAIN u /\ u[i] = x
            BY <1>2, <1>3, <2>2, <3>1
        <3> QED BY <3>2, InRange
    <2>3. ASSUME NEW i \in DOMAIN t, t[i] = x PROVE x \in Range(u)
        <3> DEFINE j == i + m
        <3>1. j \in 1 .. m + n /\ ~ (j <= m) /\ j - m = i
            BY <1>1
        <3> HIDE DEF j
        <3>2. u[j] = t[j - m]
            BY <1>2, <3>1
        <3> QED BY <1>3, <2>3, <3>1, <3>2, InRange
    <2> QED BY <2>1, <2>2, <2>3, InRange
<1>6. ASSUME NEW i \in 1 .. m + n, NEW j \in 1 .. m + n, u[i] = u[j] PROVE i = j
    <2>1. CASE i \in DOMAIN s /\ u[i] = s[i] /\ j \in DOMAIN s /\ u[j] = s[j]
        BY <1>6, <2>1 DEF Distinct
    <2>2. CASE i - m \in DOMAIN t /\ u[i] = t[i - m] /\ j - m \in DOMAIN t /\ u[j] = t[j - m]
        <3>1. i - m = j - m
            BY <1>6, <2>2 DEF Distinct
        <3> QED BY <1>1, <3>1
    <2>3. \/ u[i] \in Range(s) /\ i \in DOMAIN s /\ u[i] = s[i]
          \/ u[i] \in Range(t) /\ i - m \in DOMAIN t /\ u[i] = t[i - m]
        BY <1>4, InRange
    <2>4. \/ u[j] \in Range(s) /\ j \in DOMAIN s /\ u[j] = s[j]
          \/ u[j] \in Range(t) /\ j - m \in DOMAIN t /\ u[j] = t[j - m]
        BY <1>4, InRange
    <2> QED BY <1>6, <2>1, <2>2, <2>3, <2>4
<1>7. Distinct(u)
    BY <1>3, <1>6 DEF Distinct
<1> QED BY <1>2, <1>5, <1>7 DEF u

LEMMA Reversed ==
    ASSUME NEW s \in Seq(Chunks), Distinct(s)
    PROVE  /\ Reverse(s) \in Seq(Chunks) /\ Distinct(Reverse(s))
           /\ \A x : x \in Range(Reverse(s)) <=> x \in Range(s)
<1> DEFINE n == Len(s)
           t == Reverse(s)
<1>1. n \in Nat /\ DOMAIN s = 1 .. n /\ \A i \in 1 .. n : s[i] \in Chunks
    BY SeqFacts
<1>2. DOMAIN t = 1 .. n /\ \A i \in 1 .. n : t[i] = s[(n - i) + 1]
    BY DEF Reverse
<1> HIDE DEF n
<1>3. \A i \in 1 .. n : (n - i) + 1 \in 1 .. n /\ (n - ((n - i) + 1)) + 1 = i
    BY <1>1
<1>4. t \in Seq(Chunks)
    <2>1. t = [i \in 1 .. n |-> s[(n - i) + 1]]
        BY DEF Reverse, n
    <2>2. \A i \in 1 .. n : s[(n - i) + 1] \in Chunks
        BY <1>1, <1>3
    <2> HIDE DEF t
    <2> QED BY ONLY <1>1, <2>1, <2>2, IsASeq
<1> HIDE DEF t
<1>5. ASSUME NEW i \in 1 .. n, NEW j \in 1 .. n, t[i] = t[j] PROVE i = j
    <2>1. (n - i) + 1 = (n - j) + 1
        BY <1>1, <1>2, <1>3, <1>5 DEF Distinct
    <2> QED BY <1>1, <2>1
<1>6. Distinct(t)
    BY <1>2, <1>5 DEF Distinct
<1>7. ASSUME NEW x PROVE x \in Range(t) <=> x \in Range(s)
    <2>1. ASSUME NEW i \in DOMAIN t, t[i] = x PROVE x \in Range(s)
        BY <1>1, <1>2, <1>3, <2>1, InRange
    <2>2. ASSUME NEW i \in DOMAIN s, s[i] = x PROVE x \in Range(t)
        <3>1. (n - i) + 1 \in DOMAIN t /\ t[(n - i) + 1] = x
            BY <1>1, <1>2, <1>3, <2>2
        <3> QED BY <3>1, InRange
    <2> QED BY <2>1, <2>2, InRange
<1> QED BY <1>4, <1>6, <1>7 DEF t

(* The first k chunks of a chain are put in front of the free ones.          *)
LEMMA Released ==
    ASSUME NEW ch \in Seq(Chunks), NEW fr \in Seq(Chunks), Distinct(ch), Distinct(fr),
           \A x : x \in Range(ch) => x \notin Range(fr), NEW k \in 0 .. Len(ch)
    PROVE  /\ Reverse(SubSeq(ch, 1, k)) \o fr \in Seq(Chunks)
           /\ Distinct(Reverse(SubSeq(ch, 1, k)) \o fr)
           /\ \A x : x \in Range(Reverse(SubSeq(ch, 1, k)) \o fr)
                       <=> x \in Range(fr) \/ \E p \in DOMAIN ch : p <= k /\ ch[p] = x
<1> DEFINE t == SubSeq(ch, 1, k)
           r == Reverse(t)
<1>1. /\ t \in Seq(Chunks) /\ DOMAIN t = 1 .. k
      /\ \A j \in 1 .. k : j \in DOMAIN ch /\ t[j] = ch[j]
    BY Prefix
<1>2. DOMAIN ch = 1 .. Len(ch) /\ Len(ch) \in Nat /\ k \in Nat
    BY SeqFacts
<1> HIDE DEF t
<1>3. Distinct(t)
    BY <1>1 DEF Distinct
<1>4. ASSUME NEW x PROVE x \in Range(t) <=> \E p \in DOMAIN ch : p <= k /\ ch[p] = x
    <2>1. ASSUME NEW p \in DOMAIN ch, p <= k, ch[p] = x PROVE x \in Range(t)
        <3>1. p \in 1 .. k
            BY <1>2, <2>1
        <3> QED BY <1>1, <2>1, <3>1, InRange
    <2>2. ASSUME NEW p \in DOMAIN t, t[p] = x PROVE \E i \in DOMAIN ch : i <= k /\ ch[i] = x
        <3>1. p \in DOMAIN ch /\ p <= k /\ ch[p] = x
            BY <1>1, <1>2, <2>2
        <3> QED BY <3>1
    <2> QED BY <2>1, <2>2, InRange
<1>5. r \in Seq(Chunks) /\ Distinct(r) /\ \A x : x \in Range(r) <=> x \in Range(t)
    BY <1>1, <1>3, Reversed
<1> HIDE DEF r
<1>6. \A x : x \in Range(r) => x \notin Range(fr)
    BY <1>4, <1>5, InRange
<1>7. /\ r \o fr \in Seq(Chunks) /\ Distinct(r \o fr)
      /\ \A x : x \in Range(r \o fr) <=> x \in Range(r) \/ x \in Range(fr)
    BY <1>5, <1>6, Concatenated
<1> QED BY <1>4, <1>5, <1>7 DEF r, t

LEMMA Taken ==
    ASSUME NEW fr \in Seq(Chunks), Distinct(fr), fr # << >>
    PROVE  /\ Head(fr) \in Chunks /\ Tail(fr) \in Seq(Chunks) /\ Distinct(Tail(fr))
           /\ Head(fr) \in Range(fr)
           /\ \A x : x \in Range(Tail(fr)) <=> x \in Range(fr) /\ x # Head(fr)
<1>1. Len(fr) \in Nat \ {0} /\ DOMAIN fr = 1 .. Len(fr)
    BY EmptySeq, SeqFacts
<1>2. Tail(fr) = SubSeq(fr, 2, Len(fr))
    BY TailIsSubSeq
<1>3. 1 \in 0 .. Len(fr) /\ 1 + 1 = 2 /\ 1 \in DOMAIN fr
    BY <1>1
<1>4. Tail(fr) = SubSeq(fr, 1 + 1, Len(fr))
    BY <1>2, <1>3
<1>5. /\ Tail(fr) \in Seq(Chunks) /\ Distinct(Tail(fr))
      /\ \A x : x \in Range(Tail(fr)) <=> \E p \in DOMAIN fr : p > 1 /\ fr[p] = x
    <2>1. ASSUME NEW k \in 0 .. Len(fr)
          PROVE  /\ SubSeq(fr, k + 1, Len(fr)) \in Seq(Chunks)
                 /\ Distinct(SubSeq(fr, k + 1, Len(fr)))
                 /\ \A x : x \in Range(SubSeq(fr, k + 1, Len(fr)))
                             <=> \E p \in DOMAIN fr : p > k /\ fr[p] = x
        BY Popped, Zenon
    <2> QED BY <1>3, <1>4, <2>1, Zenon
<1>6. Head(fr) = fr[1] /\ Head(fr) \in Range(fr) /\ Head(fr) \in Chunks
    BY <1>1, <1>3, InRange, SeqFacts
<1>7. ASSUME NEW x
      PROVE  (\E p \in DOMAIN fr : p > 1 /\ fr[p] = x) <=> x \in Range(fr) /\ x # Head(fr)
    <2>1. \A p \in DOMAIN fr : p = 1 \/ p > 1
        BY <1>1
    <2>2. \A p \in DOMAIN fr : p > 1 => p # 1
        BY <1>1
    <2> QED BY <1>3, <1>6, <2>1, <2>2, InRange DEF Distinct
<1> QED BY <1>5, <1>6, <1>7

-----------------------------------------------------------------------------
(* mara_arena_alloc_ex.                                                      *)
(* Chunk c is the first of ch, the chain of arena a.                         *)
Ready(a, c, ch, bp) ==
    /\ IInv /\ a \in Arenas /\ c \in Chunks
    /\ Types(ch, bp, blocks[a], snaps[a]) /\ Distinct(ch) /\ ch # << >> /\ c = Head(ch)
    /\ \A d \in Chunks : d # c => bp[d] = bump[d]
    /\ \A d \in Range(ch) : d \in Chunks
    /\ ArenaOK(ch, bp, blocks[a], snaps[a])

LEMMA Placing ==
    ASSUME NEW a, NEW c, NEW ch, NEW bp, Ready(a, c, ch, bp),
           NEW e \in Nat, NEW n \in Nat, NEW align \in Nat \ {0},
           Fits(bp[c], e, n, align), Place(a, c, bp[c], n, align)
    PROVE  /\ bump' \in [Chunks -> Nat] /\ bump'[c] <= e
           /\ \A d \in Chunks : d # c => bump'[d] = bump[d]
           /\ blocks' \in [Arenas -> Seq(Block)]
           /\ \A x \in Arenas : x # a => blocks'[x] = blocks[x]
           /\ returned' = "block"
           /\ ArenaOK(ch, bump', blocks'[a], snaps[a])
<1> USE DEF Ready
<1> DEFINE lo == AlignUp(bp[c], align)
           b == [chunk |-> c, lo |-> lo, hi |-> lo + n]
<1>1. bp[c] \in Nat /\ bump \in [Chunks -> Nat] /\ blocks \in [Arenas -> Seq(Block)]
    BY DEF Types, IInv, TypeOK
<1>2. lo \in Nat /\ bp[c] <= lo
    BY <1>1, AlignUpIs
<1>3. lo + n <= e /\ bump' = [bump EXCEPT ![c] = lo + n]
      /\ blocks' = [blocks EXCEPT ![a] = Append(@, b)] /\ returned' = "block"
    BY DEF Fits, Place
<1> HIDE DEF lo
<1>4. lo + n \in Nat /\ lo <= lo + n
    BY <1>2
<1>5. b \in Block
    BY <1>2, <1>4 DEF Block
<1> HIDE DEF b
<1>6. Append(blocks[a], b) \in Seq(Block)
    BY <1>1, <1>5, AppendProperties
<1>7. /\ bump' \in [Chunks -> Nat] /\ bump'[c] = lo + n
      /\ \A d \in Chunks : d # c => bump'[d] = bump[d]
    BY <1>1, <1>3, <1>4
<1>8. /\ blocks' \in [Arenas -> Seq(Block)] /\ blocks'[a] = Append(blocks[a], b)
      /\ \A x \in Arenas : x # a => blocks'[x] = blocks[x]
    BY <1>1, <1>3, <1>6
<1>9. \A d \in Range(ch) : d # c => bump'[d] = bp[d]
    BY <1>7
<1>10. ArenaOK(ch, bump', Append(blocks[a], [chunk |-> c, lo |-> lo, hi |-> lo + n]), snaps[a])
    BY ONLY <1>2, <1>4, <1>7, <1>9, Types(ch, bp, blocks[a], snaps[a]), Distinct(ch), ch # << >>,
            c = Head(ch), ArenaOK(ch, bp, blocks[a], snaps[a]), BlockPlaced
<1>11. ArenaOK(ch, bump', blocks'[a], snaps[a])
    BY <1>8, <1>10 DEF b
<1> QED BY <1>3, <1>7, <1>8, <1>11

(* What does not concern arena a stays as it is.                             *)
LEMMA OthersKept ==
    ASSUME IInv, OnOneList, NEW a \in Arenas, NEW x \in Arenas, x # a, NEW C,
           \A c \in C : c \in Range(chain[a]) \/ \A y \in Arenas : c \notin Range(chain[y]),
           \A c \in Chunks : c \notin C => bump'[c] = bump[c],
           chain'[x] = chain[x], blocks'[x] = blocks[x], snaps'[x] = snaps[x]
    PROVE  ArenaOK(chain'[x], bump', blocks'[x], snaps'[x])
<1>1. ArenaOK(chain[x], bump, blocks[x], snaps[x])
    BY DEF IInv
<1>2. ASSUME NEW c \in Range(chain[x]) PROVE bump'[c] = bump[c]
    <2>1. c \in Chunks
        BY Typed DEF IInv
    <2>2. c \notin C
        BY DEF OnOneList
    <2> QED BY <2>1, <2>2
<1>3. ArenaOK(chain[x], bump', blocks[x], snaps[x])
    BY <1>1, <1>2, Framed
<1> QED BY <1>3

LEMMA NewChunk ==
    ASSUME IInv, OnOneList, NEW a \in Arenas, NEW c \in Chunks, \A y \in Arenas : c \notin Range(chain[y]),
           NEW e \in Nat, Header <= e, NEW n \in Nat, NEW align \in Nat \ {0},
           PlaceInNew(a, c, e, n, align), snaps' = snaps
    PROVE  /\ chain' \in [Arenas -> Seq(Chunks)] /\ chain'[a] = <<c>> \o chain[a]
           /\ \A x \in Arenas : x # a => chain'[x] = chain[x]
           /\ bump' \in [Chunks -> Nat] /\ bump'[c] <= e
           /\ \A d \in Chunks : d # c => bump'[d] = bump[d]
           /\ blocks' \in [Arenas -> Seq(Block)] /\ returned' \in {"block", "NULL"}
           /\ \A x \in Arenas : ArenaOK(chain'[x], bump', blocks'[x], snaps'[x])
<1> DEFINE ch == <<c>> \o chain[a]
           bp == [bump EXCEPT ![c] = Header]
<1>1. /\ Types(chain[a], bump, blocks[a], snaps[a]) /\ chain \in [Arenas -> Seq(Chunks)]
      /\ bump \in [Chunks -> Nat] /\ blocks \in [Arenas -> Seq(Block)]
      /\ \A d \in Range(chain[a]) : d \in Chunks
    BY Typed DEF IInv, TypeOK
<1>2. Distinct(chain[a]) /\ c \notin Range(chain[a])
    BY DEF OnOneList
<1>3. /\ ch \in Seq(Chunks) /\ Range(ch) = Range(chain[a]) \cup {c}
      /\ Head(ch) = c /\ ch # << >> /\ Distinct(ch)
    BY <1>1, <1>2, Pushed
<1>4. bp \in [Chunks -> Nat] /\ bp[c] = Header /\ \A d \in Chunks : d # c => bp[d] = bump[d]
    BY <1>1
<1>5. chain' = [chain EXCEPT ![a] = ch]
    BY DEF PlaceInNew
<1> HIDE DEF bp
<1>6. \A d \in Range(chain[a]) : bp[d] = bump[d]
    BY <1>1, <1>2, <1>4
<1>7. ArenaOK(ch, bp, blocks[a], snaps[a])
    <2>1. ArenaOK(chain[a], bump, blocks[a], snaps[a])
        BY DEF IInv
    <2> QED BY ONLY <1>1, <1>2, <1>4, <1>6, <2>1, c \in Chunks, ChunkAdded
<1> HIDE DEF ch
<1>8. /\ chain' \in [Arenas -> Seq(Chunks)] /\ chain'[a] = ch
      /\ \A x \in Arenas : x # a => chain'[x] = chain[x]
    BY <1>1, <1>3, <1>5
<1>9. Types(ch, bp, blocks[a], snaps[a])
    BY <1>1, <1>3, <1>4 DEF Types
<1>10. /\ bump' \in [Chunks -> Nat] /\ bump'[c] <= e
       /\ \A d \in Chunks : d # c => bump'[d] = bump[d]
       /\ blocks' \in [Arenas -> Seq(Block)]
       /\ \A x \in Arenas : x # a => blocks'[x] = blocks[x]
       /\ returned' \in {"block", "NULL"}
       /\ ArenaOK(ch, bump', blocks'[a], snaps[a])
    <2>1. CASE Fits(Header, e, n, align)
        <3>1. Place(a, c, bp[c], n, align) /\ Fits(bp[c], e, n, align)
            BY <1>4, <2>1 DEF PlaceInNew
        <3>2. \A d \in Range(ch) : d \in Chunks
            BY <1>1, <1>3
        <3>3. c = Head(ch) /\ Distinct(ch) /\ ch # << >>
            BY <1>3
        <3>4. /\ bump' \in [Chunks -> Nat] /\ bump'[c] <= e
              /\ \A d \in Chunks : d # c => bump'[d] = bump[d]
              /\ blocks' \in [Arenas -> Seq(Block)]
              /\ \A x \in Arenas : x # a => blocks'[x] = blocks[x]
              /\ returned' = "block"
              /\ ArenaOK(ch, bump', blocks'[a], snaps[a])
            <4>1. Ready(a, c, ch, bp)
                BY <1>4, <1>7, <1>9, <3>2, <3>3 DEF Ready
            <4> QED BY <3>1, <4>1, Placing, Zenon
        <3> QED BY <3>4
    <2>2. CASE ~ Fits(Header, e, n, align)
        <3>1. bump' = bp /\ returned' = "NULL" /\ blocks' = blocks
            BY <2>2 DEF PlaceInNew, bp
        <3>2. bump'[c] <= e
            BY <1>4, <3>1
        <3> QED BY <1>1, <1>4, <1>7, <3>1, <3>2
    <2> QED BY <2>1, <2>2
<1>11. ASSUME NEW x \in Arenas, x # a PROVE ArenaOK(chain'[x], bump', blocks'[x], snaps'[x])
    <2>1. \A d \in {c} : d \in Range(chain[a]) \/ \A y \in Arenas : d \notin Range(chain[y])
        OBVIOUS
    <2>2. \A d \in Chunks : d \notin {c} => bump'[d] = bump[d]
        BY <1>10
    <2>3. chain'[x] = chain[x] /\ blocks'[x] = blocks[x] /\ snaps'[x] = snaps[x]
        BY <1>8, <1>10, <1>11
    <2> QED BY <1>11, <2>1, <2>2, <2>3, OthersKept
<1>12. ArenaOK(chain'[a], bump', blocks'[a], snaps'[a])
    BY <1>8, <1>10
<1> QED BY <1>8, <1>10, <1>11, <1>12 DEF ch

LEMMA Kept == IInv => TypeOK /\ OnOneList
BY OnOneListIs DEF IInv

LEMMA Concluded ==
    ASSUME TypeOK', OnOneList', \A x \in Arenas : ArenaOK(chain'[x], bump', blocks'[x], snaps'[x])
    PROVE  IInv'
<1>1. ChunkOnOneList'
    BY OnOneListNext
<1> QED BY <1>1 DEF IInv

LEMMA AllocInCurrentStep ==
    ASSUME IInv, NEW a \in Arenas, NEW n \in Nat, NEW align \in Nat \ {0},
           AllocInCurrent(a, n, align)
    PROVE  IInv'
<1> DEFINE c == Head(chain[a])
<1>1. TypeOK /\ OnOneList
    BY Kept
<1>2. chain[a] # << >> /\ Current(a) = c
    BY DEF AllocInCurrent, HasRoom, Current
<1>3. Fits(bump[c], size[c], n, align) /\ Place(a, c, bump[c], n, align)
    BY <1>2 DEF AllocInCurrent, HasRoom
<1>4. chain' = chain /\ free' = free /\ size' = size /\ snaps' = snaps
    BY DEF AllocInCurrent
<1>5. Types(chain[a], bump, blocks[a], snaps[a]) /\ \A d \in Range(chain[a]) : d \in Chunks
    BY <1>1, Typed
<1>6. c \in Range(chain[a]) /\ c \in Chunks
    <2>1. chain[a] \in Seq(Chunks)
        BY <1>1 DEF TypeOK
    <2>2. Head(chain[a]) = chain[a][1] /\ 1 \in DOMAIN chain[a]
        BY <1>2, <2>1, EmptySeq
    <2> QED BY <1>5, <2>2, InRange
<1>7. size[c] \in Nat
    BY <1>1, <1>6 DEF TypeOK
<1>8. Distinct(chain[a]) /\ ArenaOK(chain[a], bump, blocks[a], snaps[a])
    BY <1>1 DEF OnOneList, IInv
<1>9. Ready(a, c, chain[a], bump)
    BY <1>2, <1>5, <1>6, <1>8 DEF Ready
<1> HIDE DEF c
<1>10. /\ bump' \in [Chunks -> Nat] /\ bump'[c] <= size[c]
       /\ \A d \in Chunks : d # c => bump'[d] = bump[d]
       /\ blocks' \in [Arenas -> Seq(Block)]
       /\ \A x \in Arenas : x # a => blocks'[x] = blocks[x]
       /\ returned' = "block"
       /\ ArenaOK(chain[a], bump', blocks'[a], snaps[a])
    BY <1>3, <1>7, <1>9, Placing, Zenon
<1>11. TypeOK'
    BY <1>1, <1>4, <1>10 DEF TypeOK
<1>12. OnOneList'
    BY <1>1, <1>4 DEF OnOneList
<1>13. ASSUME NEW x \in Arenas, x # a PROVE ArenaOK(chain'[x], bump', blocks'[x], snaps'[x])
    <2>1. \A d \in {c} : d \in Range(chain[a]) \/ \A y \in Arenas : d \notin Range(chain[y])
        BY <1>6
    <2>2. \A d \in Chunks : d \notin {c} => bump'[d] = bump[d]
        BY <1>10
    <2>3. chain'[x] = chain[x] /\ blocks'[x] = blocks[x] /\ snaps'[x] = snaps[x]
        BY <1>4, <1>10, <1>13
    <2> QED BY <1>1, <1>13, <2>1, <2>2, <2>3, OthersKept
<1>14. ArenaOK(chain'[a], bump', blocks'[a], snaps'[a])
    BY <1>4, <1>10
<1> QED BY <1>11, <1>12, <1>13, <1>14, Concluded

LEMMA NewOnOneList ==
    ASSUME TypeOK, OnOneList, NEW a \in Arenas, NEW c \in Chunks,
           \A y \in Arenas : c \notin Range(chain[y]),
           chain'[a] = <<c>> \o chain[a], \A x \in Arenas : x # a => chain'[x] = chain[x],
           Distinct(free'), \A x : x \in Range(free') <=> x \in Range(free) /\ x # c,
           \A d \in Chunks : size'[d] > 0 <=> size[d] > 0 \/ d = c
    PROVE  OnOneList'
<1>1. /\ Range(chain'[a]) = Range(chain[a]) \cup {c} /\ Distinct(chain'[a])
      /\ \A d \in Range(chain[a]) : d \in Chunks
    <2>1. chain[a] \in Seq(Chunks) /\ Distinct(chain[a]) /\ c \notin Range(chain[a])
        BY DEF TypeOK, OnOneList
    <2> QED BY <2>1, Pushed, Typed
<1>2. \A x \in Arenas : Distinct(chain'[x])
    BY <1>1 DEF OnOneList
<1>3. ASSUME NEW x \in Arenas, NEW d
      PROVE  d \in Range(chain'[x]) <=> d \in Range(chain[x]) \/ (x = a /\ d = c)
    <2>1. CASE x = a
        BY <1>1, <2>1
    <2>2. CASE x # a
        BY <2>2
    <2> QED BY <2>1, <2>2
<1>4. \A x, y \in Arenas : \A d : d \in Range(chain'[x]) /\ d \in Range(chain'[y]) => x = y
    <2>1. ASSUME NEW x \in Arenas, NEW y \in Arenas, NEW d,
                 d \in Range(chain'[x]), d \in Range(chain'[y])
          PROVE  x = y
        <3>1. d \in Range(chain[x]) \/ (x = a /\ d = c)
            BY <1>3, <2>1
        <3>2. d \in Range(chain[y]) \/ (y = a /\ d = c)
            BY <1>3, <2>1
        <3> QED BY <3>1, <3>2 DEF OnOneList
    <2> QED BY <2>1
<1>5. \A x \in Arenas : \A d : d \in Range(chain'[x]) => d \notin Range(free')
    BY <1>3 DEF OnOneList
<1>6. ASSUME NEW d \in Chunks
      PROVE  size'[d] > 0 <=> d \in Range(free') \/ \E x \in Arenas : d \in Range(chain'[x])
    <2>1. (\E x \in Arenas : d \in Range(chain'[x]))
            <=> d = c \/ \E x \in Arenas : d \in Range(chain[x])
        BY <1>3
    <2>2. size[d] > 0 <=> d \in Range(free) \/ \E x \in Arenas : d \in Range(chain[x])
        BY DEF OnOneList
    <2> QED BY <2>1, <2>2
<1> QED BY <1>2, <1>4, <1>5, <1>6 DEF OnOneList

LEMMA AllocReusingStep ==
    ASSUME IInv, NEW a \in Arenas, NEW n \in Nat, NEW align \in Nat \ {0},
           AllocReusing(a, n, align)
    PROVE  IInv'
<1> DEFINE c == Head(free)
<1>1. TypeOK /\ OnOneList
    BY Kept
<1>2. free # << >> /\ free' = Tail(free) /\ Wanted(n) <= size[c]
    <2>1. free # << >> /\ free' = Tail(free) /\ size[c] >= Wanted(n)
        BY DEF AllocReusing, CanReuse
    <2>2. Wanted(n) \in Nat
        BY DEF Wanted
    <2>3. free \in Seq(Chunks)
        BY <1>1 DEF TypeOK
    <2>4. size[c] \in Nat
        BY <1>1, <2>1, <2>3, HeadTailProperties DEF TypeOK
    <2> QED BY <2>1, <2>2, <2>4
<1>3. PlaceInNew(a, c, size[c], n, align) /\ size' = size /\ snaps' = snaps
    BY DEF AllocReusing
<1>4. /\ c \in Chunks /\ Distinct(free') /\ c \in Range(free) /\ free' \in Seq(Chunks)
      /\ \A x : x \in Range(free') <=> x \in Range(free) /\ x # c
    BY <1>1, <1>2, Taken DEF TypeOK, OnOneList
<1> HIDE DEF c
<1>5. \A y \in Arenas : c \notin Range(chain[y])
    BY <1>1, <1>4 DEF OnOneList
<1>6. size[c] \in Nat /\ Header <= size[c]
    <2>1. size[c] \in Nat /\ Wanted(n) \in Nat /\ Header <= Wanted(n)
        BY <1>1, <1>4 DEF TypeOK, Wanted
    <2> QED BY <1>2, <2>1
<1>7. /\ chain' \in [Arenas -> Seq(Chunks)] /\ chain'[a] = <<c>> \o chain[a]
      /\ \A x \in Arenas : x # a => chain'[x] = chain[x]
      /\ bump' \in [Chunks -> Nat] /\ bump'[c] <= size[c]
      /\ \A d \in Chunks : d # c => bump'[d] = bump[d]
      /\ blocks' \in [Arenas -> Seq(Block)] /\ returned' \in {"block", "NULL"}
      /\ \A x \in Arenas : ArenaOK(chain'[x], bump', blocks'[x], snaps'[x])
    BY <1>1, <1>3, <1>4, <1>5, <1>6, NewChunk
<1>8. TypeOK'
    BY <1>1, <1>3, <1>4, <1>7 DEF TypeOK
<1>9. \A d \in Chunks : size'[d] > 0 <=> size[d] > 0 \/ d = c
    BY <1>1, <1>3, <1>4 DEF OnOneList
<1>10. OnOneList'
    BY <1>1, <1>4, <1>5, <1>7, <1>9, NewOnOneList
<1> QED BY <1>7, <1>8, <1>10, Concluded

LEMMA AllocMallocStep ==
    ASSUME IInv, NEW a \in Arenas, NEW n \in Nat, NEW align \in Nat \ {0},
           AllocMalloc(a, n, align)
    PROVE  IInv'
<1>1. TypeOK /\ OnOneList
    BY Kept
<1>2. PICK c \in Chunks : /\ size[c] = 0 /\ size' = [size EXCEPT ![c] = Wanted(n)]
                          /\ PlaceInNew(a, c, Wanted(n), n, align)
    BY DEF AllocMalloc
<1>3. free' = free /\ snaps' = snaps
    BY DEF AllocMalloc
<1>4. Wanted(n) \in Nat /\ Header <= Wanted(n) /\ Wanted(n) > 0
    BY DEF Wanted
<1>5. c \notin Range(free) /\ \A y \in Arenas : c \notin Range(chain[y])
    BY <1>1, <1>2 DEF OnOneList
<1>6. /\ chain' \in [Arenas -> Seq(Chunks)] /\ chain'[a] = <<c>> \o chain[a]
      /\ \A x \in Arenas : x # a => chain'[x] = chain[x]
      /\ bump' \in [Chunks -> Nat] /\ bump'[c] <= Wanted(n)
      /\ \A d \in Chunks : d # c => bump'[d] = bump[d]
      /\ blocks' \in [Arenas -> Seq(Block)] /\ returned' \in {"block", "NULL"}
      /\ \A x \in Arenas : ArenaOK(chain'[x], bump', blocks'[x], snaps'[x])
    BY <1>1, <1>2, <1>3, <1>4, <1>5, NewChunk
<1>7. /\ size' \in [Chunks -> Nat] /\ size'[c] = Wanted(n)
      /\ \A d \in Chunks : d # c => size'[d] = size[d]
    BY <1>1, <1>2, <1>4 DEF TypeOK
<1>8. TypeOK'
    BY <1>1, <1>3, <1>6, <1>7 DEF TypeOK
<1>9. \A d \in Chunks : size'[d] > 0 <=> size[d] > 0 \/ d = c
    BY <1>4, <1>7
<1>10. Distinct(free') /\ \A x : x \in Range(free') <=> x \in Range(free) /\ x # c
    BY <1>1, <1>3, <1>5 DEF OnOneList
<1>11. OnOneList'
    BY <1>1, <1>5, <1>6, <1>9, <1>10, NewOnOneList
<1> QED BY <1>6, <1>8, <1>11, Concluded

-----------------------------------------------------------------------------
(* mara_arena_snapshot, and a snapshot that is given up.                     *)
LEMMA SnapshotStep ==
    ASSUME IInv, NEW a \in Arenas, Snapshot(a)
    PROVE  IInv'
<1> DEFINE s == [chunk |-> Current(a), bump |-> IF chain[a] = << >> THEN 0 ELSE bump[Current(a)],
                 count |-> Len(blocks[a])]
<1>1. TypeOK /\ OnOneList /\ ArenaOK(chain[a], bump, blocks[a], snaps[a])
    BY Kept DEF IInv
<1>2. /\ snaps' = [snaps EXCEPT ![a] = Append(@, s)]
      /\ chain' = chain /\ free' = free /\ size' = size /\ bump' = bump /\ blocks' = blocks
      /\ returned' = returned
    BY DEF Snapshot
<1>3. chain[a] \in Seq(Chunks) /\ Types(chain[a], bump, blocks[a], snaps[a])
    BY <1>1, Typed DEF TypeOK
<1>4. s \in Snap
    <2>1. CASE chain[a] = << >>
        <3>1. Len(blocks[a]) \in Nat
            BY <1>3, SeqFacts DEF Types
        <3> QED BY <2>1, <3>1 DEF Snap, Current
    <2>2. CASE chain[a] # << >>
        <3>1. Len(blocks[a]) \in Nat
            BY <1>3, SeqFacts DEF Types
        <3>2. Current(a) \in Chunks
            BY <1>3, <2>2, HeadTailProperties DEF Current
        <3>3. bump[Current(a)] \in Nat
            BY <1>1, <3>2 DEF TypeOK
        <3> QED BY <2>2, <3>1, <3>2, <3>3 DEF Snap
    <2> QED BY <2>1, <2>2
<1>5. /\ s.count = Len(blocks[a])
      /\ chain[a] = << >> => s.chunk = NoChunk
      /\ chain[a] # << >> => s.chunk = Head(chain[a]) /\ s.bump = bump[s.chunk]
    BY DEF Current
<1> HIDE DEF s
<1>6. ArenaOK(chain[a], bump, blocks[a], Append(snaps[a], s))
    BY ONLY <1>1, <1>3, <1>4, <1>5, SnapshotTaken
<1>7. Append(snaps[a], s) \in Seq(Snap)
    BY <1>3, <1>4, AppendProperties DEF Types
<1>8. /\ snaps' \in [Arenas -> Seq(Snap)] /\ snaps'[a] = Append(snaps[a], s)
      /\ \A x \in Arenas : x # a => snaps'[x] = snaps[x]
    BY <1>1, <1>2, <1>7 DEF TypeOK
<1>9. TypeOK'
    BY <1>1, <1>2, <1>8 DEF TypeOK
<1>10. OnOneList'
    BY <1>1, <1>2 DEF OnOneList
<1>11. \A x \in Arenas : ArenaOK(chain'[x], bump', blocks'[x], snaps'[x])
    BY <1>2, <1>6, <1>8 DEF IInv
<1> QED BY <1>9, <1>10, <1>11, Concluded

LEMMA ForgetStep ==
    ASSUME IInv, NEW a \in Arenas, Forget(a)
    PROVE  IInv'
<1> DEFINE n == Len(snaps[a]) - 1
<1>1. TypeOK /\ OnOneList /\ ArenaOK(chain[a], bump, blocks[a], snaps[a])
    BY Kept DEF IInv
<1>2. snaps[a] # << >> /\ snaps' = [snaps EXCEPT ![a] = SubSeq(@, 1, Len(@) - 1)]
      /\ chain' = chain /\ free' = free /\ size' = size /\ bump' = bump /\ blocks' = blocks
      /\ returned' = returned
    BY DEF Forget, Front
<1>3. Types(chain[a], bump, blocks[a], snaps[a]) /\ snaps[a] \in Seq(Snap)
    BY <1>1, Typed DEF TypeOK
<1>4. n \in 0 .. Len(snaps[a])
    <2>1. Len(snaps[a]) \in Nat \ {0}
        BY <1>2, <1>3, EmptySeq
    <2> QED BY <2>1
<1>5. SubSeq(snaps[a], 1, n) \in Seq(Snap)
    BY <1>3, <1>4, Prefix
<1>6. ArenaOK(chain[a], bump, blocks[a], SubSeq(snaps[a], 1, n))
    BY <1>1, <1>3, <1>4, SnapshotsForgotten
<1>7. /\ snaps' \in [Arenas -> Seq(Snap)] /\ snaps'[a] = SubSeq(snaps[a], 1, n)
      /\ \A x \in Arenas : x # a => snaps'[x] = snaps[x]
    BY <1>1, <1>2, <1>5 DEF TypeOK
<1>8. TypeOK'
    BY <1>1, <1>2, <1>7 DEF TypeOK
<1>9. OnOneList'
    BY <1>1, <1>2 DEF OnOneList
<1>10. \A x \in Arenas : ArenaOK(chain'[x], bump', blocks'[x], snaps'[x])
    BY <1>2, <1>6, <1>7 DEF IInv
<1> QED BY <1>8, <1>9, <1>10, Concluded

(* The loop of mara_arena_restore: the first k chunks of a go to the free    *)
(* list.                                                                     *)
LEMMA ReleaseKept ==
    ASSUME TypeOK, OnOneList, NEW a \in Arenas, NEW k \in 0 .. Len(chain[a]),
           free' = Reverse(SubSeq(chain[a], 1, k)) \o free,
           chain' = [chain EXCEPT ![a] = SubSeq(@, k + 1, Len(@))], size' = size
    PROVE  /\ OnOneList' /\ free' \in Seq(Chunks) /\ chain' \in [Arenas -> Seq(Chunks)]
           /\ \A x \in Arenas : x # a => chain'[x] = chain[x]
           /\ \A x : x \in Range(chain'[a]) <=> \E p \in DOMAIN chain[a] : p > k /\ chain[a][p] = x
           /\ \A x, y \in Range(chain'[a]) : Behind(chain[a], x, y) => Behind(chain'[a], x, y)
<1> DEFINE t == SubSeq(chain[a], k + 1, Len(chain[a]))
<1>1. /\ chain[a] \in Seq(Chunks) /\ Distinct(chain[a]) /\ chain \in [Arenas -> Seq(Chunks)]
      /\ free \in Seq(Chunks) /\ Distinct(free)
      /\ \A x : x \in Range(chain[a]) => x \notin Range(free)
    BY DEF TypeOK, OnOneList
<1>2. /\ t \in Seq(Chunks) /\ Distinct(t)
      /\ \A x : x \in Range(t) <=> \E p \in DOMAIN chain[a] : p > k /\ chain[a][p] = x
      /\ \A x, y \in Range(t) : Behind(chain[a], x, y) => Behind(t, x, y)
    BY <1>1, Popped
<1>3. /\ free' \in Seq(Chunks) /\ Distinct(free')
      /\ \A x : x \in Range(free')
                   <=> x \in Range(free) \/ \E p \in DOMAIN chain[a] : p <= k /\ chain[a][p] = x
    <2> DEFINE ch == chain[a]
               u == Reverse(SubSeq(ch, 1, k)) \o free
    <2>1. ch \in Seq(Chunks) /\ Distinct(ch) /\ k \in 0 .. Len(ch)
        BY <1>1
    <2>2. \A x : x \in Range(ch) => x \notin Range(free)
        BY <1>1
    <2> HIDE DEF ch
    <2>3. /\ u \in Seq(Chunks) /\ Distinct(u)
          /\ \A x : x \in Range(u)
                       <=> x \in Range(free) \/ \E p \in DOMAIN ch : p <= k /\ ch[p] = x
        BY ONLY <1>1, <2>1, <2>2, Released
    <2>4. free' = u
        BY DEF ch
    <2> HIDE DEF u
    <2>5. free' \in Seq(Chunks) /\ Distinct(free')
        BY <2>3, <2>4
    <2> QED BY <2>3, <2>4, <2>5 DEF ch
<1>4. chain' = [chain EXCEPT ![a] = t]
    OBVIOUS
<1> HIDE DEF t
<1>5. /\ chain' \in [Arenas -> Seq(Chunks)] /\ chain'[a] = t
      /\ \A x \in Arenas : x # a => chain'[x] = chain[x]
    BY <1>1, <1>2, <1>4
<1>6. \A p \in DOMAIN chain[a] : p > k <=> ~ (p <= k)
    <2>1. DOMAIN chain[a] = 1 .. Len(chain[a]) /\ Len(chain[a]) \in Nat
        BY <1>1, SeqFacts
    <2> QED BY <2>1
<1>7. \A d : d \in Range(chain[a]) <=>
         d \in Range(t) \/ \E p \in DOMAIN chain[a] : p <= k /\ chain[a][p] = d
    BY <1>2, <1>6, InRange
<1>8. ASSUME NEW d, d \in Range(t) PROVE d \notin Range(free')
    <2>1. PICK p \in DOMAIN chain[a] : p > k /\ chain[a][p] = d
        BY <1>2, <1>8
    <2>2. ~ \E q \in DOMAIN chain[a] : q <= k /\ chain[a][q] = d
        BY <1>1, <1>6, <2>1 DEF Distinct
    <2>3. d \notin Range(free)
        BY <1>1, <1>7, <1>8
    <2> QED BY <1>3, <2>2, <2>3
<1>9. ASSUME NEW x \in Arenas, NEW d
      PROVE  d \in Range(chain'[x]) => d \in Range(chain[x])
    BY <1>5, <1>7
<1>10. \A x \in Arenas : Distinct(chain'[x])
    BY <1>2, <1>5 DEF OnOneList
<1>11. ASSUME NEW x \in Arenas, NEW y \in Arenas, NEW d,
              d \in Range(chain'[x]), d \in Range(chain'[y])
       PROVE  x = y
    BY <1>9, <1>11 DEF OnOneList
<1>12. ASSUME NEW x \in Arenas, NEW d, d \in Range(chain'[x]) PROVE d \notin Range(free')
    <2>1. CASE x = a
        BY <1>5, <1>8, <1>12, <2>1
    <2>2. CASE x # a
        <3>1. d \in Range(chain[x]) /\ d \notin Range(free) /\ d \notin Range(chain[a])
            BY <1>5, <1>12, <2>2 DEF OnOneList
        <3> QED BY <1>3, <1>7, <3>1
    <2> QED BY <2>1, <2>2
<1>13. ASSUME NEW d \in Chunks
       PROVE  size'[d] > 0 <=> d \in Range(free') \/ \E x \in Arenas : d \in Range(chain'[x])
    <2>1. size[d] > 0 <=> d \in Range(free) \/ \E x \in Arenas : d \in Range(chain[x])
        BY DEF OnOneList
    <2>2. d \in Range(free') => d \in Range(free) \/ d \in Range(chain[a])
        BY <1>3, <1>7
    <2>3. d \in Range(free) => d \in Range(free')
        BY <1>3
    <2>4. ASSUME NEW x \in Arenas, d \in Range(chain[x])
          PROVE  d \in Range(free') \/ d \in Range(chain'[x])
        BY <1>3, <1>5, <1>7, <2>4
    <2> QED BY <1>9, <2>1, <2>2, <2>3, <2>4
<1>14. OnOneList'
    BY <1>3, <1>10, <1>11, <1>12, <1>13 DEF OnOneList
<1> QED BY <1>2, <1>3, <1>5, <1>14

(* An arena without chunks has neither blocks nor snapshots of any.          *)
LEMMA EmptyOK ==
    ASSUME NEW ch, NEW bp, NEW bl, NEW sn, \A x : x \notin Range(ch), DOMAIN bl = {}, Len(bl) = 0,
           \A k \in DOMAIN sn : sn[k].chunk = NoChunk /\ sn[k].count = 0
    PROVE  ArenaOK(ch, bp, bl, sn)
<1>1. Held(ch, bp, bl) /\ Ordered(ch, bl) /\ Tight(ch, bp, bl)
    BY DEF Held, Ordered, Tight
<1>2. 0 <= 0
    OBVIOUS
<1>3. \A k \in DOMAIN sn : SnapOK(ch, bp, bl, sn[k])
    BY <1>2 DEF SnapOK
<1>4. Nested(ch, sn)
    BY <1>2 DEF Nested, Older
<1> QED BY <1>1, <1>3, <1>4 DEF ArenaOK

LEMMA ResetStep ==
    ASSUME IInv, NEW a \in Arenas, Reset(a)
    PROVE  IInv'
<1> DEFINE k == Len(chain[a])
<1>1. TypeOK /\ OnOneList
    BY Kept
<1>2. /\ free' = Reverse(SubSeq(chain[a], 1, k)) \o free
      /\ chain' = [chain EXCEPT ![a] = SubSeq(@, k + 1, Len(@))]
      /\ bump' = bump /\ size' = size /\ returned' = returned
      /\ blocks' = [blocks EXCEPT ![a] = << >>] /\ snaps' = [snaps EXCEPT ![a] = << >>]
    BY DEF Reset, ReleaseTo, DepthOf
<1>3. k \in 0 .. Len(chain[a]) /\ \A p \in DOMAIN chain[a] : ~ (p > k)
    <2>1. k \in Nat /\ DOMAIN chain[a] = 1 .. k
        BY <1>1, SeqFacts DEF TypeOK
    <2> QED BY <2>1
<1>4. /\ OnOneList' /\ free' \in Seq(Chunks) /\ chain' \in [Arenas -> Seq(Chunks)]
      /\ \A x \in Arenas : x # a => chain'[x] = chain[x]
      /\ \A x : x \in Range(chain'[a]) <=> \E p \in DOMAIN chain[a] : p > k /\ chain[a][p] = x
    BY <1>1, <1>2, <1>3, ReleaseKept
<1> HIDE DEF k
<1>5. /\ << >> \in Seq(Block) /\ << >> \in Seq(Snap) /\ Len(<< >>) = 0 /\ DOMAIN << >> = {}
    BY EmptySeq
<1>6. /\ blocks' \in [Arenas -> Seq(Block)] /\ blocks'[a] = << >>
      /\ snaps' \in [Arenas -> Seq(Snap)] /\ snaps'[a] = << >>
      /\ \A x \in Arenas : x # a => blocks'[x] = blocks[x] /\ snaps'[x] = snaps[x]
    BY <1>1, <1>2, <1>5 DEF TypeOK
<1>7. TypeOK'
    BY <1>1, <1>2, <1>4, <1>6 DEF TypeOK
<1>8. ArenaOK(chain'[a], bump', blocks'[a], snaps'[a])
    <2>1. \A x : x \notin Range(chain'[a])
        BY <1>3, <1>4
    <2> QED BY <1>5, <1>6, <2>1, EmptyOK
<1>9. ASSUME NEW x \in Arenas, x # a PROVE ArenaOK(chain'[x], bump', blocks'[x], snaps'[x])
    BY <1>2, <1>4, <1>6, <1>9 DEF IInv
<1> QED BY <1>4, <1>7, <1>8, <1>9, Concluded

LEMMA RestoreStep ==
    ASSUME IInv, NEW a \in Arenas, Restore(a)
    PROVE  IInv'
<1> DEFINE ch == chain[a]
           bl == blocks[a]
           sn == snaps[a]
<1>1. TypeOK /\ OnOneList /\ ArenaOK(ch, bump, bl, sn)
    BY Kept DEF IInv
<1>2. PICK i \in 1 .. Len(sn) :
        /\ sn[i].chunk = NoChunk \/ sn[i].chunk \in Range(ch)
        /\ ReleaseTo(a, sn[i].chunk, sn[i].bump)
        /\ blocks' = [blocks EXCEPT ![a] = SubSeq(@, 1, sn[i].count)]
        /\ snaps' = [snaps EXCEPT ![a] = SubSeq(@, 1, i)]
        /\ UNCHANGED <<size, returned>>
    BY DEF Restore
<1> DEFINE s == sn[i]
           c == s.chunk
           k == DepthOf(a, c)
           rest == SubSeq(sn, 1, i)
<1>3. /\ ch \in Seq(Chunks) /\ bl \in Seq(Block) /\ sn \in Seq(Snap) /\ Distinct(ch)
      /\ bump \in [Chunks -> Nat] /\ Types(ch, bump, bl, sn)
      /\ \A d \in Range(ch) : d \in Chunks
    BY <1>1, Typed DEF TypeOK, OnOneList
<1>4. i \in DOMAIN sn /\ i \in 0 .. Len(sn) /\ s \in Snap
    <2>1. Len(sn) \in Nat /\ DOMAIN sn = 1 .. Len(sn) /\ \A j \in DOMAIN sn : sn[j] \in Snap
        BY <1>3, SeqFacts
    <2> QED BY <2>1
<1>5. SnapOK(ch, bump, bl, s)
    BY <1>1, <1>4 DEF ArenaOK
<1>6. /\ rest \in Seq(Snap) /\ DOMAIN rest = 1 .. i
      /\ \A j \in 1 .. i : j \in DOMAIN sn /\ rest[j] = sn[j]
    BY <1>3, <1>4, Prefix
<1>7. ArenaOK(ch, bump, bl, rest)
    BY <1>1, <1>3, <1>4, SnapshotsForgotten
<1>8. /\ free' = Reverse(SubSeq(chain[a], 1, k)) \o free
      /\ chain' = [chain EXCEPT ![a] = SubSeq(@, k + 1, Len(@))]
      /\ bump' = IF c = NoChunk THEN bump ELSE [bump EXCEPT ![c] = s.bump]
      /\ blocks' = [blocks EXCEPT ![a] = SubSeq(@, 1, s.count)]
      /\ snaps' = [snaps EXCEPT ![a] = rest] /\ size' = size /\ returned' = returned
    BY <1>2 DEF ReleaseTo
<1>9. s.count \in 0 .. Len(bl) /\ SubSeq(bl, 1, s.count) \in Seq(Block)
    <2>1. s.count \in Nat /\ s.count <= Len(bl) /\ Len(bl) \in Nat
        BY <1>3, <1>4, <1>5, SeqFacts DEF Snap, SnapOK
    <2>2. s.count \in 0 .. Len(bl)
        BY <2>1
    <2> QED BY <1>3, <2>2, Prefix
<1> HIDE DEF rest
<1>10. /\ blocks' \in [Arenas -> Seq(Block)] /\ blocks'[a] = SubSeq(bl, 1, s.count)
       /\ snaps' \in [Arenas -> Seq(Snap)] /\ snaps'[a] = rest
       /\ \A x \in Arenas : x # a => blocks'[x] = blocks[x] /\ snaps'[x] = snaps[x]
    BY <1>1, <1>6, <1>8, <1>9 DEF TypeOK
<1>11. \A j \in DOMAIN rest : rest[j] = s \/ Older(ch, rest[j], s)
    <2> SUFFICES ASSUME NEW j \in 1 .. i PROVE rest[j] = s \/ Older(ch, rest[j], s)
        BY <1>6
    <2>1. j = i \/ j < i
        BY <1>4
    <2> QED BY <1>1, <1>4, <1>6, <2>1 DEF ArenaOK, Nested
<1>12. ASSUME NEW x \in Arenas, x # a, chain'[x] = chain[x],
              c = NoChunk \/ c \in Range(ch)
       PROVE  ArenaOK(chain'[x], bump', blocks'[x], snaps'[x])
    <2> DEFINE C == {c} \cap Chunks
    <2>1. \A d \in C : d \in Range(chain[a]) \/ \A y \in Arenas : d \notin Range(chain[y])
        BY <1>12
    <2>2. \A d \in Chunks : d \notin C => bump'[d] = bump[d]
        BY <1>3, <1>8
    <2> HIDE DEF C
    <2>3. chain'[x] = chain[x] /\ blocks'[x] = blocks[x] /\ snaps'[x] = snaps[x]
        BY <1>10, <1>12
    <2> QED BY <1>1, <1>12, <2>1, <2>2, <2>3, OthersKept
<1>13. CASE c = NoChunk
    <2>1. k = Len(ch) /\ bump' = bump
        BY <1>8, <1>13 DEF DepthOf
    <2>2. k \in 0 .. Len(ch) /\ \A p \in DOMAIN ch : ~ (p > k)
        <3>1. Len(ch) \in Nat /\ DOMAIN ch = 1 .. Len(ch)
            BY <1>3, SeqFacts
        <3> QED BY <2>1, <3>1
    <2> HIDE DEF k
    <2>3. /\ OnOneList' /\ free' \in Seq(Chunks) /\ chain' \in [Arenas -> Seq(Chunks)]
          /\ \A x \in Arenas : x # a => chain'[x] = chain[x]
          /\ \A x : x \in Range(chain'[a]) <=> \E p \in DOMAIN ch : p > k /\ ch[p] = x
        BY <1>1, <1>8, <2>2, ReleaseKept
    <2>4. TypeOK'
        BY <1>1, <1>8, <1>10, <2>1, <2>3 DEF TypeOK
    <2>5. \A x : x \notin Range(chain'[a])
        BY <2>2, <2>3
    <2>6. s.count = 0
        BY <1>5, <1>13 DEF SnapOK
    <2>7. DOMAIN blocks'[a] = {} /\ Len(blocks'[a]) = 0
        <3>1. Len(blocks'[a]) = 0 /\ DOMAIN blocks'[a] = 1 .. 0
            BY <1>3, <1>9, <1>10, <2>6, Prefix
        <3> QED BY <3>1
    <2>8. ASSUME NEW j \in DOMAIN rest PROVE rest[j].chunk = NoChunk /\ rest[j].count = 0
        <3>1. rest[j] \in Snap
            BY <1>6, SeqFacts
        <3>2. rest[j].count \in Nat
            BY <3>1 DEF Snap
        <3>3. rest[j].count <= 0 /\ rest[j].chunk = NoChunk
            <4>1. CASE rest[j] = s
                <5>1. 0 <= 0
                    OBVIOUS
                <5> QED BY <1>13, <2>6, <4>1, <5>1
            <4>2. CASE Older(ch, rest[j], s)
                BY <1>13, <2>6, <4>2 DEF Older
            <4> QED BY <1>11, <4>1, <4>2
        <3> QED BY <3>2, <3>3
    <2>9. ArenaOK(chain'[a], bump', blocks'[a], snaps'[a])
        BY <1>10, <2>5, <2>7, <2>8, EmptyOK
    <2>10. \A x \in Arenas : ArenaOK(chain'[x], bump', blocks'[x], snaps'[x])
        BY <1>12, <1>13, <2>3, <2>9
    <2> QED BY <2>3, <2>4, <2>10, Concluded
<1>14. CASE c # NoChunk
    <2>1. c \in Range(ch) /\ c \in Chunks /\ s.bump \in Nat /\ s.bump <= bump[c]
        <3>1. s.chunk \in Range(ch) /\ s.bump <= bump[s.chunk]
            BY <1>5, <1>14 DEF SnapOK
        <3> QED BY <1>3, <1>4, <3>1 DEF Snap
    <2> DEFINE m == PlaceOf(a, c)
    <2>2. m \in DOMAIN ch /\ ch[m] = c /\ k = m - 1
        <3>1. \E p \in DOMAIN ch : ch[p] = c
            BY <2>1, InRange
        <3> QED BY <1>14, <3>1 DEF PlaceOf, DepthOf
    <2> HIDE DEF m, k
    <2>3. k \in 0 .. Len(ch) /\ \A p \in DOMAIN ch : p > k <=> p = m \/ m < p
        <3>1. Len(ch) \in Nat /\ DOMAIN ch = 1 .. Len(ch)
            BY <1>3, SeqFacts
        <3> QED BY <2>2, <3>1
    <2>4. /\ OnOneList' /\ free' \in Seq(Chunks) /\ chain' \in [Arenas -> Seq(Chunks)]
          /\ \A x \in Arenas : x # a => chain'[x] = chain[x]
          /\ \A x : x \in Range(chain'[a]) <=> \E p \in DOMAIN ch : p > k /\ ch[p] = x
          /\ \A x, y \in Range(chain'[a]) : Behind(ch, x, y) => Behind(chain'[a], x, y)
        BY <1>1, <1>8, <2>3, ReleaseKept
    <2>5. ASSUME NEW x PROVE x \in Range(chain'[a]) <=> x = c \/ Behind(ch, x, c)
        <3>1. (\E p \in DOMAIN ch : p > k /\ ch[p] = x)
                <=> x = c \/ \E p \in DOMAIN ch : m < p /\ ch[p] = x
            BY <2>2, <2>3
        <3>2. Behind(ch, x, c) <=> \E p \in DOMAIN ch : m < p /\ ch[p] = x
            BY <1>3, <2>2 DEF Behind, Distinct
        <3> QED BY <2>4, <3>1, <3>2
    <2>6. /\ bump' \in [Chunks -> Nat] /\ bump'[c] = s.bump
          /\ \A d \in Chunks : d # c => bump'[d] = bump[d]
        BY <1>3, <1>8, <1>14, <2>1
    <2>7. \A d \in Chunks : bump'[d] <= size[d]
        <3>1. bump[c] <= size[c] /\ bump[c] \in Nat /\ size[c] \in Nat
            BY <1>1, <2>1 DEF TypeOK
        <3>2. bump'[c] <= size[c]
            BY <2>1, <2>6, <3>1
        <3> QED BY <1>1, <2>6, <3>2 DEF TypeOK
    <2>8. TypeOK'
        BY <1>1, <1>8, <1>10, <2>4, <2>6, <2>7 DEF TypeOK
    <2>9. ArenaOK(chain'[a], bump', SubSeq(bl, 1, s.count), rest)
        <3>1. Types(ch, bump, bl, rest)
            BY <1>3, <1>6 DEF Types
        <3>2. CutAt(ch, bump, c, s.bump, chain'[a], bump')
            BY <1>3, <2>4, <2>5, <2>6 DEF CutAt
        <3> QED BY ONLY <1>3, <1>4, <1>5, <1>7, <1>11, <1>14, <3>1, <3>2, SnapshotRestored
    <2>10. \A x \in Arenas : ArenaOK(chain'[x], bump', blocks'[x], snaps'[x])
        BY <1>10, <1>12, <2>1, <2>4, <2>9
    <2> QED BY <2>4, <2>8, <2>10, Concluded
<1> QED BY <1>13, <1>14

LEMMA DestroyEnvStep ==
    ASSUME IInv, DestroyEnv
    PROVE  IInv'
<1>1. TypeOK /\ OnOneList
    BY Kept
<1>2. /\ \A a \in Arenas : chain[a] = << >> /\ snaps[a] = << >>
      /\ size' = [c \in Chunks |-> IF c \in Range(free) THEN 0 ELSE size[c]]
      /\ bump' = [c \in Chunks |-> IF c \in Range(free) THEN 0 ELSE bump[c]]
      /\ free' = << >> /\ chain' = chain /\ blocks' = blocks /\ snaps' = snaps
      /\ returned' = returned
    BY DEF DestroyEnv
<1>3. \A a \in Arenas : \A x : x \notin Range(chain[a])
    BY <1>2 DEF Range
<1>4. << >> \in Seq(Chunks) /\ DOMAIN << >> = {} /\ \A x : x \notin Range(<< >>)
    BY EmptySeq DEF Range
<1>5. TypeOK'
    <2>1. size' \in [Chunks -> Nat] /\ bump' \in [Chunks -> Nat]
        BY <1>1, <1>2 DEF TypeOK
    <2>2. ASSUME NEW d \in Chunks PROVE bump'[d] <= size'[d]
        <3>1. bump[d] <= size[d] /\ 0 <= 0
            BY <1>1 DEF TypeOK
        <3> QED BY <1>2, <3>1
    <2> QED BY <1>1, <1>2, <1>4, <2>1, <2>2 DEF TypeOK
<1>6. ASSUME NEW d \in Chunks PROVE ~ (size'[d] > 0)
    <2>1. d \in Range(free) \/ ~ (size[d] > 0)
        BY <1>1, <1>3 DEF OnOneList
    <2> QED BY <1>2, <2>1
<1>7. OnOneList'
    BY <1>1, <1>2, <1>3, <1>4, <1>6 DEF OnOneList, Distinct
<1>8. ASSUME NEW x \in Arenas PROVE ArenaOK(chain'[x], bump', blocks'[x], snaps'[x])
    BY <1>2, <1>3, Framed DEF IInv
<1> QED BY <1>5, <1>7, <1>8, Concluded

-----------------------------------------------------------------------------
(* The invariant, and what follows from it.                                  *)
LEMMA InitOK == Init => IInv
<1> SUFFICES ASSUME Init PROVE IInv
    OBVIOUS
<1>1. /\ << >> \in Seq(Chunks) /\ << >> \in Seq(Block) /\ << >> \in Seq(Snap)
      /\ Len(<< >>) = 0 /\ DOMAIN << >> = {} /\ \A x : x \notin Range(<< >>)
    BY EmptySeq DEF Range
<1>2. 0 \in Nat /\ 0 <= 0 /\ ~ (0 > 0)
    OBVIOUS
<1>3. TypeOK
    BY <1>1, <1>2 DEF Init, TypeOK
<1>4. OnOneList
    BY <1>1, <1>2 DEF Init, OnOneList, Distinct
<1>5. ASSUME NEW a \in Arenas PROVE ArenaOK(chain[a], bump, blocks[a], snaps[a])
    <2>1. chain[a] = << >> /\ blocks[a] = << >> /\ snaps[a] = << >>
        BY DEF Init
    <2> QED BY <1>1, <2>1, EmptyOK
<1> QED BY <1>3, <1>4, <1>5, OnOneListIs DEF IInv

LEMMA NextOK == IInv /\ [Next]_vars => IInv'
<1> SUFFICES ASSUME IInv, [Next]_vars PROVE IInv'
    OBVIOUS
<1>1. ASSUME NEW a \in Arenas, NEW r \in Requests,
             \/ AllocInCurrent(a, r.words, r.align)
             \/ AllocReusing(a, r.words, r.align)
             \/ AllocMalloc(a, r.words, r.align)
      PROVE  IInv'
    <2>1. r.words \in Nat /\ r.align \in Nat \ {0}
        OBVIOUS
    <2> QED BY <1>1, <2>1, AllocInCurrentStep, AllocReusingStep, AllocMallocStep
<1>2. ASSUME NEW a \in Arenas, Snapshot(a) \/ Restore(a) \/ Forget(a) \/ Reset(a) PROVE IInv'
    BY <1>2, SnapshotStep, RestoreStep, ForgetStep, ResetStep
<1>3. CASE DestroyEnv
    BY <1>3, DestroyEnvStep
<1>4. CASE UNCHANGED vars
    BY <1>4 DEF vars, IInv, TypeOK, ChunkOnOneList
<1> QED BY <1>1, <1>2, <1>3, <1>4 DEF Next

(* In every reachable state the blocks and the snapshots of each arena are   *)
(* in the order in which they were made, from which the rest follows.        *)
THEOREM Invariant == Spec => []IInv
<1>1. Init => IInv
    BY InitOK
<1>2. IInv /\ [Next]_vars => IInv'
    BY NextOK
<1> QED BY <1>1, <1>2, PTL DEF Spec

(* Every variable has its type, and no bump pointer is past the end of its   *)
(* chunk (mara_alloc_from_chunk compares after aligning).                    *)
THEOREM TypeCorrect == Spec => []TypeOK
<1>1. IInv => TypeOK
    BY DEF IInv
<1> QED BY <1>1, Invariant, PTL

(* mara_arena_alloc_ex, mara_arena_restore, mara_arena_reset and             *)
(* mara_destroy_env neither put a chunk on two lists nor lose one.           *)
THEOREM ChunksOnOneList == Spec => []ChunkOnOneList
<1>1. IInv => ChunkOnOneList
    BY DEF IInv
<1> QED BY <1>1, Invariant, PTL

(* Of two blocks of one arena the older is behind the newer one.             *)
LEMMA Separate ==
    ASSUME NEW ch \in Seq(Chunks), Distinct(ch), NEW c, NEW e, NEW d, NEW b, Before(ch, c, e, d, b)
    PROVE  c # d \/ e <= b
BY BehindStrict DEF Before

LEMMA BlocksAreSafe == IInv => BlocksSafe
<1> SUFFICES ASSUME IInv PROVE BlocksSafe
    OBVIOUS
<1>1. TypeOK /\ OnOneList
    BY Kept
<1>2. ASSUME NEW a \in Arenas, NEW i \in DOMAIN blocks[a]
      PROVE  /\ blocks[a][i].chunk \in Range(chain[a]) /\ Header <= blocks[a][i].lo
             /\ blocks[a][i].hi <= bump[blocks[a][i].chunk]
             /\ blocks[a][i].hi <= size[blocks[a][i].chunk]
    <2> DEFINE b == blocks[a][i]
    <2>1. b.chunk \in Range(chain[a]) /\ Header <= b.lo /\ b.hi <= bump[b.chunk]
        BY DEF IInv, ArenaOK, Held
    <2>2. b \in Block
        BY <1>1, SeqFacts DEF TypeOK
    <2> HIDE DEF b
    <2>3. b.hi \in Nat /\ b.chunk \in Chunks
        BY <2>2 DEF Block
    <2>4. bump[b.chunk] \in Nat /\ size[b.chunk] \in Nat /\ bump[b.chunk] <= size[b.chunk]
        BY <1>1, <2>3 DEF TypeOK
    <2>5. b.hi <= size[b.chunk]
        BY <2>1, <2>3, <2>4
    <2>6. /\ b.chunk \in Range(chain[a]) /\ Header <= b.lo
          /\ b.hi <= bump[b.chunk] /\ b.hi <= size[b.chunk]
        BY <2>1, <2>5
    <2> QED BY <2>6 DEF b
<1>3. ASSUME NEW a1 \in Arenas, NEW a2 \in Arenas,
             NEW i \in DOMAIN blocks[a1], NEW j \in DOMAIN blocks[a2]
      PROVE  \/ a1 = a2 /\ i = j
             \/ blocks[a1][i].chunk # blocks[a2][j].chunk
             \/ blocks[a1][i].hi <= blocks[a2][j].lo \/ blocks[a2][j].hi <= blocks[a1][i].lo
    <2>1. CASE a1 # a2
        BY <1>1, <1>2, <2>1 DEF OnOneList
    <2>2. CASE a1 = a2
        <3> DEFINE bl == blocks[a1]
        <3>1. i \in Int /\ j \in Int
            BY <1>1, <2>2, SeqFacts DEF TypeOK
        <3>2. chain[a1] \in Seq(Chunks) /\ Distinct(chain[a1]) /\ Ordered(chain[a1], bl)
            BY <1>1 DEF TypeOK, OnOneList, IInv, ArenaOK
        <3>3. CASE i < j
            <4>1. Before(chain[a1], bl[i].chunk, bl[i].hi, bl[j].chunk, bl[j].lo)
                BY <2>2, <3>2, <3>3 DEF Ordered
            <4>2. bl[i].chunk # bl[j].chunk \/ bl[i].hi <= bl[j].lo
                BY <3>2, <4>1, Separate
            <4> QED BY <2>2, <4>2
        <3>4. CASE j < i
            <4>1. Before(chain[a1], bl[j].chunk, bl[j].hi, bl[i].chunk, bl[i].lo)
                BY <2>2, <3>2, <3>4 DEF Ordered
            <4>2. bl[j].chunk # bl[i].chunk \/ bl[j].hi <= bl[i].lo
                BY <3>2, <4>1, Separate
            <4> QED BY <2>2, <4>2
        <3>5. i = j \/ i < j \/ j < i
            BY <3>1
        <3> QED BY <2>2, <3>3, <3>4, <3>5
    <2> QED BY <2>1, <2>2
<1> QED BY <1>2, <1>3 DEF BlocksSafe

(* Two blocks in use never overlap, and each lies in the body of a chunk of  *)
(* its own arena below the bump pointer, whatever is snapshot, restored,     *)
(* reset and reused in between.                                              *)
THEOREM BlocksKeptSafe == Spec => []BlocksSafe
BY Invariant, BlocksAreSafe, PTL

LEMMA BumpsAreTight == IInv => BumpIsTight
<1> SUFFICES ASSUME IInv, NEW a \in Arenas, NEW i \in DOMAIN chain[a]
             PROVE  LET c    == chain[a][i]
                        ends == {Header} \cup {b.hi : b \in {x \in Range(blocks[a]) : x.chunk = c}}
                    IN  bump[c] \in ends /\ \A e \in ends : e <= bump[c]
    BY DEF BumpIsTight
<1> DEFINE c == chain[a][i]
           held == {x \in Range(blocks[a]) : x.chunk = c}
           ends == {Header} \cup {b.hi : b \in held}
<1>1. c \in Range(chain[a])
    BY InRange
<1> HIDE DEF c
<1>2. /\ Header <= bump[c] /\ EndsAt(blocks[a], Len(blocks[a]), c, bump[c])
      /\ \A j \in DOMAIN blocks[a] : blocks[a][j].hi <= bump[blocks[a][j].chunk]
    BY <1>1 DEF IInv, ArenaOK, Held, Tight
<1>3. bump[c] \in ends
    <2>1. CASE bump[c] = Header
        BY <2>1
    <2>2. CASE bump[c] # Header
        <3>1. PICK j \in DOMAIN blocks[a] : blocks[a][j].chunk = c /\ blocks[a][j].hi = bump[c]
            BY <1>2, <2>2 DEF EndsAt
        <3>2. blocks[a][j] \in held
            BY <3>1, InRange
        <3> QED BY <3>1, <3>2
    <2> QED BY <2>1, <2>2
<1>4. ASSUME NEW e \in ends PROVE e <= bump[c]
    <2>1. CASE e = Header
        BY <1>2, <2>1
    <2>2. CASE e # Header
        <3>1. PICK b \in held : e = b.hi
            BY <2>2
        <3>2. PICK j \in DOMAIN blocks[a] : blocks[a][j] = b
            BY <3>1, InRange
        <3> QED BY <1>2, <3>1, <3>2
    <2> QED BY <2>1, <2>2
<1> QED BY <1>3, <1>4 DEF c

LEMMA SnapshotsAreRestorable == IInv => SnapshotsRestorable
<1> SUFFICES ASSUME IInv PROVE SnapshotsRestorable
    OBVIOUS
<1>1. BumpIsTight
    BY BumpsAreTight
<1>2. ASSUME NEW a \in Arenas, NEW i \in DOMAIN snaps[a]
      PROVE  /\ snaps[a][i].count <= Len(blocks[a])
             /\ snaps[a][i].chunk # NoChunk =>
                  /\ snaps[a][i].chunk \in Range(chain[a])
                  /\ snaps[a][i].bump <= bump[snaps[a][i].chunk]
    BY DEF IInv, ArenaOK, SnapOK
<1> QED BY <1>1, <1>2 DEF SnapshotsRestorable

(* The loop of mara_arena_restore always finds the snapshot's chunk, never   *)
(* moves a bump pointer forward, and leaves no memory behind.                *)
THEOREM SnapshotsCorrect == Spec => []SnapshotsRestorable
BY Invariant, SnapshotsAreRestorable, PTL
=============================================================================
