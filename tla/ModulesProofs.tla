--------------------------- MODULE ModulesProofs ---------------------------
(***************************************************************************)
(* Proofs about Modules, for all contexts, modules, exports and loaders and  *)
(* calls of any depth.                                                       *)
(*                                                                           *)
(* CurrentIsInnermost is not inductive by itself: when an entry returns, the *)
(* current module becomes what that entry has noted, so that the invariant   *)
(* has to say the same of what each entry in progress has noted.             *)
(* ImportsAgree is, given IInv: it says too that a module which has answered *)
(* is loaded, and no step changes the cache of a loaded module.              *)
(***************************************************************************)
EXTENDS Modules, SequenceTheorems, WellFoundedInduction, TLAPS

IsEntryOf(s, c, i) == s[i].ctx = c /\ s[i].kind = "entry"

(* m is the last of the first n calls of s that is an entry of c, or 0, and  *)
(* o its name and whether it is ignored.                                     *)
LastEntry(s, m, o, c, n) ==
    /\ m = 0 \/ (m \in 1 .. n /\ IsEntryOf(s, c, m) /\ o = [name |-> s[m].name, ignore |-> s[m].ignore])
    /\ \A j \in 1 .. n : IsEntryOf(s, c, j) => j <= m

(* What the i-th call of s has noted, if it is an entry.                     *)
Noted(s, i) ==
    s[i].kind = "entry" =>
        LastEntry(s, s[i].previous, s[i].previousOptions, s[i].ctx, i - 1)

CurrentKept ==
    /\ \A c \in Ctx : LastEntry(stack, current[c], options[c], c, Depth)
    /\ \A i \in 1 .. Depth : Noted(stack, i)

(* The list of loaders of a context is in a zone of that context.            *)
LoadersHere ==
    \A c \in Ctx : loaders[c].zone # 0 => stack[loaders[c].zone].ctx = c

IInv ==
    /\ TypeOK /\ Depth <= MaxDepth
    /\ MarkedWhileLoading /\ CurrentKept
    /\ LoadersHere /\ LoadersOutliveImport

(* answered has its type, which TypeOK spells out.                           *)
Answered == [Names -> [Exports -> Values \cup {NameError, Nil}]]

USE ModulesAssumption

-----------------------------------------------------------------------------
(* What IInv says of the types.                                              *)
LEMMA Types ==
    ASSUME IInv
    PROVE  /\ stack \in Seq(CallType) /\ Depth \in 0 .. MaxDepth
           /\ \A i \in 1 .. Depth : stack[i] \in CallType
           /\ cache \in [Names -> [state : {"absent", "loading", "loaded"}, map : CachedMap]]
           /\ options \in [Ctx -> Options] /\ current \in [Ctx -> 0 .. MaxDepth]
           /\ loaders \in [Ctx -> [len : 0 .. MaxLoaders, zone : 0 .. Depth]]
           /\ result \in Values \cup Errors \cup {Nil} /\ answered \in Answered
           /\ \A c \in Ctx : current[c] \in 0 .. Depth
<1>1. /\ stack \in Seq(CallType) /\ Depth \in 0 .. MaxDepth
      /\ \A i \in 1 .. Depth : stack[i] \in CallType
    BY DEF IInv, TypeOK, Depth
<1>2. ASSUME NEW c \in Ctx PROVE current[c] \in 0 .. Depth
    <2>1. LastEntry(stack, current[c], options[c], c, Depth)
        BY DEF IInv, CurrentKept
    <2> QED BY <1>1, <2>1 DEF LastEntry
<1> QED BY <1>1, <1>2 DEF IInv, TypeOK, Answered

LEMMA EmptyMap == Empty \in Map /\ Empty \in CachedMap
BY DEF Empty, Map, CachedMap

LEMMA CachedMapIs == CachedMap \subseteq Map
BY DEF CachedMap, Map, Values

(* What there is to export or to return.                                     *)
LEMMA AtHandIs == ASSUME IInv PROVE AtHand \subseteq Values \cup {Nil}
<1>1. \A n \in Names, e \in Exports : cache[n].map[e] \in Plain \cup Cached \cup {Nil}
    BY Types DEF CachedMap
<1> QED BY <1>1 DEF AtHand, Values

LEMMA ErrorsAre ==
    /\ NameError \in Errors
    /\ \A name \in {"core/circular-dependency", "core/module-not-found",
                     "core/duplicated-module", "error"} : Error(name) \in Errors
BY DEF NameError, Errors

(* What the cache has is none of the objects of a zone that is exited.       *)
LEMMA InCacheIs ==
    ASSUME NEW n \in Names
    PROVE  /\ \A v \in Values \cup {Nil} : InCache(n, v) \in Plain \cup Cached \cup {Nil}
           /\ \A v \in Plain \cup Cached \cup {NameError, Nil} : InCache(n, v) = v
           /\ \A v \in Values : InCache(n, v) # Nil
<1>1. \A v \in Fresh : Object(v.is, n) \in Cached
    BY DEF Fresh, Cached, Object
<1>2. Cached \cap Fresh = {}
    <2>1. \A v \in Fresh : v.in = Zone
        BY DEF Fresh, Object
    <2>2. \A v \in Cached : v.in \in Names
        BY DEF Cached, Object
    <2> QED BY <2>1, <2>2
<1>3. Fresh \subseteq Values /\ Cached \subseteq Values /\ Plain \subseteq Values
    BY DEF Values
<1>4. NameError \notin Values
    BY ErrorsAre
<1>5. \A v \in Plain \cup Cached \cup {NameError, Nil} : v \notin Fresh
    BY <1>2, <1>3, <1>4
<1>6. \A v \in Values : InCache(n, v) \in Plain \cup Cached
    BY <1>1 DEF InCache, Values
<1>7. InCache(n, Nil) = Nil
    BY <1>5 DEF InCache
<1> QED BY <1>3, <1>5, <1>6, <1>7 DEF InCache

(* The calls that are left when the last one has returned.                   *)
LEMMA FrontIs ==
    ASSUME NEW S, NEW s \in Seq(S), s # << >>
    PROVE  /\ Front(s) \in Seq(S) /\ Len(Front(s)) = Len(s) - 1 /\ Len(s) \in Nat \ {0}
           /\ \A i \in 1 .. Len(s) - 1 : Front(s)[i] = s[i]
           /\ Last(s) = s[Len(s)] /\ s[Len(s)] \in S
<1> DEFINE n == Len(s) - 1
<1>1. n \in Nat /\ Len(s) = n + 1
    BY EmptySeq
<1>2. \A i \in 1 .. n : s[i] \in S
    OBVIOUS
<1>3. s[Len(s)] \in S
    BY <1>1
<1>4. Front(s) = SubSeq(s, 1, n)
    BY DEF Front
<1> HIDE DEF n
<1>5. /\ Front(s) \in Seq(S)
      /\ Len(Front(s)) = IF 1 <= n THEN n - 1 + 1 ELSE 0
      /\ \A i \in 1 .. n - 1 + 1 : Front(s)[i] = s[1 + i - 1]
    BY <1>1, <1>2, <1>4, SubSeqProperties
<1>6. Len(Front(s)) = n
    BY <1>1, <1>5
<1>7. ASSUME NEW i \in 1 .. n PROVE Front(s)[i] = s[i]
    <2>1. i \in 1 .. n - 1 + 1 /\ 1 + i - 1 = i
        BY <1>1
    <2> QED BY <1>5, <2>1
<1>8. Len(s) - 1 = n /\ Len(s) \in Nat \ {0}
    BY <1>1
<1>9. Front(s) \in Seq(S) /\ Last(s) = s[Len(s)]
    BY <1>5 DEF Last
<1> QED BY <1>3, <1>6, <1>7, <1>8, <1>9

LEMMA CallIs ==
    ASSUME IInv, NEW kind \in {"loader", "entry"}, NEW c \in Ctx, NEW n \in Names,
           NEW e \in Exports, NEW left \in Nat, NEW ignore \in BOOLEAN,
           NEW by \in {"import", "init_module"}
    PROVE  Call(kind, c, n, e, left, ignore, by) \in CallType
<1>1. current[c] \in Nat /\ options[c] \in Options
    BY Types
<1> QED BY <1>1, EmptyMap DEF Call, CallType

(* A list in the zone of a call belongs to the context of the call.          *)
LEMMA ZoneIs ==
    ASSUME IInv, NEW c \in Ctx
    PROVE  /\ loaders[c].zone \in 0 .. Depth /\ loaders[c].len \in 0 .. MaxLoaders
           /\ loaders[c].zone # 0 => stack[loaders[c].zone].ctx = c
BY Types DEF IInv, LoadersHere

-----------------------------------------------------------------------------
(* Steps that leave the calls in progress, but for what they export and how  *)
(* many loaders they still have.                                             *)
Alike(x, y) ==
    /\ x.kind = y.kind /\ x.ctx = y.ctx /\ x.name = y.name
    /\ x.ignore = y.ignore /\ x.by = y.by
    /\ x.previous = y.previous /\ x.previousOptions = y.previousOptions

LEMMA LastEntryKept ==
    ASSUME NEW s, NEW t, NEW n \in Int, NEW c, NEW m, NEW o,
           \A i \in 1 .. n : Alike(t[i], s[i]), LastEntry(s, m, o, c, n)
    PROVE  LastEntry(t, m, o, c, n)
<1>1. m = 0 \/ m \in 1 .. n
    BY DEF LastEntry
<1> QED BY <1>1 DEF LastEntry, IsEntryOf, Alike

LEMMA LastEntryShorter ==
    ASSUME NEW s, NEW n \in Nat \ {0}, NEW c, NEW m, NEW o,
           LastEntry(s, m, o, c, n), ~ IsEntryOf(s, c, n)
    PROVE  LastEntry(s, m, o, c, n - 1)
<1>1. \A j \in 1 .. n : j \in 1 .. n - 1 \/ j = n
    OBVIOUS
<1>2. \A j \in 1 .. n - 1 : j \in 1 .. n
    OBVIOUS
<1> QED BY <1>1, <1>2 DEF LastEntry

LEMMA LastEntryLonger ==
    ASSUME NEW s, NEW n \in Nat, NEW k, k = n + 1, NEW c, NEW m, NEW o,
           LastEntry(s, m, o, c, n), ~ IsEntryOf(s, c, k)
    PROVE  LastEntry(s, m, o, c, k)
<1>1. \A j \in 1 .. k : j \in 1 .. n \/ j = k
    OBVIOUS
<1>2. \A j \in 1 .. n : j \in 1 .. k
    OBVIOUS
<1> QED BY <1>1, <1>2 DEF LastEntry

LEMMA NotedIs ==
    ASSUME NEW s, NEW n \in Nat, NEW k, k = n + 1,
           LastEntry(s, s[k].previous, s[k].previousOptions, s[k].ctx, n)
    PROVE  Noted(s, k)
<1>1. k - 1 = n
    OBVIOUS
<1> QED BY <1>1 DEF Noted

LEMMA NotedKept ==
    ASSUME IInv, NEW t, NEW n \in 0 .. Depth, \A i \in 1 .. n : Alike(t[i], stack[i])
    PROVE  \A i \in 1 .. n : Noted(t, i)
<1> SUFFICES ASSUME NEW i \in 1 .. n, t[i].kind = "entry"
             PROVE  LastEntry(t, t[i].previous, t[i].previousOptions, t[i].ctx, i - 1)
    BY DEF Noted
<1>1. i \in 1 .. Depth /\ i - 1 \in Int /\ \A j \in 1 .. i - 1 : j \in 1 .. n
    BY Types
<1>2. Noted(stack, i) /\ Alike(t[i], stack[i])
    BY <1>1 DEF IInv, CurrentKept
<1>3. LastEntry(stack, t[i].previous, t[i].previousOptions, t[i].ctx, i - 1)
    BY <1>2 DEF Noted, Alike
<1> QED BY <1>1, <1>3, LastEntryKept

LEMMA CallsKept ==
    ASSUME IInv, UNCHANGED <<cache, current, options>>, Len(stack') = Depth,
           \A i \in 1 .. Depth : Alike(stack'[i], stack[i])
    PROVE  MarkedWhileLoading' /\ CurrentKept'
<1>1. Depth \in Nat /\ Depth' = Depth
    BY Types DEF Depth
<1>2. MarkedWhileLoading'
    <2>1. \A i \in 1 .. Depth, n \in Names : Loads(i, n)' <=> Loads(i, n)
        BY DEF Loads, Alike
    <2> QED BY <1>1, <2>1 DEF IInv, MarkedWhileLoading
<1>3. CurrentKept'
    <2>1. ASSUME NEW c \in Ctx PROVE LastEntry(stack', current'[c], options'[c], c, Depth')
        <3>1. LastEntry(stack, current[c], options[c], c, Depth)
            BY DEF IInv, CurrentKept
        <3>2. LastEntry(stack', current[c], options[c], c, Depth)
            BY <1>1, <3>1, LastEntryKept
        <3> QED BY <1>1, <3>1, <3>2
    <2>2. \A i \in 1 .. Depth' : Noted(stack', i)
        BY <1>1, NotedKept
    <2> QED BY <2>1, <2>2 DEF CurrentKept
<1> QED BY <1>2, <1>3

(* A loader is not an entry: it comes and goes and the modules stay.         *)
LEMMA LoaderPops ==
    ASSUME IInv, stack # << >>, stack[Depth].kind = "loader", stack' = Front(stack),
           UNCHANGED <<cache, current, options>>
    PROVE  MarkedWhileLoading' /\ CurrentKept'
<1>1. /\ Depth \in Nat \ {0} /\ Depth' = Depth - 1 /\ Depth' \in 0 .. Depth
      /\ \A i \in 1 .. Depth - 1 : stack'[i] = stack[i]
    BY Types, FrontIs DEF Depth
<1>2. \A i \in 1 .. Depth : i \in 1 .. Depth - 1 \/ i = Depth
    BY <1>1
<1>3. \A i \in 1 .. Depth - 1 : i \in 1 .. Depth /\ Alike(stack'[i], stack[i])
    BY <1>1 DEF Alike
<1>4. MarkedWhileLoading'
    <2>1. \A i \in 1 .. Depth - 1, n \in Names : Loads(i, n)' <=> Loads(i, n)
        BY <1>1 DEF Loads
    <2>2. \A n \in Names : ~ Loads(Depth, n)
        BY DEF Loads
    <2> QED BY <1>1, <1>2, <1>3, <2>1, <2>2 DEF IInv, MarkedWhileLoading
<1>5. CurrentKept'
    <2>1. ASSUME NEW c \in Ctx PROVE LastEntry(stack', current'[c], options'[c], c, Depth')
        <3>1. LastEntry(stack, current[c], options[c], c, Depth)
            BY DEF IInv, CurrentKept
        <3>2. LastEntry(stack, current[c], options[c], c, Depth - 1)
            BY <1>1, <3>1, LastEntryShorter DEF IsEntryOf
        <3>3. LastEntry(stack', current[c], options[c], c, Depth - 1)
            BY <1>1, <1>3, <3>2, LastEntryKept
        <3> QED BY <1>1, <3>1, <3>3
    <2>2. \A i \in 1 .. Depth' : Noted(stack', i)
        BY <1>1, <1>3, NotedKept
    <2> QED BY <2>1, <2>2 DEF CurrentKept
<1> QED BY <1>4, <1>5

LEMMA LoaderPushes ==
    ASSUME IInv, NEW call \in CallType, call.kind = "loader",
           stack' = Append(stack, call), UNCHANGED <<cache, current, options>>
    PROVE  MarkedWhileLoading' /\ CurrentKept'
<1>0. PICK d \in Nat : d = Depth /\ d \in 0 .. Depth
    BY Types
<1>1. /\ Depth' = d + 1 /\ stack'[d + 1] = call
      /\ \A i \in 1 .. d : stack'[i] = stack[i]
    BY <1>0, Types, AppendProperties DEF Depth
<1>2. \A i \in 1 .. d + 1 : i \in 1 .. d \/ i = d + 1
    BY <1>0, <1>1
<1>3. /\ \A i \in 1 .. d : i \in 1 .. d + 1
      /\ \A i \in 1 .. d : Alike(stack'[i], stack[i])
    <2>1. \A i \in 1 .. d : Alike(stack'[i], stack[i])
        BY <1>1 DEF Alike
    <2>2. \A i \in 1 .. d : i \in 1 .. d + 1
        BY <1>0
    <2> QED BY <2>1, <2>2
<1>4. MarkedWhileLoading'
    <2>1. \A i \in 1 .. d, n \in Names : Loads(i, n)' <=> Loads(i, n)
        BY <1>0, <1>1 DEF Loads
    <2>2. \A n \in Names : ~ Loads(d + 1, n)'
        BY <1>0, <1>1 DEF Loads
    <2> SUFFICES ASSUME NEW n \in Names
                 PROVE  /\ cache[n].state = "loading" <=> \E i \in 1 .. d + 1 : Loads(i, n)'
                        /\ \A i, j \in 1 .. d + 1 : Loads(i, n)' /\ Loads(j, n)' => i = j
        BY <1>1 DEF MarkedWhileLoading
    <2>3. /\ cache[n].state = "loading" <=> \E i \in 1 .. d : Loads(i, n)
          /\ \A i, j \in 1 .. d : Loads(i, n) /\ Loads(j, n) => i = j
        BY <1>0 DEF IInv, MarkedWhileLoading
    <2> QED BY <1>2, <1>3, <2>1, <2>2, <2>3
<1>5. CurrentKept'
    <2>1. ASSUME NEW c \in Ctx PROVE LastEntry(stack', current'[c], options'[c], c, Depth')
        <3>1. LastEntry(stack, current[c], options[c], c, d)
            BY <1>0 DEF IInv, CurrentKept
        <3>2. \A i \in 1 .. d : Alike(stack'[i], stack[i])
            BY <1>3
        <3>3. LastEntry(stack', current[c], options[c], c, d)
            <4>1. d \in Int
                BY <1>0
            <4> QED BY <3>1, <3>2, <4>1, LastEntryKept
        <3>4. ~ IsEntryOf(stack', c, Depth')
            BY <1>0, <1>1 DEF IsEntryOf
        <3>5. LastEntry(stack', current[c], options[c], c, Depth')
            BY <1>0, <1>1, <3>3, <3>4, LastEntryLonger
        <3> QED BY <3>5
    <2>2. \A i \in 1 .. d : Noted(stack', i)
        <3>1. d \in 0 .. Depth /\ \A i \in 1 .. d : Alike(stack'[i], stack[i])
            BY <1>0, <1>3
        <3> QED BY <3>1, NotedKept
    <2>3. Noted(stack', d + 1)
        BY <1>0, <1>1 DEF Noted
    <2> QED BY <1>0, <1>1, <1>2, <2>1, <2>2, <2>3 DEF CurrentKept
<1> QED BY <1>4, <1>5

(* What is left of the stack when a function is called: everything, or a     *)
(* loader has returned.                                                      *)
Below(below) ==
    /\ below \in Seq(CallType)
    /\ Len(below) = Depth \/ (Len(below) = Depth - 1 /\ Depth > 0 /\ stack[Depth].kind = "loader")
    /\ \A i \in 1 .. Len(below) : below[i] = stack[i]

(* An entry is called, which marks its module and is the current one.        *)
LEMMA EntryStarts ==
    ASSUME IInv, NEW below, Below(below), NEW c \in Ctx, NEW n \in Names, NEW e \in Exports,
           NEW ignore \in BOOLEAN, NEW by \in {"import", "init_module"},
           ignore \/ cache[n].state = "absent",
           Len(below) < MaxDepth, StartEntry(below, EntryCall(c, n, e, ignore, by))
    PROVE  /\ stack' \in Seq(CallType) /\ Depth' = Len(below) + 1 /\ Depth' \in 1 .. MaxDepth
           /\ stack'[Depth'].kind = "entry" /\ stack'[Depth'].ctx = c
           /\ \A i \in 1 .. Len(below) : stack'[i] = stack[i]
           /\ cache' \in [Names -> [state : {"absent", "loading", "loaded"}, map : CachedMap]]
           /\ options' \in [Ctx -> Options] /\ current' \in [Ctx -> 0 .. MaxDepth]
           /\ MarkedWhileLoading' /\ CurrentKept'
<1> DEFINE call == EntryCall(c, n, e, ignore, by)
           d == Len(below)
<1>1. call \in CallType
    BY CallIs DEF EntryCall
<1>2. /\ call.kind = "entry" /\ call.ctx = c /\ call.name = n /\ call.ignore = ignore
      /\ call.by = by /\ call.previous = current[c] /\ call.previousOptions = options[c]
    BY DEF EntryCall, Call
<1>3. /\ stack' = Append(below, call)
      /\ current' = [current EXCEPT ![c] = d + 1]
      /\ options' = [options EXCEPT ![c] = [name |-> n, ignore |-> ignore]]
      /\ cache' = IF ignore THEN cache ELSE [cache EXCEPT ![n] = Loading]
    BY <1>2 DEF StartEntry
<1> HIDE DEF call
<1>4. d \in Nat /\ d \in 0 .. Depth /\ d + 1 \in 1 .. MaxDepth
    BY Types DEF Below
<1> HIDE DEF d
<1>5. /\ stack' \in Seq(CallType) /\ Len(stack') = d + 1 /\ stack'[d + 1] = call
      /\ \A i \in 1 .. d : stack'[i] = stack[i]
    BY <1>1, <1>3, AppendProperties DEF Below, d
<1>6. Depth' = d + 1
    BY <1>5 DEF Depth
<1>7. /\ \A i \in 1 .. d : i \in 1 .. Depth /\ i \in 1 .. d + 1 /\ Alike(stack'[i], stack[i])
      /\ \A i \in 1 .. d + 1 : i \in 1 .. d \/ i = d + 1
    BY <1>4, <1>5, Types DEF Alike
<1>8. /\ cache' \in [Names -> [state : {"absent", "loading", "loaded"}, map : CachedMap]]
      /\ options' \in [Ctx -> Options] /\ current' \in [Ctx -> 0 .. MaxDepth]
    <2>1. [name |-> n, ignore |-> ignore] \in Options
        BY DEF Options
    <2>2. Loading \in [state : {"absent", "loading", "loaded"}, map : CachedMap]
        BY EmptyMap DEF Loading
    <2>3. d + 1 \in 0 .. MaxDepth
        BY <1>4
    <2> QED BY <1>3, <2>1, <2>2, <2>3, Types
<1>9. \A i \in 1 .. Depth, m \in Names : Loads(i, m) => i \in 1 .. d
    BY <1>4, Types DEF Below, Loads, d
<1>10. MarkedWhileLoading'
    <2>1. \A i \in 1 .. d, m \in Names : Loads(i, m)' <=> Loads(i, m)
        BY <1>5 DEF Loads
    <2>2. \A m \in Names : Loads(d + 1, m)' <=> m = n /\ ~ ignore
        BY <1>2, <1>5 DEF Loads
    <2>3. ~ ignore => \A i \in 1 .. d : ~ Loads(i, n)
        BY <1>7 DEF IInv, MarkedWhileLoading
    <2> SUFFICES ASSUME NEW m \in Names
                 PROVE  /\ cache'[m].state = "loading" <=> \E i \in 1 .. d + 1 : Loads(i, m)'
                        /\ \A i, j \in 1 .. d + 1 : Loads(i, m)' /\ Loads(j, m)' => i = j
        BY <1>6 DEF MarkedWhileLoading
    <2>4. /\ cache[m].state = "loading" <=> \E i \in 1 .. d : Loads(i, m)
          /\ \A i, j \in 1 .. d : Loads(i, m) /\ Loads(j, m) => i = j
        BY <1>7, <1>9 DEF IInv, MarkedWhileLoading
    <2>5. CASE m = n /\ ~ ignore
        <3>1. cache'[m].state = "loading" /\ d + 1 \in 1 .. d + 1
            BY <1>3, <1>4, <2>5, Types DEF Loading
        <3> QED BY <1>7, <2>1, <2>2, <2>3, <2>5, <3>1
    <2>6. CASE ~ (m = n /\ ~ ignore)
        <3>1. cache'[m] = cache[m]
            BY <1>3, <2>6, Types
        <3> QED BY <1>7, <2>1, <2>2, <2>4, <2>6, <3>1
    <2> QED BY <2>5, <2>6
<1>11. ASSUME NEW b \in Ctx PROVE LastEntry(stack', current[b], options[b], b, d)
    <2>1. LastEntry(stack, current[b], options[b], b, Depth)
        BY DEF IInv, CurrentKept
    <2>2. LastEntry(stack, current[b], options[b], b, d)
        <3>1. CASE d = Depth
            BY <2>1, <3>1
        <3>2. CASE d = Depth - 1 /\ Depth > 0 /\ stack[Depth].kind = "loader"
            BY <2>1, <3>2, LastEntryShorter, Types DEF IsEntryOf
        <3> QED BY <3>1, <3>2 DEF Below, d
    <2>3. d \in Int
        BY <1>4
    <2>4. \A i \in 1 .. d : Alike(stack'[i], stack[i])
        BY <1>7
    <2> QED BY <2>2, <2>3, <2>4, LastEntryKept
<1>12. CurrentKept'
    <2>1. ASSUME NEW b \in Ctx PROVE LastEntry(stack', current'[b], options'[b], b, Depth')
        <3>1. CASE b = c
            <4>1. current'[b] = d + 1 /\ options'[b] = [name |-> n, ignore |-> ignore]
                BY <1>3, <3>1, Types
            <4>2. LastEntry(stack', d + 1, [name |-> n, ignore |-> ignore], c, d + 1)
                BY <1>2, <1>4, <1>5 DEF LastEntry, IsEntryOf
            <4> QED BY <1>6, <3>1, <4>1, <4>2
        <3>2. CASE b # c
            <4>1. current'[b] = current[b] /\ options'[b] = options[b]
                BY <1>3, <3>2, Types
            <4>2. ~ IsEntryOf(stack', b, Depth')
                BY <1>2, <1>5, <1>6, <3>2 DEF IsEntryOf
            <4> QED BY <1>4, <1>6, <1>11, <4>1, <4>2, LastEntryLonger
        <3> QED BY <3>1, <3>2
    <2>2. \A i \in 1 .. d : Noted(stack', i)
        BY <1>4, <1>7, NotedKept
    <2>3. Noted(stack', Depth')
        <3>1. /\ stack'[Depth'].previous = current[c] /\ stack'[Depth'].ctx = c
              /\ stack'[Depth'].previousOptions = options[c]
            BY <1>2, <1>5, <1>6
        <3>2. LastEntry(stack', stack'[Depth'].previous, stack'[Depth'].previousOptions,
                        stack'[Depth'].ctx, d)
            BY <1>11, <3>1
        <3> QED BY <1>4, <1>6, <3>2, NotedIs
    <2> QED BY <1>6, <1>7, <2>1, <2>2, <2>3 DEF CurrentKept
<1> QED BY <1>2, <1>4, <1>5, <1>6, <1>8, <1>10, <1>12 DEF d

(* An entry returns: its module is no longer being loaded, and what it has   *)
(* noted is the current module.                                              *)
LEMMA EntryLeaves ==
    ASSUME IInv, LeaveEntry,
           NEW x \in [state : {"absent", "loaded"}, map : CachedMap],
           cache' = IF Running.ignore THEN cache ELSE [cache EXCEPT ![Running.name] = x]
    PROVE  /\ stack' \in Seq(CallType) /\ Depth' = Depth - 1 /\ Depth' \in 0 .. MaxDepth
           /\ Depth \in Nat \ {0} /\ stack[Depth] \in CallType
           /\ \A i \in 1 .. Depth' : stack'[i] = stack[i]
           /\ cache' \in [Names -> [state : {"absent", "loading", "loaded"}, map : CachedMap]]
           /\ options' \in [Ctx -> Options] /\ current' \in [Ctx -> 0 .. MaxDepth]
           /\ MarkedWhileLoading' /\ CurrentKept'
<1>1. PICK d \in Nat : d + 1 = Depth
    BY Types, FrontIs DEF LeaveEntry, Depth
<1>2. /\ stack' \in Seq(CallType) /\ Depth' = d
      /\ \A i \in 1 .. d : stack'[i] = stack[i]
      /\ Running = stack[Depth]
    <2>1. /\ stack' = Front(stack) /\ stack # << >> /\ stack \in Seq(CallType)
          /\ Len(stack) = d + 1
        BY <1>1, Types DEF LeaveEntry, Depth
    <2>2. /\ stack' \in Seq(CallType) /\ Len(stack') = Len(stack) - 1
          /\ \A i \in 1 .. Len(stack) - 1 : stack'[i] = stack[i]
          /\ Last(stack) = stack[Len(stack)]
        BY <2>1, FrontIs
    <2>3. Len(stack) - 1 = d
        BY <2>1
    <2> QED BY <2>2, <2>3 DEF Depth, Running
<1>3. PICK k \in CallType : k = stack[Depth] /\ k.kind = "entry"
    BY <1>1, <1>2, Types DEF LeaveEntry
<1>4. /\ k.ctx \in Ctx /\ k.name \in Names /\ k.ignore \in BOOLEAN
      /\ k.previous \in Nat /\ k.previousOptions \in Options
    BY DEF CallType
<1>5. /\ current' = [current EXCEPT ![k.ctx] = k.previous]
      /\ options' = [options EXCEPT ![k.ctx] = k.previousOptions]
      /\ cache' = IF k.ignore THEN cache ELSE [cache EXCEPT ![k.name] = x]
    BY <1>2, <1>3 DEF LeaveEntry
<1>6. /\ \A i \in 1 .. d : i \in 1 .. Depth /\ Alike(stack'[i], stack[i])
      /\ \A i \in 1 .. Depth : i \in 1 .. d \/ i = Depth
      /\ Depth \in 1 .. Depth /\ d \in 0 .. Depth /\ d \in 0 .. MaxDepth /\ Depth - 1 = d
    BY <1>1, <1>2, Types DEF Alike
<1>7. LastEntry(stack, k.previous, k.previousOptions, k.ctx, d)
    BY <1>3, <1>6 DEF IInv, CurrentKept, Noted
<1>8. /\ cache' \in [Names -> [state : {"absent", "loading", "loaded"}, map : CachedMap]]
      /\ options' \in [Ctx -> Options] /\ current' \in [Ctx -> 0 .. MaxDepth]
    <2>1. x \in [state : {"absent", "loading", "loaded"}, map : CachedMap]
        OBVIOUS
    <2>2. k.previous \in 0 .. MaxDepth
        BY <1>1, <1>4, <1>6, <1>7 DEF LastEntry
    <2>3. cache' \in [Names -> [state : {"absent", "loading", "loaded"}, map : CachedMap]]
        BY <1>4, <1>5, <2>1, Types
    <2> QED BY <1>4, <1>5, <2>2, <2>3, Types
<1>9. MarkedWhileLoading'
    <2>1. \A i \in 1 .. d, m \in Names : Loads(i, m)' <=> Loads(i, m)
        BY <1>2 DEF Loads
    <2>2. \A m \in Names : Loads(Depth, m) <=> m = k.name /\ ~ k.ignore
        BY <1>3 DEF Loads
    <2> SUFFICES ASSUME NEW m \in Names
                 PROVE  /\ cache'[m].state = "loading" <=> \E i \in 1 .. d : Loads(i, m)'
                        /\ \A i, j \in 1 .. d : Loads(i, m)' /\ Loads(j, m)' => i = j
        BY <1>2 DEF MarkedWhileLoading
    <2>3. /\ cache[m].state = "loading" <=> \E i \in 1 .. Depth : Loads(i, m)
          /\ \A i, j \in 1 .. Depth : Loads(i, m) /\ Loads(j, m) => i = j
        BY DEF IInv, MarkedWhileLoading
    <2>4. CASE m = k.name /\ ~ k.ignore
        <3>1. cache'[m].state # "loading"
            BY <1>5, <2>4, Types
        <3>2. \A i \in 1 .. d : ~ Loads(i, m)
            BY <1>1, <1>6, <2>2, <2>3, <2>4
        <3> QED BY <2>1, <3>1, <3>2
    <2>5. CASE ~ (m = k.name /\ ~ k.ignore)
        <3>1. cache'[m] = cache[m]
            BY <1>5, <2>5, Types
        <3> QED BY <1>6, <2>1, <2>2, <2>3, <2>5, <3>1
    <2> QED BY <2>4, <2>5
<1>10. CurrentKept'
    <2>1. ASSUME NEW b \in Ctx PROVE LastEntry(stack', current'[b], options'[b], b, Depth')
        <3>1. LastEntry(stack, current'[b], options'[b], b, d)
            <4>1. CASE b = k.ctx
                BY <1>4, <1>5, <1>7, <4>1, Types
            <4>2. CASE b # k.ctx
                <5>1. current'[b] = current[b] /\ options'[b] = options[b]
                    BY <1>5, <4>2, Types
                <5>2. LastEntry(stack, current[b], options[b], b, Depth)
                    BY DEF IInv, CurrentKept
                <5>3. ~ IsEntryOf(stack, b, Depth)
                    BY <1>3, <4>2 DEF IsEntryOf
                <5>4. LastEntry(stack, current[b], options[b], b, Depth - 1)
                    BY <1>1, <5>2, <5>3, LastEntryShorter
                <5> QED BY <1>6, <5>1, <5>4
            <4> QED BY <4>1, <4>2
        <3>2. d \in Int
            BY <1>1
        <3>3. \A i \in 1 .. d : Alike(stack'[i], stack[i])
            BY <1>6
        <3>4. LastEntry(stack', current'[b], options'[b], b, d)
            BY <3>1, <3>2, <3>3, LastEntryKept
        <3> QED BY <1>2, <3>4
    <2>2. \A i \in 1 .. d : Noted(stack', i)
        <3>1. \A i \in 1 .. d : Alike(stack'[i], stack[i])
            BY <1>6
        <3> QED BY <1>6, <3>1, NotedKept
    <2> QED BY <1>2, <2>1, <2>2 DEF CurrentKept
<1>11. /\ Depth' = Depth - 1 /\ Depth' \in 0 .. MaxDepth /\ Depth \in Nat \ {0}
       /\ stack[Depth] \in CallType /\ \A i \in 1 .. Depth' : stack'[i] = stack[i]
    <2>1. Depth' = d /\ \A i \in 1 .. d : stack'[i] = stack[i]
        BY <1>2
    <2>2. stack[Depth] \in CallType
        BY <1>3
    <2>3. d \in 0 .. MaxDepth /\ d = Depth - 1 /\ Depth \in Nat \ {0}
        BY <1>1, <1>6
    <2> QED BY <2>1, <2>2, <2>3
<1> QED BY <1>2, <1>8, <1>9, <1>10, <1>11

-----------------------------------------------------------------------------
(* The largest of some calls is one of them.                                 *)
LEMMA MaxIs ==
    ASSUME NEW n \in Nat, NEW S \in SUBSET (0 .. n), S # {}
    PROVE  Max(S) \in S /\ \A y \in S : y <= Max(S)
<1> DEFINE R == {ss \in Nat \X Nat : ss[1] < ss[2]}
           T == {n - x : x \in S}
<1>1. IsWellFoundedOn(R, Nat)
    BY NatLessThanWellFounded DEF OpToRel
<1>2. T \subseteq Nat /\ T # {}
    <2>1. \A x \in S : n - x \in Nat
        OBVIOUS
    <2>2. T \subseteq Nat
        BY <2>1
    <2>3. PICK x \in S : TRUE
        OBVIOUS
    <2>4. n - x \in T
        OBVIOUS
    <2> QED BY <2>2, <2>4
<1>3. PICK t \in T : \A u \in T : ~ (<<u, t>> \in R)
    <2> HIDE DEF R, T
    <2> QED BY <1>1, <1>2, WFMin
<1>4. PICK x \in S : t = n - x
    OBVIOUS
<1>5. ASSUME NEW y \in S PROVE x >= y
    <2>1. n - y \in T /\ n - y \in Nat /\ n - x \in Nat
        OBVIOUS
    <2>2. ~ (<<n - y, n - x>> \in R)
        BY <1>3, <1>4, <2>1
    <2>3. ~ (n - y < n - x)
        BY <2>1, <2>2
    <2> QED BY <2>3
<1>6. Max(S) \in S /\ \A y \in S : Max(S) >= y
    <2>1. \E z \in S : \A y \in S : z >= y
        BY <1>5
    <2> HIDE DEF R, T
    <2> QED BY <2>1 DEF Max
<1> QED BY <1>6

LEMMA InnermostIs ==
    ASSUME IInv, NEW c \in Ctx
    PROVE  /\ Innermost(c) \in 0 .. Depth
           /\ Innermost(c) # 0 => stack[Innermost(c)].ctx = c
<1> DEFINE S == {0} \cup {i \in 1 .. Depth : stack[i].ctx = c}
<1>1. Depth \in Nat /\ S \in SUBSET (0 .. Depth) /\ S # {}
    BY Types
<1>2. Max(S) \in S
    <2> HIDE DEF S
    <2> QED BY <1>1, MaxIs
<1> QED BY <1>1, <1>2 DEF Innermost

-----------------------------------------------------------------------------
(* The lists of the loaders.                                                 *)
ListsOK ==
    /\ loaders \in [Ctx -> [len : 0 .. MaxLoaders, zone : 0 .. Depth]]
    /\ \A i \in 1 .. Depth : stack[i].kind = "loader" => stack[i].left \in 1 .. MaxLoaders
    /\ LoadersHere /\ LoadersOutliveImport

(* When the last call ends, the lists in its zone go, which is none of those *)
(* that an import goes through.                                              *)
LEMMA ZoneExited ==
    ASSUME IInv, stack # << >>, ExitZone(Depth)
    PROVE  /\ loaders' \in [Ctx -> [len : 0 .. MaxLoaders, zone : 0 .. Depth - 1]]
           /\ \A c \in Ctx : loaders'[c].zone # 0 => loaders'[c] = loaders[c]
           /\ \A i \in 1 .. Depth : stack[i].kind = "loader" =>
                loaders'[stack[i].ctx] = loaders[stack[i].ctx]
<1>1. Depth \in Nat \ {0} /\ MaxLoaders \in Nat
    BY Types, FrontIs DEF Depth
<1>2. ASSUME NEW c \in Ctx
      PROVE  /\ loaders'[c] \in [len : 0 .. MaxLoaders, zone : 0 .. Depth - 1]
             /\ loaders'[c].zone # 0 => loaders'[c] = loaders[c]
    <2>1. /\ loaders[c] \in [len : 0 .. MaxLoaders, zone : 0 .. Depth]
          /\ loaders[c].zone # 0 => stack[loaders[c].zone].ctx = c
        BY Types, ZoneIs
    <2>2. CASE c = stack[Depth].ctx /\ loaders[c].zone = Depth
        <3>1. loaders'[c] = NoLoaders
            BY <2>2 DEF ExitZone
        <3> QED BY <1>1, <3>1 DEF NoLoaders
    <2>3. CASE ~ (c = stack[Depth].ctx /\ loaders[c].zone = Depth)
        <3>1. loaders'[c] = loaders[c]
            BY <2>3 DEF ExitZone
        <3>2. loaders[c].zone # Depth
            BY <1>1, <2>1, <2>3
        <3> QED BY <1>1, <2>1, <3>1, <3>2
    <2> QED BY <2>2, <2>3
<1>3. ASSUME NEW i \in 1 .. Depth, stack[i].kind = "loader"
      PROVE  loaders'[stack[i].ctx] = loaders[stack[i].ctx]
    <2>1. stack[i].ctx \in Ctx
        BY Types DEF CallType
    <2>2. loaders[stack[i].ctx].zone < i
        BY <1>3 DEF IInv, LoadersOutliveImport
    <2>3. loaders[stack[i].ctx].zone # Depth
        BY <1>1, <2>1, <2>2, ZoneIs
    <2> QED BY <2>1, <2>3 DEF ExitZone
<1>4. loaders' \in [Ctx -> [len : 0 .. MaxLoaders, zone : 0 .. Depth - 1]]
    BY <1>2 DEF ExitZone
<1> QED BY <1>2, <1>3, <1>4

LEMMA NoMoreThan ==
    ASSUME NEW x \in Nat, NEW y \in Nat, x <= y, NEW a, a \in 1 .. x
    PROVE  a <= y
OBVIOUS

(* The first d calls go on, one may be new: a list of loaders that an import *)
(* goes through is where it was, and as long.                                *)
LEMMA ListsKept ==
    ASSUME IInv, NEW d \in 0 .. Depth, Depth' = d \/ Depth' = d + 1, stack' \in Seq(CallType),
           \A i \in 1 .. d : /\ stack'[i].kind = stack[i].kind /\ stack'[i].ctx = stack[i].ctx
                             /\ stack[i].kind = "loader" => stack'[i].left \in 1 .. stack[i].left,
           loaders' \in [Ctx -> [len : 0 .. MaxLoaders, zone : 0 .. d]],
           \A c \in Ctx : loaders'[c].zone # 0 => stack[loaders'[c].zone].ctx = c,
           \A i \in 1 .. d : stack[i].kind = "loader" =>
               /\ loaders'[stack[i].ctx].zone = loaders[stack[i].ctx].zone
               /\ loaders'[stack[i].ctx].len >= loaders[stack[i].ctx].len,
           Depth' = d + 1 /\ stack'[Depth'].kind = "loader" =>
               stack'[Depth'].left \in 1 .. loaders'[stack'[Depth'].ctx].len
    PROVE  ListsOK'
<1>1. /\ Depth \in Nat /\ d \in Nat /\ Depth' \in Nat /\ MaxLoaders \in Nat
      /\ Depth' = Len(stack')
      /\ \A i \in 1 .. Depth' : stack'[i].ctx \in Ctx
    <2>1. Depth \in Nat /\ d \in Nat /\ Depth' \in Nat /\ MaxLoaders \in Nat
        BY Types
    <2>2. \A i \in 1 .. Len(stack') : stack'[i] \in CallType
        OBVIOUS
    <2> QED BY <2>1, <2>2 DEF Depth, CallType
<1>2. loaders' \in [Ctx -> [len : 0 .. MaxLoaders, zone : 0 .. Depth']]
    <2>1. \A z \in 0 .. d : z \in 0 .. Depth'
        BY <1>1
    <2> QED BY <2>1
<1>3. LoadersHere'
    <2> SUFFICES ASSUME NEW c \in Ctx, loaders'[c].zone # 0
                 PROVE  stack'[loaders'[c].zone].ctx = c
        BY DEF LoadersHere
    <2>1. loaders'[c].zone \in 1 .. d
        BY <1>1
    <2> QED BY <2>1
<1>4. ASSUME NEW i \in 1 .. Depth', stack'[i].kind = "loader"
      PROVE  /\ stack'[i].left \in 1 .. MaxLoaders
             /\ stack'[i].left <= loaders'[stack'[i].ctx].len
             /\ loaders'[stack'[i].ctx].zone < i
    <2>1. CASE i \in 1 .. d
        <3>1. i \in 1 .. Depth /\ stack[i].kind = "loader" /\ stack'[i].left \in 1 .. stack[i].left
            BY <1>1, <1>4, <2>1
        <3>2. /\ stack[i].left \in 1 .. MaxLoaders
              /\ stack[i].left <= loaders[stack[i].ctx].len /\ loaders[stack[i].ctx].zone < i
            BY <3>1 DEF IInv, TypeOK, LoadersOutliveImport
        <3>3. /\ loaders'[stack'[i].ctx].zone = loaders[stack[i].ctx].zone
              /\ loaders'[stack'[i].ctx].len >= loaders[stack[i].ctx].len
            BY <2>1, <3>1
        <3>4. loaders[stack[i].ctx].len \in Nat /\ loaders'[stack'[i].ctx].len \in Nat
            <4>1. stack[i].ctx \in Ctx
                BY <3>1, Types DEF CallType
            <4>2. loaders[stack[i].ctx].len \in 0 .. MaxLoaders
                BY <4>1, Types
            <4>3. loaders'[stack'[i].ctx].len \in 0 .. MaxLoaders
                BY <1>1
            <4> QED BY <1>1, <4>2, <4>3
        <3>5. stack'[i].left \in 1 .. MaxLoaders
            BY <1>1, <3>1, <3>2
        <3>6. stack'[i].left <= loaders'[stack'[i].ctx].len
            <4>1. stack'[i].ctx = stack[i].ctx
                BY <2>1
            <4>2. stack[i].left <= loaders'[stack'[i].ctx].len
                BY <1>1, <3>2, <3>3, <3>4, <4>1
            <4>3. stack[i].left \in Nat /\ loaders'[stack'[i].ctx].len \in Nat
                BY <1>1, <3>2, <3>4, <4>1
            <4> QED BY <3>1, <4>2, <4>3, NoMoreThan
        <3>7. loaders'[stack'[i].ctx].zone < i
            BY <3>2, <3>3
        <3> QED BY <3>5, <3>6, <3>7
    <2>2. CASE i = d + 1 /\ Depth' = d + 1
        <3>1. PICK l \in [len : 0 .. MaxLoaders, zone : 0 .. d] : l = loaders'[stack'[i].ctx]
            BY <1>1
        <3>2. stack'[i].left \in 1 .. l.len
            BY <1>4, <2>2, <3>1
        <3> QED BY <1>1, <2>2, <3>1, <3>2
    <2> QED BY <1>1, <2>1, <2>2
<1>5. LoadersOutliveImport'
    BY <1>4 DEF LoadersOutliveImport
<1> QED BY <1>2, <1>3, <1>4, <1>5 DEF ListsOK

-----------------------------------------------------------------------------
(* The parts of IInv, put together.                                          *)
LEMMA Together ==
    ASSUME IInv, ListsOK', stack' \in Seq(CallType), Depth' <= MaxDepth,
           cache' \in [Names -> [state : {"absent", "loading", "loaded"}, map : CachedMap]],
           options' \in [Ctx -> Options], current' \in [Ctx -> 0 .. MaxDepth],
           result' \in Values \cup Errors \cup {Nil}, answered' \in Answered,
           MarkedWhileLoading', CurrentKept'
    PROVE  IInv'
BY DEF IInv, TypeOK, ListsOK, Answered

LEMMA ListsNow == IInv => ListsOK
BY DEF IInv, TypeOK, ListsOK

LEMMA LookupIs ==
    ASSUME NEW map \in Map, NEW e \in Exports
    PROVE  Lookup(map, e) \in Values \cup {NameError} /\ NameError \in Errors
BY ErrorsAre DEF Map, Lookup

LEMMA AnswersIs ==
    ASSUME IInv, NEW n \in Names, NEW e \in Exports, NEW r \in Values \cup {NameError},
           Answers(n, e, r)
    PROVE  answered' \in Answered
BY Types DEF Answers, Answered

LEMMA AnswerKeeps ==
    ASSUME IInv, NEW r \in Values \cup Errors \cup {Nil}, Answer(r), UNCHANGED loaders,
           answered' \in Answered
    PROVE  IInv'
<1>1. UNCHANGED <<cache, current, options, loaders, stack>> /\ Depth' = Depth
    BY DEF Answer, Depth
<1>2. CurrentKept' /\ MarkedWhileLoading' /\ ListsOK'
    BY <1>1, ListsNow DEF IInv, CurrentKept, Noted, LastEntry, IsEntryOf, MarkedWhileLoading, Loads,
                ListsOK, LoadersHere, LoadersOutliveImport
<1>3. result' \in Values \cup Errors \cup {Nil}
    BY DEF Answer
<1> QED BY <1>1, <1>2, <1>3, Types, Together

LEMMA ImportKeeps ==
    ASSUME IInv, NEW c \in Ctx, NEW n \in Names, NEW e \in Exports, Import(c, n, e)
    PROVE  IInv'
<1>1. CASE /\ Answer(Lookup(cache[n].map, e)) /\ UNCHANGED loaders
           /\ Answers(n, e, Lookup(cache[n].map, e))
    <2>1. Lookup(cache[n].map, e) \in Values \cup {NameError} /\ NameError \in Errors
        <3>1. cache[n].map \in Map
            BY CachedMapIs, Types
        <3> QED BY <3>1, LookupIs
    <2>2. answered' \in Answered
        BY <1>1, <2>1, AnswersIs
    <2> QED BY <1>1, <2>1, <2>2, AnswerKeeps
<1>2. ASSUME NEW r \in Errors, Answer(r), UNCHANGED <<loaders, answered>>
      PROVE  IInv'
    BY <1>2, AnswerKeeps, Types
<1>3. CASE /\ cache[n].state = "absent" /\ loaders[c].len > 0 /\ Depth < MaxDepth
           /\ stack' = Append(stack, LoaderCall(c, n, e, loaders[c].len))
           /\ UNCHANGED <<cache, current, options, loaders, result, answered>>
    <2> DEFINE call == LoaderCall(c, n, e, loaders[c].len)
    <2>1. /\ loaders[c].len \in Nat /\ loaders[c].len \in 1 .. loaders[c].len
          /\ Depth \in Nat /\ Depth \in 0 .. Depth /\ Depth + 1 <= MaxDepth
        BY <1>3, Types
    <2>2. call \in CallType
        BY <2>1, CallIs DEF LoaderCall
    <2>3. /\ call.kind = "loader" /\ ~ call.ignore /\ call.ctx = c
          /\ call.left = loaders[c].len
        BY DEF LoaderCall, Call
    <2> HIDE DEF call
    <2>4. /\ stack' \in Seq(CallType) /\ Depth' = Depth + 1 /\ stack'[Depth'] = call
          /\ \A i \in 1 .. Depth : stack'[i] = stack[i]
        BY <1>3, <2>2, Types, AppendProperties DEF Depth, call
    <2>5. MarkedWhileLoading' /\ CurrentKept'
        BY <1>3, <2>2, <2>3, LoaderPushes DEF call
    <2>6. ListsOK'
        <3>1. \A i \in 1 .. Depth :
                  /\ stack'[i].kind = stack[i].kind /\ stack'[i].ctx = stack[i].ctx
                  /\ stack[i].kind = "loader" => stack'[i].left \in 1 .. stack[i].left
            <4>1. \A i \in 1 .. Depth : stack[i].kind = "loader" => stack[i].left \in 1 .. MaxLoaders
                BY DEF IInv, TypeOK
            <4> QED BY <2>4, <4>1
        <3>2. \A b \in Ctx : loaders'[b].zone # 0 => stack[loaders'[b].zone].ctx = b
            BY <1>3 DEF IInv, LoadersHere
        <3>3. \A i \in 1 .. Depth : stack[i].kind = "loader" =>
                  /\ loaders'[stack[i].ctx].zone = loaders[stack[i].ctx].zone
                  /\ loaders'[stack[i].ctx].len >= loaders[stack[i].ctx].len
            BY <1>3, Types DEF CallType
        <3>4. loaders' \in [Ctx -> [len : 0 .. MaxLoaders, zone : 0 .. Depth]]
            BY <1>3, Types
        <3>5. stack'[Depth'].left \in 1 .. loaders'[stack'[Depth'].ctx].len
            BY <1>3, <2>1, <2>3, <2>4
        <3> QED BY <2>1, <2>4, <3>1, <3>2, <3>3, <3>4, <3>5, ListsKept
    <2> QED BY <1>3, <2>1, <2>4, <2>5, <2>6, Types, Together
<1> QED BY <1>1, <1>2, <1>3, ErrorsAre DEF Import

(* A call ends or an entry begins.                                           *)
LEMMA ListsUnder ==
    ASSUME IInv, NEW d \in 0 .. Depth, Depth' = d \/ Depth' = d + 1, stack' \in Seq(CallType),
           \A i \in 1 .. d : stack'[i] = stack[i],
           \/ d = Depth /\ UNCHANGED loaders
           \/ d = Depth - 1 /\ ExitZone(Depth),
           Depth' = d + 1 => stack'[Depth'].kind = "entry"
    PROVE  ListsOK'
<1>1. d \in Nat /\ Depth \in Nat /\ \A i \in 1 .. d : i \in 1 .. Depth
    BY Types
<1>2. \A i \in 1 .. d :
          /\ stack'[i].kind = stack[i].kind /\ stack'[i].ctx = stack[i].ctx
          /\ stack[i].kind = "loader" => stack'[i].left \in 1 .. stack[i].left
    BY <1>1, Types DEF IInv, TypeOK
<1>3. /\ loaders' \in [Ctx -> [len : 0 .. MaxLoaders, zone : 0 .. d]]
      /\ \A c \in Ctx : loaders'[c].zone # 0 => stack[loaders'[c].zone].ctx = c
      /\ \A i \in 1 .. d : stack[i].kind = "loader" => loaders'[stack[i].ctx] = loaders[stack[i].ctx]
    <2>1. CASE d = Depth /\ UNCHANGED loaders
        BY <2>1, Types DEF IInv, LoadersHere
    <2>2. CASE d = Depth - 1 /\ ExitZone(Depth)
        <3>1. stack # << >>
            BY <1>1, <2>2 DEF Depth
        <3>2. /\ loaders' \in [Ctx -> [len : 0 .. MaxLoaders, zone : 0 .. d]]
              /\ \A c \in Ctx : loaders'[c].zone # 0 => loaders'[c] = loaders[c]
              /\ \A i \in 1 .. Depth : stack[i].kind = "loader" =>
                    loaders'[stack[i].ctx] = loaders[stack[i].ctx]
            BY <2>2, <3>1, ZoneExited
        <3> QED BY <1>1, <3>2, ZoneIs
    <2> QED BY <2>1, <2>2
<1>4. ASSUME NEW i \in 1 .. d, stack[i].kind = "loader"
      PROVE  /\ loaders'[stack[i].ctx].zone = loaders[stack[i].ctx].zone
             /\ loaders'[stack[i].ctx].len >= loaders[stack[i].ctx].len
    <2>1. loaders'[stack[i].ctx] = loaders[stack[i].ctx]
        BY <1>3, <1>4
    <2>2. stack[i].ctx \in Ctx
        BY <1>1, Types DEF CallType
    <2>3. loaders[stack[i].ctx].len \in Nat
        BY <2>2, Types
    <2> QED BY <2>1, <2>3
<1> QED BY <1>2, <1>3, <1>4, ListsKept

LEMMA InitModuleKeeps ==
    ASSUME IInv, NEW c \in Ctx, NEW n \in Names, NEW ignore \in BOOLEAN, InitModule(c, n, ignore)
    PROVE  IInv'
<1>1. CASE Answer(Error("core/duplicated-module"))
    BY <1>1, AnswerKeeps, ErrorsAre, Types DEF InitModule
<1>2. CASE /\ ignore \/ cache[n].state = "absent"
           /\ Depth < MaxDepth /\ UNCHANGED result
           /\ StartEntry(stack, EntryCall(c, n, Main, ignore, "init_module"))
    <2>1. Below(stack) /\ Len(stack) = Depth /\ Depth \in 0 .. Depth
        BY Types DEF Below, Depth
    <2>2. /\ stack' \in Seq(CallType) /\ Depth' = Depth + 1 /\ Depth' \in 1 .. MaxDepth
          /\ stack'[Depth'].kind = "entry" /\ \A i \in 1 .. Depth : stack'[i] = stack[i]
          /\ cache' \in [Names -> [state : {"absent", "loading", "loaded"}, map : CachedMap]]
          /\ options' \in [Ctx -> Options] /\ current' \in [Ctx -> 0 .. MaxDepth]
          /\ MarkedWhileLoading' /\ CurrentKept'
        BY <1>2, <2>1, EntryStarts
    <2>3. ListsOK'
        BY <2>1, <2>2, ListsUnder DEF InitModule
    <2>4. answered' \in Answered
        BY Types DEF InitModule
    <2> QED BY <1>2, <2>2, <2>3, <2>4, Types, Together
<1> QED BY <1>1, <1>2 DEF InitModule

LEMMA LoaderFindsKeeps == ASSUME IInv, LoaderFinds PROVE IInv'
<1>1. /\ stack # << >> /\ stack \in Seq(CallType) /\ Depth \in Nat \ {0}
      /\ Front(stack) \in Seq(CallType) /\ Len(Front(stack)) = Depth - 1
      /\ \A i \in 1 .. Depth - 1 : Front(stack)[i] = stack[i]
      /\ Running = stack[Depth] /\ Running \in CallType /\ Running.kind = "loader"
    BY Types, FrontIs DEF LoaderFinds, Running, Depth
<1>2. ExitZone(Depth) /\ Depth - 1 \in 0 .. Depth /\ Depth <= MaxDepth
    BY <1>1, Types DEF LoaderFinds
<1>3. answered' \in Answered
    BY Types DEF LoaderFinds
<1>4. CASE /\ cache[Running.name].state = "absent" /\ UNCHANGED result
           /\ StartEntry(Front(stack), EntryCall(Running.ctx, Running.name,
                                                 Running.export, FALSE, "import"))
    <2>1. Below(Front(stack)) /\ Len(Front(stack)) < MaxDepth
        BY <1>1, <1>2, Types DEF Below
    <2>2. Running.ctx \in Ctx /\ Running.name \in Names /\ Running.export \in Exports
        BY <1>1 DEF CallType
    <2>3. /\ stack' \in Seq(CallType) /\ Depth' = Depth - 1 + 1 /\ Depth' \in 1 .. MaxDepth
          /\ stack'[Depth'].kind = "entry" /\ \A i \in 1 .. Depth - 1 : stack'[i] = stack[i]
          /\ cache' \in [Names -> [state : {"absent", "loading", "loaded"}, map : CachedMap]]
          /\ options' \in [Ctx -> Options] /\ current' \in [Ctx -> 0 .. MaxDepth]
          /\ MarkedWhileLoading' /\ CurrentKept'
        <3> HIDE DEF Running
        <3> QED BY <1>1, <1>4, <2>1, <2>2, EntryStarts
    <2>4. ListsOK'
        BY <1>2, <2>3, ListsUnder
    <2> QED BY <1>4, <1>3, <2>3, <2>4, Types, Together
<1>5. CASE /\ stack' = Front(stack) /\ result' = Error("core/duplicated-module")
           /\ UNCHANGED <<cache, current, options>>
    <2>1. /\ stack' \in Seq(CallType) /\ Depth' = Depth - 1 /\ Depth' <= MaxDepth
          /\ \A i \in 1 .. Depth - 1 : stack'[i] = stack[i]
        BY <1>1, <1>2, <1>5, Types DEF Depth
    <2>2. ListsOK'
        BY <1>1, <1>2, <2>1, ListsUnder
    <2>3. MarkedWhileLoading' /\ CurrentKept'
        BY <1>1, <1>5, LoaderPops
    <2> QED BY <1>5, <1>3, <2>1, <2>2, <2>3, ErrorsAre, Types, Together
<1> QED BY <1>4, <1>5 DEF LoaderFinds

LEMMA LoaderFailsKeeps == ASSUME IInv, LoaderFails PROVE IInv'
<1>1. /\ stack # << >> /\ stack \in Seq(CallType) /\ Depth \in Nat \ {0}
      /\ Front(stack) \in Seq(CallType) /\ Len(Front(stack)) = Depth - 1
      /\ \A i \in 1 .. Depth - 1 : Front(stack)[i] = stack[i]
      /\ Running = stack[Depth] /\ Running \in CallType /\ Running.kind = "loader"
    BY Types, FrontIs DEF LoaderFails, Running, Depth
<1>2. /\ ExitZone(Depth) /\ Depth - 1 \in 0 .. Depth /\ Depth <= MaxDepth
      /\ Depth \in 1 .. Depth /\ Depth \in 0 .. Depth
    BY <1>1, Types DEF LoaderFails
<1>3. answered' \in Answered
    BY Types DEF LoaderFails
<1>4. CASE /\ stack' = Front(stack) /\ result' = Error("core/module-not-found")
           /\ UNCHANGED <<cache, current, options>>
    <2>1. /\ stack' \in Seq(CallType) /\ Depth' = Depth - 1 /\ Depth' <= MaxDepth
          /\ \A i \in 1 .. Depth - 1 : stack'[i] = stack[i]
        BY <1>1, <1>2, <1>4, Types DEF Depth
    <2>2. ListsOK'
        BY <1>1, <1>2, <2>1, ListsUnder
    <2>3. MarkedWhileLoading' /\ CurrentKept'
        BY <1>1, <1>4, LoaderPops
    <2> QED BY <1>4, <1>3, <2>1, <2>2, <2>3, ErrorsAre, Types, Together
<1>5. CASE /\ Running.left > 1 /\ stack' = [stack EXCEPT ![Depth].left = @ - 1]
           /\ UNCHANGED <<cache, current, options, result>>
    <2>1. stack[Depth].left - 1 \in Nat /\ stack[Depth].left - 1 \in 1 .. stack[Depth].left
        <3>1. stack[Depth].left \in Nat /\ stack[Depth].left > 1
            BY <1>1, <1>5 DEF CallType
        <3> QED BY <3>1
    <2>2. [stack[Depth] EXCEPT !.left = @ - 1] \in CallType
        BY <1>1, <2>1 DEF CallType
    <2>3. /\ stack' \in Seq(CallType) /\ Depth' = Depth /\ Len(stack') = Depth
          /\ \A i \in 1 .. Depth : i # Depth => stack'[i] = stack[i]
          /\ stack'[Depth] = [stack[Depth] EXCEPT !.left = @ - 1]
        <3>1. stack' = [stack EXCEPT ![Depth] = [stack[Depth] EXCEPT !.left = @ - 1]]
            BY <1>5
        <3>2. /\ stack' \in Seq(CallType) /\ Len(stack') = Len(stack)
              /\ \A i \in 1 .. Len(stack) :
                    stack'[i] = IF i = Depth THEN [stack[Depth] EXCEPT !.left = @ - 1] ELSE stack[i]
            BY <1>1, <1>2, <2>2, <3>1, ExceptSeq DEF Depth
        <3> QED BY <1>2, <3>2 DEF Depth
    <2>4. /\ stack'[Depth].left = stack[Depth].left - 1
          /\ Alike(stack'[Depth], stack[Depth])
        BY <1>1, <2>3 DEF CallType, Alike
    <2>5. \A i \in 1 .. Depth : Alike(stack'[i], stack[i])
        BY <2>3, <2>4 DEF Alike
    <2>6. MarkedWhileLoading' /\ CurrentKept'
        BY <1>5, <2>3, <2>5, CallsKept
    <2>7. \A i \in 1 .. Depth :
              /\ stack'[i].kind = stack[i].kind /\ stack'[i].ctx = stack[i].ctx
              /\ stack[i].kind = "loader" => stack'[i].left \in 1 .. stack[i].left
        <3> SUFFICES ASSUME NEW i \in 1 .. Depth, stack[i].kind = "loader"
                     PROVE  stack'[i].left \in 1 .. stack[i].left
            BY <2>5 DEF Alike
        <3>1. CASE i = Depth
            BY <2>1, <2>4, <3>1
        <3>2. CASE i # Depth
            <4>1. stack[i].left \in 1 .. MaxLoaders
                BY DEF IInv, TypeOK
            <4> QED BY <2>3, <3>2, <4>1
        <3> QED BY <3>1, <3>2
    <2>8. /\ loaders' \in [Ctx -> [len : 0 .. MaxLoaders, zone : 0 .. Depth]]
          /\ \A c \in Ctx : loaders'[c].zone # 0 => loaders'[c] = loaders[c]
          /\ \A i \in 1 .. Depth : stack[i].kind = "loader" =>
                loaders'[stack[i].ctx] = loaders[stack[i].ctx]
        <3>1. \A z \in 0 .. Depth - 1 : z \in 0 .. Depth
            BY <1>1
        <3>2. loaders' \in [Ctx -> [len : 0 .. MaxLoaders, zone : 0 .. Depth - 1]]
            BY <1>1, <1>2, ZoneExited
        <3>3. loaders' \in [Ctx -> [len : 0 .. MaxLoaders, zone : 0 .. Depth]]
            BY <3>1, <3>2
        <3> QED BY <1>1, <1>2, <3>3, ZoneExited
    <2>9. \A c \in Ctx : loaders'[c].zone # 0 => stack[loaders'[c].zone].ctx = c
        BY <2>8, ZoneIs
    <2>10. ASSUME NEW i \in 1 .. Depth, stack[i].kind = "loader"
           PROVE  /\ loaders'[stack[i].ctx].zone = loaders[stack[i].ctx].zone
                  /\ loaders'[stack[i].ctx].len >= loaders[stack[i].ctx].len
        <3>1. stack[i].ctx \in Ctx
            BY Types DEF CallType
        <3>2. loaders[stack[i].ctx].len \in Nat
            BY <3>1, Types
        <3> QED BY <2>8, <2>10, <3>2
    <2>11. ListsOK'
        <3>1. /\ Depth \in 0 .. Depth /\ stack' \in Seq(CallType)
              /\ Depth' = Depth \/ Depth' = Depth + 1
              /\ ~ (Depth' = Depth + 1 /\ stack'[Depth'].kind = "loader")
            BY <1>1, <2>3
        <3>2. loaders' \in [Ctx -> [len : 0 .. MaxLoaders, zone : 0 .. Depth]]
            BY <2>8
        <3> QED BY <3>1, <3>2, <2>7, <2>9, <2>10, ListsKept
    <2> QED BY <1>2, <1>5, <1>3, <2>3, <2>6, <2>11, Types, Together
<1> QED BY <1>4, <1>5 DEF LoaderFails

LEMMA ExportKeeps ==
    ASSUME IInv, NEW c \in Ctx, NEW e \in Exports, NEW v \in AtHand, Export(c, e, v)
    PROVE  IInv'
<1> DEFINE k == current[c]
           y == [stack[k] EXCEPT !.map = [@ EXCEPT ![e] = v]]
<1>1. /\ k \in 1 .. Depth /\ Depth \in Nat /\ stack \in Seq(CallType) /\ Depth = Len(stack)
      /\ UNCHANGED <<cache, current, options, loaders, result, answered>>
      /\ stack' = [stack EXCEPT ![k] = y]
    BY Types DEF Export, Depth
<1>2. stack[k] \in CallType /\ stack[k].map \in Map
    BY <1>1, Types DEF CallType
<1>3. [stack[k].map EXCEPT ![e] = v] \in Map
    <2>1. v \in Values \cup {Nil}
        BY AtHandIs
    <2> QED BY <1>2, <2>1 DEF Map
<1>4. y \in CallType /\ y.left = stack[k].left /\ Alike(y, stack[k])
    BY <1>2, <1>3 DEF CallType, Alike
<1> HIDE DEF k, y
<1>5. /\ stack' \in Seq(CallType) /\ Len(stack') = Depth /\ Depth' = Depth
      /\ \A i \in 1 .. Depth : stack'[i] = IF i = k THEN y ELSE stack[i]
    BY <1>1, <1>4, ExceptSeq DEF Depth
<1>6. \A i \in 1 .. Depth : Alike(stack'[i], stack[i]) /\ stack'[i].left = stack[i].left
    BY <1>4, <1>5 DEF Alike
<1>7. MarkedWhileLoading' /\ CurrentKept'
    BY <1>1, <1>5, <1>6, CallsKept
<1>8. Depth \in 0 .. Depth /\ Depth <= MaxDepth
    BY Types
<1>9. \A i \in 1 .. Depth :
          /\ stack'[i].kind = stack[i].kind /\ stack'[i].ctx = stack[i].ctx
          /\ stack[i].kind = "loader" => stack'[i].left \in 1 .. stack[i].left
    BY <1>6, Types DEF Alike, IInv, TypeOK
<1>10. /\ loaders' \in [Ctx -> [len : 0 .. MaxLoaders, zone : 0 .. Depth]]
       /\ \A b \in Ctx : loaders'[b].zone # 0 => stack[loaders'[b].zone].ctx = b
    BY <1>1, Types, ZoneIs
<1>11. ASSUME NEW i \in 1 .. Depth, stack[i].kind = "loader"
       PROVE  /\ loaders'[stack[i].ctx].zone = loaders[stack[i].ctx].zone
              /\ loaders'[stack[i].ctx].len >= loaders[stack[i].ctx].len
    <2>1. stack[i].ctx \in Ctx
        BY Types DEF CallType
    <2>2. loaders[stack[i].ctx].len \in Nat
        BY <2>1, Types
    <2> QED BY <1>1, <2>2
<1>12. ListsOK'
    BY <1>5, <1>8, <1>9, <1>10, <1>11, ListsKept
<1> QED BY <1>1, <1>5, <1>7, <1>8, <1>12, Types, Together

(* The entry of a module returns, or fails: x is what the cache gets.        *)
LEMMA EntryKeeps ==
    ASSUME IInv, LeaveEntry,
           NEW x \in [state : {"absent", "loaded"}, map : CachedMap],
           cache' = IF Running.ignore THEN cache ELSE [cache EXCEPT ![Running.name] = x],
           result' \in Values \cup Errors \cup {Nil}, answered' \in Answered
    PROVE  IInv'
<1>1. /\ stack' \in Seq(CallType) /\ Depth' = Depth - 1 /\ Depth' \in 0 .. MaxDepth
      /\ Depth \in Nat \ {0}
      /\ \A i \in 1 .. Depth' : stack'[i] = stack[i]
      /\ cache' \in [Names -> [state : {"absent", "loading", "loaded"}, map : CachedMap]]
      /\ options' \in [Ctx -> Options] /\ current' \in [Ctx -> 0 .. MaxDepth]
      /\ MarkedWhileLoading' /\ CurrentKept'
    BY EntryLeaves
<1>2. Depth - 1 \in 0 .. Depth /\ ExitZone(Depth) /\ Depth' # Depth - 1 + 1
    BY <1>1 DEF LeaveEntry
<1>3. ListsOK'
    BY <1>1, <1>2, ListsUnder
<1> QED BY <1>1, <1>3, Together

LEMMA RunningIs ==
    ASSUME IInv, LeaveEntry
    PROVE  /\ Running \in CallType /\ Running.map \in Map /\ Running.export \in Exports
           /\ Running.name \in Names /\ Running.kind = "entry"
<1>1. Running \in CallType
    BY Types, FrontIs DEF LeaveEntry, Running
<1> QED BY <1>1 DEF CallType, LeaveEntry

(* What an entry that returns v has exported, and what the cache keeps of it. *)
LEMMA ModuleIs ==
    ASSUME IInv, LeaveEntry, NEW v \in AtHand
    PROVE  /\ [Running.map EXCEPT ![Main] = v] \in Map
           /\ \A module \in Map :
                Loaded([e \in Exports |-> InCache(Running.name, module[e])])
                    \in [state : {"absent", "loaded"}, map : CachedMap]
<1>1. v \in Values \cup {Nil} /\ Running.name \in Names
    BY AtHandIs, RunningIs
<1>2. [Running.map EXCEPT ![Main] = v] \in Map
    BY <1>1, RunningIs DEF Map
<1>3. ASSUME NEW module \in Map
      PROVE  Loaded([e \in Exports |-> InCache(Running.name, module[e])])
                \in [state : {"absent", "loaded"}, map : CachedMap]
    <2>1. \A e \in Exports : InCache(Running.name, module[e]) \in Plain \cup Cached \cup {Nil}
        BY <1>1, InCacheIs DEF Map
    <2> QED BY <2>1 DEF Loaded, CachedMap
<1> QED BY <1>2, <1>3

LEMMA EntryReturnsKeeps ==
    ASSUME IInv, NEW v \in AtHand, EntryReturns(v)
    PROVE  IInv'
<1> DEFINE module == [Running.map EXCEPT ![Main] = v]
<1>1. LeaveEntry
    BY DEF EntryReturns
<1>2. module \in Map /\ v \in Values \cup {Nil}
    BY <1>1, ModuleIs, AtHandIs
<1>3. CASE Running.ignore /\ result' = v /\ UNCHANGED <<cache, answered>>
    <2>1. Absent \in [state : {"absent", "loaded"}, map : CachedMap]
        BY EmptyMap DEF Absent
    <2> QED BY <1>1, <1>2, <1>3, <2>1, EntryKeeps, Types
<1>4. CASE ~ Running.ignore /\ Keep(Running.name, module) /\ AnswerFrom(module, v)
    <2> DEFINE x == Loaded([e \in Exports |-> InCache(Running.name, module[e])])
    <2>1. x \in [state : {"absent", "loaded"}, map : CachedMap]
        BY <1>1, <1>2, ModuleIs
    <2>2. cache' = [cache EXCEPT ![Running.name] = x]
        BY <1>4 DEF Keep
    <2> HIDE DEF module, x
    <2>3. /\ Lookup(module, Running.export) \in Values \cup {NameError}
          /\ NameError \in Errors
        BY <1>1, <1>2, RunningIs, LookupIs
    <2>4. answered' \in Answered /\ result' \in Values \cup Errors \cup {Nil}
        <3>1. CASE UNCHANGED answered /\ result' = v
            BY <1>2, <3>1, Types
        <3>2. CASE /\ result' = Lookup(module, Running.export)
                   /\ Answers(Running.name, Running.export, Lookup(module, Running.export))
            <4>1. answered' \in Answered
                BY <1>1, <2>3, <3>2, AnswersIs, RunningIs
            <4> QED BY <2>3, <3>2, <4>1
        <3> QED BY <1>4, <3>1, <3>2 DEF AnswerFrom
    <2> QED BY <1>1, <1>4, <2>1, <2>2, <2>4, EntryKeeps
<1> QED BY <1>3, <1>4 DEF EntryReturns

LEMMA EntryFailsKeeps == ASSUME IInv, EntryFails PROVE IInv'
<1>1. Absent \in [state : {"absent", "loaded"}, map : CachedMap]
    BY EmptyMap DEF Absent
<1>2. LeaveEntry /\ result' \in Values \cup Errors \cup {Nil} /\ answered' \in Answered
    BY ErrorsAre, Types DEF EntryFails
<1>3. cache' = IF Running.ignore THEN cache ELSE [cache EXCEPT ![Running.name] = Absent]
    BY DEF EntryFails
<1> QED BY <1>1, <1>2, <1>3, EntryKeeps

LEMMA AddLoaderKeeps == ASSUME IInv, NEW c \in Ctx, AddLoader(c) PROVE IInv'
<1>1. /\ UNCHANGED <<cache, current, options, stack, result, answered>>
      /\ Depth' = Depth /\ Depth \in 0 .. Depth /\ Depth <= MaxDepth /\ Depth \in Nat
      /\ Len(stack') = Depth /\ stack' \in Seq(CallType) /\ Depth' # Depth + 1
    BY Types DEF AddLoader, Depth
<1>2. /\ loaders \in [Ctx -> [len : 0 .. MaxLoaders, zone : 0 .. Depth]]
      /\ loaders[c].len + 1 \in 0 .. MaxLoaders
      /\ Innermost(c) \in 0 .. Depth
      /\ Innermost(c) # 0 => stack[Innermost(c)].ctx = c
    BY Types, InnermostIs DEF AddLoader
<1>3. PICK z \in 0 .. Depth :
          /\ z = IF loaders[c].len = 0 THEN Innermost(c) ELSE loaders[c].zone
          /\ z # 0 => stack[z].ctx = c
    BY <1>2, ZoneIs
<1>4. loaders' = [loaders EXCEPT ![c] = [len |-> loaders[c].len + 1, zone |-> z]]
    BY <1>2, <1>3 DEF AddLoader
<1>5. [len |-> loaders[c].len + 1, zone |-> z] \in [len : 0 .. MaxLoaders, zone : 0 .. Depth]
    BY <1>2
<1>6. loaders' \in [Ctx -> [len : 0 .. MaxLoaders, zone : 0 .. Depth]]
    BY <1>2, <1>4, <1>5
<1>7. /\ \A b \in Ctx : b # c => loaders'[b] = loaders[b]
      /\ loaders'[c].zone = z /\ loaders'[c].len = loaders[c].len + 1
    BY <1>2, <1>4
<1>8. \A b \in Ctx : loaders'[b].zone # 0 => stack[loaders'[b].zone].ctx = b
    BY <1>3, <1>7, ZoneIs
<1>9. \A i \in 1 .. Depth : Alike(stack'[i], stack[i]) /\ stack'[i] = stack[i]
    BY <1>1 DEF Alike
<1>10. MarkedWhileLoading' /\ CurrentKept'
    BY <1>1, <1>9, CallsKept
<1>11. \A i \in 1 .. Depth :
           /\ stack'[i].kind = stack[i].kind /\ stack'[i].ctx = stack[i].ctx
           /\ stack[i].kind = "loader" => stack'[i].left \in 1 .. stack[i].left
    BY <1>9, Types DEF IInv, TypeOK
<1>12. ASSUME NEW i \in 1 .. Depth, stack[i].kind = "loader"
       PROVE  /\ loaders'[stack[i].ctx].zone = loaders[stack[i].ctx].zone
              /\ loaders'[stack[i].ctx].len >= loaders[stack[i].ctx].len
    <2>1. PICK b \in Ctx : b = stack[i].ctx
        BY Types DEF CallType
    <2>2. loaders[b].len \in Nat /\ loaders[b].len # 0
        <3>1. stack[i].left \in 1 .. MaxLoaders /\ stack[i].left <= loaders[b].len
            BY <1>12, <2>1 DEF IInv, TypeOK, LoadersOutliveImport
        <3> QED BY <3>1, Types
    <2> QED BY <1>3, <1>7, <2>1, <2>2
<1>13. ListsOK'
    BY <1>1, <1>6, <1>8, <1>11, <1>12, ListsKept
<1> QED BY <1>1, <1>10, <1>13, Types, Together

-----------------------------------------------------------------------------
LEMMA InitHolds == Init => IInv
<1> SUFFICES ASSUME Init PROVE IInv
    OBVIOUS
<1>1. Depth = 0 /\ stack \in Seq(CallType) /\ 1 .. Depth = {}
    BY EmptySeq DEF Init, Depth
<1>2. /\ Absent \in [state : {"absent", "loading", "loaded"}, map : CachedMap]
      /\ Absent.state = "absent"
    BY EmptyMap DEF Absent
<1>3. TypeOK
    <2>1. Empty \in [Exports -> Values \cup {NameError, Nil}]
        BY DEF Empty
    <2> QED BY <1>1, <1>2, <2>1 DEF Init, TypeOK, Options, NoLoaders
<1>4. MarkedWhileLoading
    BY <1>1, <1>2 DEF Init, MarkedWhileLoading
<1>5. CurrentKept
    BY <1>1 DEF Init, CurrentKept, LastEntry
<1>6. LoadersHere
    BY <1>1 DEF Init, LoadersHere, NoLoaders
<1>7. LoadersOutliveImport
    BY <1>1 DEF LoadersOutliveImport
<1> QED BY <1>1, <1>3, <1>4, <1>5, <1>6, <1>7 DEF IInv

LEMMA StutterHolds == ASSUME IInv, UNCHANGED vars PROVE IInv'
<1>1. /\ UNCHANGED <<cache, current, options, loaders, stack, result, answered>>
      /\ Depth' = Depth
    BY DEF vars, Depth
<1>2. CurrentKept' /\ MarkedWhileLoading' /\ ListsOK'
    BY <1>1, ListsNow DEF IInv, CurrentKept, Noted, LastEntry, IsEntryOf, MarkedWhileLoading, Loads,
                ListsOK, LoadersHere, LoadersOutliveImport
<1> QED BY <1>1, <1>2, Types, Together

LEMMA NextHolds == ASSUME IInv, [Next]_vars PROVE IInv'
<1>1. ASSUME NEW c \in Ctx, NEW e \in Exports, ImportRelative(c, e) PROVE IInv'
    <2>1. Qualified[options[c].name] \in Names
        BY Types DEF Options
    <2> QED BY <1>1, <2>1, ImportKeeps DEF ImportRelative
<1>2. ASSUME NEW c \in Ctx, NEW e \in Exports, NEW n \in Names, Import(c, n, e) PROVE IInv'
    BY <1>2, ImportKeeps
<1>3. ASSUME NEW c \in Ctx, NEW n \in Names, NEW ignore \in BOOLEAN, InitModule(c, n, ignore)
      PROVE  IInv'
    BY <1>3, InitModuleKeeps
<1>4. CASE LoaderFails
    BY <1>4, LoaderFailsKeeps
<1>5. CASE LoaderFinds
    BY <1>5, LoaderFindsKeeps
<1>6. ASSUME NEW c \in Ctx, NEW e \in Exports, NEW v \in AtHand, Export(c, e, v)
      PROVE  IInv'
    BY <1>6, ExportKeeps
<1>7. ASSUME NEW v \in AtHand, EntryReturns(v) PROVE IInv'
    BY <1>7, EntryReturnsKeeps
<1>8. CASE EntryFails
    BY <1>8, EntryFailsKeeps
<1>9. ASSUME NEW c \in Ctx, AddLoader(c) PROVE IInv'
    BY <1>9, AddLoaderKeeps
<1>10. CASE UNCHANGED vars
    BY <1>10, StutterHolds
<1> QED BY <1>1, <1>2, <1>3, <1>4, <1>5, <1>6, <1>7, <1>8, <1>9, <1>10 DEF Next

(* In every reachable state each call in progress has noted what it must     *)
(* restore, and the marks in the cache are those of the entries that run.    *)
THEOREM Invariant == Spec => []IInv
<1>1. Init => IInv
    BY InitHolds
<1>2. IInv /\ [Next]_vars => IInv'
    BY NextHolds
<1> QED BY <1>1, <1>2, PTL DEF Spec

-----------------------------------------------------------------------------
(* Every variable has its type, and a loader that runs is one of the list    *)
(* that mara_import goes through.                                            *)
THEOREM TypeCorrect == Spec => []TypeOK
<1>1. IInv => TypeOK
    BY DEF IInv
<1> QED BY <1>1, Invariant, PTL

(* mara_internal_import and mara_internal_init_module mark a module exactly  *)
(* while its entry runs, which runs once at a time.                          *)
THEOREM OneEntryPerModule == Spec => []MarkedWhileLoading
<1>1. IInv => MarkedWhileLoading
    BY DEF IInv
<1> QED BY <1>1, Invariant, PTL

(* ctx->current_module is the module whose entry the context has called last *)
(* and not left, whatever was loaded or has failed meanwhile.                *)
THEOREM CurrentCorrect == Spec => []CurrentIsInnermost
<1>1. ASSUME IInv PROVE CurrentIsInnermost
    <2> SUFFICES ASSUME NEW c \in Ctx
                 PROVE  /\ current[c] = Max({0} \cup {i \in 1 .. Depth : stack[i].ctx = c
                                                                     /\ stack[i].kind = "entry"})
                        /\ current[c] # 0 => options[c] = [name |-> stack[current[c]].name,
                                                           ignore |-> stack[current[c]].ignore]
        BY DEF CurrentIsInnermost
    <2> DEFINE S == {0} \cup {i \in 1 .. Depth : stack[i].ctx = c /\ stack[i].kind = "entry"}
    <2>1. LastEntry(stack, current[c], options[c], c, Depth)
        BY <1>1 DEF IInv, CurrentKept
    <2>2. Depth \in Nat /\ current[c] \in 0 .. Depth
        BY <1>1, Types
    <2>3. S \in SUBSET (0 .. Depth) /\ S # {}
        BY <2>2
    <2>4. current[c] \in S /\ \A i \in S : i <= current[c]
        BY <2>1, <2>2 DEF LastEntry, IsEntryOf
    <2> HIDE DEF S
    <2>5. Max(S) \in S /\ \A i \in S : i <= Max(S)
        BY <2>2, <2>3, MaxIs
    <2>6. current[c] = Max(S)
        <3>1. Max(S) \in 0 .. Depth /\ current[c] <= Max(S) /\ Max(S) <= current[c]
            BY <2>3, <2>4, <2>5
        <3> QED BY <2>2, <3>1
    <2> QED BY <2>1, <2>6 DEF LastEntry, S
<1> QED BY <1>1, Invariant, PTL

(* The list that mara_import goes through is not freed, replaced or made     *)
(* shorter by the loaders it calls.                                          *)
THEOREM LoadersCorrect == Spec => []LoadersOutliveImport
<1>1. IInv => LoadersOutliveImport
    BY DEF IInv
<1> QED BY <1>1, Invariant, PTL

-----------------------------------------------------------------------------
(* What a step does to the modules in the cache.                             *)
LEMMA StartSpares ==
    ASSUME IInv, NEW below, NEW call, StartEntry(below, call),
           call.ignore \/ cache[call.name].state = "absent",
           NEW n \in Names, cache[n].state = "loaded"
    PROVE  cache'[n] = cache[n]
<1>1. CASE call.ignore
    BY <1>1 DEF StartEntry
<1>2. CASE ~ call.ignore
    <2>1. cache' = [cache EXCEPT ![call.name] = Loading] /\ call.name # n
        BY <1>2 DEF StartEntry
    <2> QED BY <2>1, Types
<1> QED BY <1>1, <1>2

LEMMA LeaveSpares ==
    ASSUME IInv, LeaveEntry, NEW x,
           cache' = IF Running.ignore THEN cache ELSE [cache EXCEPT ![Running.name] = x],
           NEW n \in Names, cache[n].state = "loaded"
    PROVE  cache'[n] = cache[n]
<1>1. CASE Running.ignore
    BY <1>1
<1>2. CASE ~ Running.ignore
    <2>1. Depth \in 1 .. Depth /\ Running = stack[Depth]
        BY Types, FrontIs DEF LeaveEntry, Running, Depth
    <2>2. Loads(Depth, Running.name)
        BY <1>2, <2>1, RunningIs DEF Loads
    <2>3. cache[Running.name].state = "loading"
        BY <2>1, <2>2, RunningIs DEF IInv, MarkedWhileLoading
    <2> QED BY <1>2, <2>3, Types
<1> QED BY <1>1, <1>2

LEMMA NextSpares ==
    ASSUME IInv, [Next]_vars, NEW n \in Names, cache[n].state = "loaded"
    PROVE  cache'[n] = cache[n]
<1>1. CASE UNCHANGED cache
    BY <1>1
<1>2. ASSUME NEW c \in Ctx, NEW m \in Names, NEW ignore \in BOOLEAN, InitModule(c, m, ignore)
      PROVE  cache'[n] = cache[n]
    <2>1. CASE StartEntry(stack, EntryCall(c, m, Main, ignore, "init_module"))
        <3>1. /\ EntryCall(c, m, Main, ignore, "init_module").ignore = ignore
              /\ EntryCall(c, m, Main, ignore, "init_module").name = m
            BY DEF EntryCall, Call
        <3>2. ignore \/ cache[m].state = "absent" \/ UNCHANGED cache
            BY <1>2 DEF InitModule, Answer
        <3> QED BY <2>1, <3>1, <3>2, StartSpares
    <2>2. CASE Answer(Error("core/duplicated-module"))
        BY <2>2 DEF Answer
    <2> QED BY <1>2, <2>1, <2>2 DEF InitModule
<1>3. CASE LoaderFinds
    <2> DEFINE call == EntryCall(Running.ctx, Running.name, Running.export, FALSE, "import")
    <2>1. CASE cache[Running.name].state = "absent" /\ StartEntry(Front(stack), call)
        <3>1. call.name = Running.name
            BY DEF EntryCall, Call
        <3> QED BY <2>1, <3>1, StartSpares
    <2>2. CASE UNCHANGED cache
        BY <2>2
    <2> QED BY <1>3, <2>1, <2>2 DEF LoaderFinds
<1>4. ASSUME NEW v \in AtHand, EntryReturns(v) PROVE cache'[n] = cache[n]
    <2>1. LeaveEntry
        BY <1>4 DEF EntryReturns
    <2>2. PICK x : cache' = IF Running.ignore THEN cache ELSE [cache EXCEPT ![Running.name] = x]
        BY <1>4 DEF EntryReturns, Keep
    <2> QED BY <2>1, <2>2, LeaveSpares
<1>5. CASE EntryFails
    <2>1. /\ LeaveEntry
          /\ cache' = IF Running.ignore THEN cache ELSE [cache EXCEPT ![Running.name] = Absent]
        BY <1>5 DEF EntryFails
    <2> QED BY <2>1, LeaveSpares
<1>6. /\ \A c \in Ctx, m \in Names, e \in Exports : Import(c, m, e) => UNCHANGED cache
      /\ \A c \in Ctx, e \in Exports : ImportRelative(c, e) => UNCHANGED cache
    BY DEF Import, ImportRelative, Answer
<1>7. /\ LoaderFails => UNCHANGED cache
      /\ \A c, e, v : Export(c, e, v) => UNCHANGED cache
      /\ \A c : AddLoader(c) => UNCHANGED cache
    BY DEF LoaderFails, Export, AddLoader
<1> QED BY <1>1, <1>2, <1>3, <1>4, <1>5, <1>6, <1>7 DEF Next, vars

(* Nothing that is done later changes what the cache has of a loaded module. *)
THEOREM LoadedForGood == Spec => LoadedStays
<1>1. ASSUME IInv, [Next]_vars
      PROVE  [\A n \in Names : cache[n].state = "loaded" => cache'[n] = cache[n]]_vars
    BY <1>1, NextSpares
<1> QED BY <1>1, Invariant, PTL DEF Spec, LoadedStays

-----------------------------------------------------------------------------
(* r is answered when the cache has what stands for it.                      *)
LEMMA AnswersAgree ==
    ASSUME IInv, ImportsAgree, NEW m \in Names, NEW f \in Exports, NEW r,
           Answers(m, f, r),
           \A n \in Names : cache[n].state = "loaded" => cache'[n] = cache[n],
           cache'[m].state = "loaded", Lookup(cache'[m].map, f) = InCache(m, r)
    PROVE  ImportsAgree'
<1> SUFFICES ASSUME NEW n \in Names, NEW e \in Exports, answered'[n][e] # Nil
             PROVE  /\ cache'[n].state = "loaded"
                    /\ Lookup(cache'[n].map, e) = InCache(n, answered'[n][e])
    BY DEF ImportsAgree, InCache, Lookup
<1>1. CASE answered'[n][e] = answered[n][e]
    <2>1. cache[n].state = "loaded" /\ Lookup(cache[n].map, e) = InCache(n, answered[n][e])
        BY <1>1 DEF ImportsAgree
    <2> QED BY <1>1, <2>1
<1>2. CASE answered'[n][e] # answered[n][e]
    <2>1. answered' = [answered EXCEPT ![m][f] = r] /\ answered \in Answered
        BY <1>2, Types DEF Answers
    <2>2. n = m /\ e = f /\ answered'[n][e] = r
        BY <1>2, <2>1 DEF Answered
    <2> QED BY <2>2
<1> QED BY <1>1, <1>2

(* When the import that loads the module is answered from it, and the cache  *)
(* keeps the copy of it.                                                     *)
LEMMA FirstAnswerAgrees ==
    ASSUME IInv, ImportsAgree, LeaveEntry, NEW module \in Map, NEW v,
           \A n \in Names : cache[n].state = "loaded" => cache'[n] = cache[n],
           Keep(Running.name, module), AnswerFrom(module, v)
    PROVE  ImportsAgree'
<1>1. PICK m \in Names, f \in Exports : m = Running.name /\ f = Running.export
    BY RunningIs
<1>2. cache'[m] = Loaded([e \in Exports |-> InCache(m, module[e])])
    BY <1>1, Types DEF Keep
<1>3. cache'[m].state = "loaded" /\ cache'[m].map[f] = InCache(m, module[f])
    BY <1>2 DEF Loaded
<1>4. Lookup(cache'[m].map, f) = InCache(m, Lookup(module, f))
    <2>1. module[f] \in Values \cup {Nil} /\ InCache(m, NameError) = NameError
        BY InCacheIs DEF Map
    <2>2. module[f] = Nil <=> InCache(m, module[f]) = Nil
        BY <2>1, InCacheIs
    <2> QED BY <1>3, <2>1, <2>2 DEF Lookup
<1>5. CASE UNCHANGED answered
    <2> SUFFICES ASSUME NEW n \in Names, NEW e \in Exports, answered[n][e] # Nil
                 PROVE  /\ cache'[n].state = "loaded"
                        /\ Lookup(cache'[n].map, e) = InCache(n, answered[n][e])
        BY <1>5 DEF ImportsAgree, InCache, Lookup
    <2> QED BY DEF ImportsAgree
<1>6. CASE Answers(m, f, Lookup(module, f))
    BY <1>3, <1>4, <1>6, AnswersAgree
<1> QED BY <1>1, <1>5, <1>6 DEF AnswerFrom

(* Later imports are answered from the cache: what it has is no object of a  *)
(* zone, and stands for itself.                                              *)
LEMMA ImportAgrees ==
    ASSUME IInv, ImportsAgree, NEW n \in Names, NEW e \in Exports, cache[n].state = "loaded",
           Answers(n, e, Lookup(cache[n].map, e)), UNCHANGED cache
    PROVE  ImportsAgree'
<1>1. cache[n].map[e] \in Plain \cup Cached \cup {Nil}
    BY Types DEF CachedMap
<1>2. Lookup(cache[n].map, e) \in Plain \cup Cached \cup {NameError}
    BY <1>1 DEF Lookup
<1>3. InCache(n, Lookup(cache[n].map, e)) = Lookup(cache[n].map, e)
    BY <1>2, InCacheIs
<1> QED BY <1>3, AnswersAgree

LEMMA NextAgrees == ASSUME IInv, ImportsAgree, [Next]_vars PROVE ImportsAgree'
<1>1. \A n \in Names : cache[n].state = "loaded" => cache'[n] = cache[n]
    BY NextSpares
<1>2. CASE UNCHANGED answered
    <2> SUFFICES ASSUME NEW n \in Names, NEW e \in Exports, answered[n][e] # Nil
                 PROVE  /\ cache'[n].state = "loaded"
                        /\ Lookup(cache'[n].map, e) = InCache(n, answered[n][e])
        BY <1>2 DEF ImportsAgree, InCache, Lookup
    <2> QED BY <1>1 DEF ImportsAgree
<1>3. ASSUME NEW n \in Names, NEW e \in Exports, cache[n].state = "loaded",
             Answer(Lookup(cache[n].map, e)), Answers(n, e, Lookup(cache[n].map, e))
      PROVE  ImportsAgree'
    BY <1>3, ImportAgrees DEF Answer
<1>4. ASSUME NEW n \in Names, NEW c \in Ctx, NEW e \in Exports, Import(c, n, e)
      PROVE  ImportsAgree'
    BY <1>2, <1>3, <1>4 DEF Import
<1>5. ASSUME NEW c \in Ctx, NEW e \in Exports, ImportRelative(c, e) PROVE ImportsAgree'
    <2>1. Qualified[options[c].name] \in Names
        BY Types DEF Options
    <2> QED BY <1>4, <1>5, <2>1 DEF ImportRelative
<1>6. ASSUME NEW v \in AtHand, EntryReturns(v) PROVE ImportsAgree'
    <2> DEFINE module == [Running.map EXCEPT ![Main] = v]
    <2>1. LeaveEntry /\ module \in Map
        BY <1>6, ModuleIs DEF EntryReturns
    <2>2. CASE Keep(Running.name, module) /\ AnswerFrom(module, v)
        <3> HIDE DEF module
        <3> QED BY <1>1, <2>1, <2>2, FirstAnswerAgrees
    <2> QED BY <1>2, <1>6, <2>2 DEF EntryReturns
<1>7. /\ \A c \in Ctx, n \in Names, ignore \in BOOLEAN : InitModule(c, n, ignore) => UNCHANGED answered
      /\ LoaderFails \/ LoaderFinds \/ EntryFails => UNCHANGED answered
      /\ \A c, e, v : Export(c, e, v) => UNCHANGED answered
      /\ \A c : AddLoader(c) => UNCHANGED answered
    BY DEF InitModule, LoaderFails, LoaderFinds, EntryFails, Export, AddLoader
<1> QED BY <1>2, <1>4, <1>5, <1>6, <1>7 DEF Next, vars

(* What an import has answered once all later ones answer, in all contexts,  *)
(* for an object the copy that mara_map_set has put in the cache: because a  *)
(* module that has been asked for is loaded, the cache has of it the copies  *)
(* and nothing else, and no step changes them.                               *)
THEOREM ImportsCorrect == Spec => []ImportsAgree
<1>1. Init => ImportsAgree
    BY DEF Init, ImportsAgree, Empty
<1>2. IInv /\ ImportsAgree /\ [Next]_vars => ImportsAgree'
    BY NextAgrees
<1> QED BY <1>1, <1>2, Invariant, PTL DEF Spec
=============================================================================
