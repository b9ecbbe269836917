------------------------------- MODULE Arena -------------------------------
(***************************************************************************)
(* The arena allocator of mara (src/src/alloc.c): every zone, the permanent *)
(* zone and the debug information of a context own an arena, a chain of     *)
(* chunks filled by a bump pointer.  All arenas of one mara_env_t share one *)
(* list of free chunks.                                                     *)
(*                                                                          *)
(* Addresses are offsets from the start of their chunk, in words of 8       *)
(* bytes: malloc returns addresses aligned to 2 words, so the alignment of  *)
(* an offset is the alignment of the address.  A linked list of chunks is   *)
(* the sequence of its chunks, its head first.                              *)
(***************************************************************************)
EXTENDS Naturals, Sequences, FiniteSets, SequencesExt

CONSTANTS
    Arenas,     \* the arenas that share the free list
    Chunks,     \* the addresses malloc may return
    ChunkSize,  \* env->options.alloc_chunk_size
    Header,     \* sizeof(mara_arena_chunk_t)
    Requests,   \* the requests callers make: [words, align] records
    MaxSnaps    \* bound: snapshots of one arena that are outstanding at once

ASSUME ArenaAssumption ==
    /\ ChunkSize \in Nat /\ Header \in Nat /\ ChunkSize > Header
    /\ Requests \subseteq [words : Nat \ {0}, align : Nat \ {0}]
    /\ MaxSnaps \in Nat

NoChunk == "NULL"
ASSUME NoChunkIsNoChunk == NoChunk \notin Chunks

VARIABLES
    chain,      \* chain[a]: the chunks of arena a, current_chunk first
    free,       \* env->free_chunks
    size,       \* size[c]: end - c of a chunk, 0 when malloc does not hold it
    bump,       \* bump[c]: bump_ptr - c
    blocks,     \* blocks[a]: history, the blocks handed out by a and still in use
    snaps,      \* snaps[a]: the snapshots the callers of a hold, oldest first
    returned    \* what the last mara_arena_alloc_ex returned: "block" or "NULL"

vars == <<chain, free, size, bump, blocks, snaps, returned>>

Init ==
    /\ chain = [a \in Arenas |-> <<>>]
    /\ free = <<>>
    /\ size = [c \in Chunks |-> 0]
    /\ bump = [c \in Chunks |-> 0]
    /\ blocks = [a \in Arenas |-> <<>>]
    /\ snaps = [a \in Arenas |-> <<>>]
    /\ returned = "block"

-----------------------------------------------------------------------------
(* mara_align_ptr, and the test of mara_alloc_from_chunk on a chunk whose   *)
(* bump pointer is at b and whose end is at e.                              *)
AlignUp(b, align) == ((b + align - 1) \div align) * align
FitsIgnoringLength(b, e, n, align) == AlignUp(b, align) <= e
Fits(b, e, n, align) == AlignUp(b, align) + n <= e

Current(a) == IF chain[a] = <<>> THEN NoChunk ELSE Head(chain[a])

(* mara_alloc_from_chunk when the request fits: the aligned bump pointer is *)
(* the block, the bump pointer moves behind it.                             *)
Place(a, c, b, n, align) ==
    LET lo == AlignUp(b, align) IN
    /\ bump' = [bump EXCEPT ![c] = lo + n]
    /\ blocks' = [blocks EXCEPT ![a] =
                    Append(@, [chunk |-> c, lo |-> lo, hi |-> lo + n])]
    /\ returned' = "block"

HasRoom(a, n, align) ==
    IF chain[a] = <<>> THEN FALSE
    ELSE Fits(bump[Current(a)], size[Current(a)], n, align)

(* The first attempt of mara_arena_alloc_ex: the current chunk has room.    *)
AllocInCurrent(a, n, align) ==
    /\ HasRoom(a, n, align)
    /\ Place(a, Current(a), bump[Current(a)], n, align)
    /\ UNCHANGED <<chain, free, size, snaps>>

(* The size of the chunk a request of n words asks for: the room that the   *)
(* alignment of the block may need is not part of it.                       *)
Wanted(n) == IF ChunkSize >= Header + n THEN ChunkSize ELSE Header + n

(* Only the first free chunk is looked at.                                  *)
CanReuse(n) == free # <<>> /\ size[Head(free)] >= Wanted(n)

(* The chunk becomes the current one, with an empty body; the request is    *)
(* tried again, and NULL is returned when it still does not fit.            *)
PlaceInNew(a, c, e, n, align) ==
    /\ chain' = [chain EXCEPT ![a] = <<c>> \o @]
    /\ IF Fits(Header, e, n, align)
       THEN Place(a, c, Header, n, align)
       ELSE /\ bump' = [bump EXCEPT ![c] = Header]
            /\ returned' = "NULL"
            /\ UNCHANGED blocks

AllocReusing(a, n, align) ==
    /\ ~ HasRoom(a, n, align)
    /\ CanReuse(n)
    /\ free' = Tail(free)
    /\ PlaceInNew(a, Head(free), size[Head(free)], n, align)
    /\ UNCHANGED <<size, snaps>>

(* malloc returns an address it does not hold already; when it fails the    *)
(* assertion of alloc.c:60 stops the program, and the model too.            *)
AllocMalloc(a, n, align) ==
    /\ ~ HasRoom(a, n, align)
    /\ ~ CanReuse(n)
    /\ \E c \in Chunks :
        /\ size[c] = 0
        /\ size' = [size EXCEPT ![c] = Wanted(n)]
        /\ PlaceInNew(a, c, Wanted(n), n, align)
    /\ UNCHANGED <<free, snaps>>

-----------------------------------------------------------------------------
SnapshotOfEnd(a) ==
    /\ Len(snaps[a]) < MaxSnaps
    /\ snaps' = [snaps EXCEPT ![a] = Append(@,
            [chunk |-> Current(a),
             bump  |-> IF chain[a] = <<>> THEN 0 ELSE size[Current(a)],
             count |-> Len(blocks[a])])]
    /\ UNCHANGED <<chain, free, size, bump, blocks, returned>>

(* mara_arena_snapshot.  count is history: how many blocks were in use.     *)
Snapshot(a) ==
    /\ Len(snaps[a]) < MaxSnaps
    /\ snaps' = [snaps EXCEPT ![a] = Append(@,
            [chunk |-> Current(a),
             bump  |-> IF chain[a] = <<>> THEN 0 ELSE bump[Current(a)],
             count |-> Len(blocks[a])])]
    /\ UNCHANGED <<chain, free, size, bump, blocks, returned>>

(* The loop of mara_arena_restore: the chunks in front of the snapshot's    *)
(* chunk go, one by one, to the front of the free list.  A chunk that is    *)
(* not in the chain would make the loop run past its end.                   *)
PlaceOf(a, c) == CHOOSE i \in DOMAIN chain[a] : chain[a][i] = c

DepthPastSnapshot(a, c) == IF c = NoChunk THEN Len(chain[a]) ELSE PlaceOf(a, c)

DepthOf(a, c) == IF c = NoChunk THEN Len(chain[a]) ELSE PlaceOf(a, c) - 1

ReleaseUnlinked(a, c, b) ==
    LET k == DepthOf(a, c) IN
    /\ free' = free
    /\ chain' = [chain EXCEPT ![a] = SubSeq(@, k + 1, Len(@))]
    /\ bump' = IF c = NoChunk THEN bump ELSE [bump EXCEPT ![c] = b]

ReleaseTo(a, c, b) ==
    LET k == DepthOf(a, c) IN
    /\ free' = Reverse(SubSeq(chain[a], 1, k)) \o free
    /\ chain' = [chain EXCEPT ![a] = SubSeq(@, k + 1, Len(@))]
    /\ bump' = IF c = NoChunk THEN bump ELSE [bump EXCEPT ![c] = b]

(* The callers nest their snapshots: restoring one gives up the later ones. *)
(* A restored snapshot may be restored again.                               *)
Restore(a) ==
    \E i \in 1 .. Len(snaps[a]) :
        LET s == snaps[a][i] IN
        /\ s.chunk = NoChunk \/ s.chunk \in Range(chain[a])
        /\ ReleaseTo(a, s.chunk, s.bump)
        /\ blocks' = [blocks EXCEPT ![a] = SubSeq(@, 1, s.count)]
        /\ snaps' = [snaps EXCEPT ![a] = SubSeq(@, 1, i)]
        /\ UNCHANGED <<size, returned>>

(* A caller returns without restoring its snapshot (an error path).         *)
Forget(a) ==
    /\ snaps[a] # <<>>
    /\ snaps' = [snaps EXCEPT ![a] = Front(@)]
    /\ UNCHANGED <<chain, free, size, bump, blocks, returned>>

(* mara_arena_reset: the owner of the arena is exited or ended.             *)
Reset(a) ==
    /\ ReleaseTo(a, NoChunk, 0)
    /\ blocks' = [blocks EXCEPT ![a] = <<>>]
    /\ snaps' = [snaps EXCEPT ![a] = <<>>]
    /\ UNCHANGED <<size, returned>>

(* mara_destroy_env: every arena has been reset, the free chunks go back to *)
(* malloc.  A new environment may be created afterwards.                    *)
DestroyEnv ==
    /\ \A a \in Arenas : chain[a] = <<>> /\ snaps[a] = <<>>
    /\ free # <<>>
    /\ size' = [c \in Chunks |-> IF c \in Range(free) THEN 0 ELSE size[c]]
    /\ bump' = [c \in Chunks |-> IF c \in Range(free) THEN 0 ELSE bump[c]]
    /\ free' = <<>>
    /\ UNCHANGED <<chain, blocks, snaps, returned>>

Next ==
    \/ \E a \in Arenas, r \in Requests :
        \/ AllocInCurrent(a, r.words, r.align)
        \/ AllocReusing(a, r.words, r.align)
        \/ AllocMalloc(a, r.words, r.align)
    \/ \E a \in Arenas : Snapshot(a) \/ Restore(a) \/ Forget(a) \/ Reset(a)
    \/ DestroyEnv

Spec == Init /\ [][Next]_vars

-----------------------------------------------------------------------------
Block == [chunk : Chunks, lo : Nat, hi : Nat]
Snap  == [chunk : Chunks \cup {NoChunk}, bump : Nat, count : Nat]

(* Every variable has its type, and no bump pointer is past the end of its  *)
(* chunk.                                                                   *)
TypeOK ==
    /\ chain \in [Arenas -> Seq(Chunks)]
    /\ free \in Seq(Chunks)
    /\ size \in [Chunks -> Nat]
    /\ bump \in [Chunks -> Nat]
    /\ \A c \in Chunks : bump[c] <= size[c]
    /\ blocks \in [Arenas -> Seq(Block)]
    /\ snaps \in [Arenas -> Seq(Snap)]
    /\ returned \in {"block", "NULL"}

(* Every chunk that malloc holds for the environment is on exactly one list, *)
(* once: the chain of one arena or the free list.  A chunk on two lists      *)
(* would be handed to two zones by mara_arena_alloc_ex; a chunk on none is   *)
(* never freed by mara_destroy_env.                                          *)
ChunkOnOneList ==
    /\ \A a, b \in Arenas : \A i \in DOMAIN chain[a], j \in DOMAIN chain[b] :
         chain[a][i] = chain[b][j] => a = b /\ i = j
    /\ \A i, j \in DOMAIN free : free[i] = free[j] => i = j
    /\ \A a \in Arenas : Range(chain[a]) \cap Range(free) = {}
    /\ {c \in Chunks : size[c] > 0} =
         Range(free) \cup UNION {Range(chain[a]) : a \in Arenas}

(* Two blocks in use never overlap, and each lies in the body of a chunk of  *)
(* its own arena, below the bump pointer, so that neither a later            *)
(* mara_alloc_from_chunk nor the reuse of a freed chunk can write to it.     *)
BlocksSafe ==
    /\ \A a \in Arenas : \A i \in DOMAIN blocks[a] :
         LET b == blocks[a][i] IN
         /\ b.chunk \in Range(chain[a])
         /\ Header <= b.lo /\ b.hi <= bump[b.chunk] /\ b.hi <= size[b.chunk]
    /\ \A a1, a2 \in Arenas :
         \A i \in DOMAIN blocks[a1], j \in DOMAIN blocks[a2] :
            LET b1 == blocks[a1][i]
                b2 == blocks[a2][j]
            IN  \/ a1 = a2 /\ i = j
                \/ b1.chunk # b2.chunk
                \/ b1.hi <= b2.lo \/ b2.hi <= b1.lo

(* No memory of a chunk is lost: its bump pointer is where the last block in *)
(* use ends, so that what a parser or compiler allocates after a snapshot is *)
(* available again once the snapshot has been restored.                      *)
BumpIsTight ==
    \A a \in Arenas : \A i \in DOMAIN chain[a] :
        LET c    == chain[a][i]
            ends == {Header} \cup {b.hi : b \in {x \in Range(blocks[a]) : x.chunk = c}}
        IN  bump[c] \in ends /\ \A e \in ends : e <= bump[c]

(* The chunk of every snapshot that may still be restored is in the chain of *)
(* its arena, with a bump pointer at or behind the snapshot's: the loop of   *)
(* mara_arena_restore always finds its end, and never moves the bump pointer *)
(* forward over bytes nobody allocated; and it leaves nothing behind.        *)
SnapshotsRestorable ==
    /\ BumpIsTight
    /\ \A a \in Arenas : \A i \in DOMAIN snaps[a] :
         LET s == snaps[a][i] IN
         /\ s.count <= Len(blocks[a])
         /\ s.chunk # NoChunk =>
              /\ s.chunk \in Range(chain[a])
              /\ s.bump <= bump[s.chunk]
=============================================================================
