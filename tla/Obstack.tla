------------------------------- MODULE Obstack -------------------------------
(***************************************************************************)
(* Obstacks: a stack of objects in a chain of chunks.  One object at a     *)
(* time grows at the end of the newest chunk, and moves to a new chunk     *)
(* when it does not fit; freeing an object frees all that came after it.   *)
(*                                                                         *)
(* Addresses are numbers, 0 is null.  A chunk is its first address and its *)
(* limit.  Every byte of memory remembers what was last written there, so  *)
(* that objects can be compared with what their owner put into them.       *)
(***************************************************************************)
EXTENDS Integers, SequencesExt

CONSTANTS Memory,      \* addresses are 1..Memory
          Blocks,      \* where the blocks that chunkfun gives may start
          Header,      \* offset of contents in a chunk
          Alignment,   \* alignment_mask + 1
          ChunkSize,   \* h->chunk_size
          Slack,       \* the 100 bytes that a new chunk has to spare
          SIZE_MAX,    \* largest size_t
          Lengths,     \* how much an object is grown by
          MaxObjects   \* bound on the objects

VARIABLES chunks,             \* the chain from the oldest to h->chunk: [lo, limit]
          object_base, next_free, chunk_limit,
          maybe_empty_object,
          heap,               \* what chunkfun gave and freefun did not get back
          mem,                \* what each byte holds: <<object, offset>>
          live,               \* the finished objects: [addr, size]
          status              \* "raw" before obstack_begin, "ok", "aborted"

vars == <<chunks, object_base, next_free, chunk_limit, maybe_empty_object,
          heap, mem, live, status>>

Nothing == <<0, 0>>
Bytes   == 1..Memory

Init == /\ chunks = <<>>
        /\ object_base = 0 /\ next_free = 0 /\ chunk_limit = 0
        /\ maybe_empty_object = FALSE
        /\ heap = {}
        /\ mem = [x \in Bytes |-> Nothing]
        /\ live = <<>>
        /\ status = "raw"

-----------------------------------------------------------------------------
\* __PTR_ALIGN, and where the first object of a chunk goes.
AlignUp(x) == ((x + Alignment - 1) \div Alignment) * Alignment
Start(lo)  == AlignUp(lo + Header)

\* What chunkfun may return for a size: any block that is not in use.
Places(size) ==
  {lo \in Blocks : /\ lo + size <= Memory + 1
                   /\ \A c \in heap : lo + size <= c.lo \/ c.limit <= lo}

\* What a block held is lost when freefun gets it back, when it is linked as a
\* chunk and its header is written, and where an object was freed or moved away.
Scribbled(m, blocks) ==
  [x \in Bytes |-> IF \E c \in blocks : c.lo <= x /\ x < c.limit THEN Nothing ELSE m[x]]
HeaderOf(lo) == [lo |-> lo, limit |-> lo + Header]

\* The bytes of the growing object are numbered with the object after the
\* finished ones.
Current     == Len(live) + 1
ObjectSize  == next_free - object_base
Room        == chunk_limit - next_free
LastChunk   == chunks[Len(chunks)]

_obstack_begin(lo) ==
  /\ status = "raw"
  /\ lo \in Places(ChunkSize)
  /\ LET c == [lo |-> lo, limit |-> lo + ChunkSize] IN
     /\ chunks' = <<c>>
     /\ heap' = heap \cup {c}
     /\ chunk_limit' = c.limit
  /\ object_base' = Start(lo) /\ next_free' = Start(lo)
  /\ maybe_empty_object' = FALSE
  /\ mem' = Scribbled(mem, {HeaderOf(lo)})
  /\ status' = "ok"
  /\ UNCHANGED live

-----------------------------------------------------------------------------
\* The size of a new chunk, in size_t arithmetic.
Mod(x)    == x % (SIZE_MAX + 1)
Sum1(len) == Mod(ObjectSize + len)
Sum2(len) == Mod(Sum1(len) + Alignment - 1)
Fits(len) == ObjectSize <= Sum1(len) /\ Sum1(len) <= Sum2(len)

AtLeast_Unchecked(x, least) == x
AtLeast(x, least) == IF x < least THEN least ELSE x

NewSize(len) ==
  LET size == Mod(Sum2(len) + (ObjectSize \div 8) + Slack)
  IN  IF AtLeast(size, Sum2(len)) < ChunkSize THEN ChunkSize ELSE AtLeast(size, Sum2(len))

\* The old chunk goes if the object that moves was all there was in it.
OldChunkGoes == ~maybe_empty_object /\ object_base = Start(LastChunk.lo)

Copied(lo) == [x \in Bytes |-> IF x >= Start(lo) /\ x < Start(lo) + ObjectSize
                               THEN mem[object_base + (x - Start(lo))]
                               ELSE Scribbled(mem, {HeaderOf(lo)})[x]]

\* The growing object's next len bytes go to m, from the address at on.
Written(m, at, len) ==
  [x \in Bytes |-> IF x >= at /\ x < at + len
                   THEN <<Current, ObjectSize + (x - at)>> ELSE m[x]]

\* obstack_grow, _grow0, _1grow, _ptr_grow, _int_grow and _blank, when the
\* chunk has room: the length is all that differs.
GrowInPlace(len) ==
  /\ status = "ok"
  /\ Room >= len
  /\ mem' = Written(mem, next_free, len)
  /\ next_free' = next_free + len
  /\ UNCHANGED <<chunks, object_base, chunk_limit, maybe_empty_object, heap, live, status>>

\* _obstack_newchunk, and then the growth, or none for obstack_make_room.
\* When the size overflows or chunkfun fails, the handler that does not return
\* is called before anything has changed: no step.
GrowInNewChunk(len, grown, lo) ==
  /\ status = "ok"
  /\ Room < len /\ Fits(len)
  /\ lo \in Places(NewSize(len))
  /\ LET new == [lo |-> lo, limit |-> lo + NewSize(len)]
         old == IF OldChunkGoes THEN {LastChunk} ELSE {}
         was == [lo |-> object_base, limit |-> next_free]
     IN  /\ chunks' = Append(IF OldChunkGoes THEN Front(chunks) ELSE chunks, new)
         /\ heap' = (heap \ old) \cup {new}
         /\ chunk_limit' = new.limit
         /\ mem' = Scribbled(Written(Copied(lo), Start(lo) + ObjectSize, grown), old \cup {was})
  /\ object_base' = Start(lo)
  /\ next_free' = Start(lo) + ObjectSize + grown
  /\ maybe_empty_object' = FALSE
  /\ UNCHANGED <<live, status>>

\* The next object starts at the next boundary, or at the end of the chunk.
Capped(x) == IF x > chunk_limit THEN chunk_limit ELSE x

obstack_finish ==
  /\ status = "ok"
  /\ Len(live) < MaxObjects
  /\ live' = Append(live, [addr |-> object_base, size |-> ObjectSize])
  /\ maybe_empty_object' = (maybe_empty_object \/ ObjectSize = 0)
  /\ next_free' = Capped(AlignUp(next_free))
  /\ object_base' = Capped(AlignUp(next_free))
  /\ UNCHANGED <<chunks, chunk_limit, heap, mem, status>>

-----------------------------------------------------------------------------
\* An object lies in a chunk, or is empty and at its limit: _obstack_allocated_p.
InChunk(c, obj) == c.lo < obj /\ obj <= c.limit

\* The chunk that _obstack_free stops at: 0 if there is none.
Holding(obj) ==
  LET S == {i \in 1..Len(chunks) : InChunk(chunks[i], obj)}
  IN  IF S = {} THEN 0 ELSE CHOOSE i \in S : \A j \in S : j <= i

\* Freeing a chunk forgets whether the one before has empty objects.
EmptyAfterFree_Kept(i) == maybe_empty_object
EmptyAfterFree(i) == maybe_empty_object \/ i < Len(chunks)

FreedChunks(i) == {chunks[j] : j \in i + 1..Len(chunks)}

\* obstack_free of the object live[k], and with it of all that came after.
obstack_free(k) ==
  /\ status = "ok"
  /\ LET obj == live[k].addr
         i   == Holding(obj)
     IN  /\ chunks' = SubSeq(chunks, 1, i)
         /\ heap' = heap \ FreedChunks(i)
         /\ maybe_empty_object' = EmptyAfterFree(i)
         /\ IF i = 0
            THEN /\ status' = "aborted"
                 /\ UNCHANGED <<object_base, next_free, chunk_limit, mem>>
            ELSE /\ object_base' = obj /\ next_free' = obj
                 /\ chunk_limit' = chunks[i].limit
                 /\ mem' = Scribbled(mem, FreedChunks(i) \cup
                                          {[lo |-> obj, limit |-> chunks[i].limit]})
                 /\ UNCHANGED status
  /\ live' = SubSeq(live, 1, k - 1)

\* obstack_free of null: every chunk goes, what h points to is stale, and it
\* takes an obstack_begin to go on.
FreeAll ==
  /\ status = "ok"
  /\ chunks' = <<>>
  /\ heap' = heap \ FreedChunks(0)
  /\ mem' = Scribbled(mem, FreedChunks(0))
  /\ live' = <<>>
  /\ maybe_empty_object' = TRUE
  /\ status' = "raw"
  /\ UNCHANGED <<object_base, next_free, chunk_limit>>

Next == \/ \E lo \in Blocks : _obstack_begin(lo)
        \/ \E len \in Lengths :
             \/ GrowInPlace(len)
             \/ \E lo \in Blocks, grown \in {0, len} : GrowInNewChunk(len, grown, lo)
        \/ obstack_finish
        \/ \E k \in 1..Len(live) : obstack_free(k)
        \/ FreeAll

Spec == Init /\ [][Next]_vars

-----------------------------------------------------------------------------
\* An object is where its owner may use it: after the header of a chunk of the
\* chain and before its limit, and every byte is what the owner wrote.
Intact(k, addr, size) ==
  /\ \E i \in 1..Len(chunks) :
       Start(chunks[i].lo) <= addr /\ addr + size <= chunks[i].limit
  /\ \A x \in 0..size - 1 : mem[addr + x] = <<k, x>>

\* As long as an object is not freed it stays in place with its bytes, whatever
\* was grown, moved or freed since; the growing object loses nothing when
\* _obstack_newchunk moves it, and ends within the newest chunk.
ObjectsIntact ==
  status = "ok" =>
    /\ \A k \in 1..Len(live) : Intact(k, live[k].addr, live[k].size)
    /\ Intact(Current, object_base, ObjectSize)
    /\ LastChunk.lo < object_base /\ next_free <= chunk_limit
    /\ chunk_limit = LastChunk.limit

\* Every chunk that chunkfun gave is in the chain until freefun gets it, once,
\* and obstack_free finds the chunk of every object that is not freed.
ChunksAccounted ==
  /\ status # "aborted"
  /\ heap = ToSet(chunks)
  /\ \A i, j \in 1..Len(chunks) : i # j =>
       chunks[i].limit <= chunks[j].lo \/ chunks[j].limit <= chunks[i].lo
=============================================================================
