---- MODULE MemoryPool ----
(***************************************************************************)
(* PoolManager and its PoolCores, down to the bytes: a free chunk stores   *)
(* the pointer to the next one where the user's object will lie.  Objects  *)
(* come from allocate_type and make_unique, whose deleter remembers the    *)
(* size the object was made with; sizes above the largest pool go to       *)
(* m_allocate.  Memory is a line of bytes of which m_allocate hands out    *)
(* the next ones.                                                          *)
(***************************************************************************)
EXTENDS Integers, Sequences, FiniteSets, FiniteSetsExt

CONSTANTS
    Lowest,      \* lowest_chunk_size: bytes of a pointer
    TypeSizes,   \* list_type_sizes
    BlockSize,   \* max_block_size
    ObjectSizes, \* sizes of the types the program allocates
    MaxObjects,  \* bound: objects alive at a time
    HeapSize     \* bound: bytes m_allocate can hand out

PoolAssumption ==
    /\ Lowest \in Nat \ {0} /\ BlockSize \in Nat /\ HeapSize \in Nat /\ MaxObjects \in Nat
    /\ TypeSizes \subseteq Nat /\ TypeSizes # {} /\ IsFiniteSet(TypeSizes)
    /\ ObjectSizes \subseteq Nat \ {0}
    \* A type larger than a block would get a pool of 0 chunks.
    /\ \A s \in TypeSizes \cup {Lowest} : s <= BlockSize

VARIABLES
    free_chunks, \* per pool, the first free chunk
    blocks,      \* per pool, the blocks, the newest first
    memory,      \* what each byte holds
    top,         \* where m_allocate goes on
    regions,     \* what m_allocate gave and m_deallocate has not got back
    objects      \* the objects alive

vars == <<free_chunks, blocks, memory, top, regions, objects>>

Null == -1
Bytes == 0 .. HeapSize - 1
Ids == 1 .. MaxObjects

\* Mutant: a type smaller than a pointer gets chunks of its own size.
PoolSizesUnclamped == TypeSizes

\* PoolManager::load: raised to a pointer, sorted, each size once.
PoolSizes == {IF s < Lowest THEN Lowest ELSE s : s \in TypeSizes}

MaxTypeSize == Max(PoolSizes)
ChunksPerBlock(c) == BlockSize \div c

\* allocators_index: the first pool whose chunks are large enough.
PoolOf(size) == Min({c \in PoolSizes : size <= c})

Unused == <<"unused", 0>>
Pointer(to) == <<"next_chunk", to>>
Data(o) == <<"data", o>>

Span(p, n) == p .. p + n - 1
Written(m, p, n, what) == [a \in Bytes |-> IF a \in Span(p, n) THEN what ELSE m[a]]

Init ==
    /\ free_chunks = [c \in PoolSizes |-> Null]
    /\ blocks = [c \in PoolSizes |-> <<>>]
    /\ memory = [a \in Bytes |-> Unused]
    /\ top = 0 /\ regions = {} /\ objects = <<>>

\* m_allocate
Obtain(n) == top + n <= HeapSize /\ top' = top + n

Alive == DOMAIN objects
NewId == Min(Ids \ Alive)

\* allocate_construct_type, make_unique: the object is built in its memory.
Built(o, p, size) ==
    [x \in Alive \cup {o} |->
        IF x = o THEN [addr |-> p, size |-> size, deleter |-> size]
                 ELSE objects[x]]

\* alloc_chunks_for_block: every chunk points to the one behind it, the last
\* one to the list there was.
Linked(c, base) ==
    [a \in Bytes |->
        IF a \in Span(base, c * ChunksPerBlock(c)) /\ (a - base) % c < Lowest
        THEN LET chunk == a - ((a - base) % c)
             IN  Pointer(IF chunk + c < base + c * ChunksPerBlock(c)
                         THEN chunk + c ELSE free_chunks[c])
        ELSE memory[a]]

NextChunk(m, p) == m[p][2]

\* PoolCore::allocate, with alloc_new_block when the list is empty.  One object
\* at a time: a count other than 1 is an exception before anything is done.
Allocate(size) ==
    /\ Alive # Ids /\ size <= MaxTypeSize
    /\ LET c == PoolOf(size)  grows == free_chunks[c] = Null
           n == c * ChunksPerBlock(c)
           p == IF grows THEN top ELSE free_chunks[c]
           m == IF grows THEN Linked(c, top) ELSE memory
       IN  /\ IF grows
              THEN /\ Obtain(n)
                   /\ blocks' = [blocks EXCEPT ![c] = <<top>> \o @]
                   /\ regions' = regions \cup {<<top, n>>}
              ELSE UNCHANGED <<top, blocks, regions>>
           /\ free_chunks' = [free_chunks EXCEPT ![c] = NextChunk(m, p)]
           /\ memory' = Written(m, p, size, Data(NewId))
           /\ objects' = Built(NewId, p, size)

AllocateLarge(size) ==
    /\ Alive # Ids /\ size > MaxTypeSize
    /\ Obtain(size)
    /\ regions' = regions \cup {<<top, size>>}
    /\ memory' = Written(memory, top, size, Data(NewId))
    /\ objects' = Built(NewId, top, size)
    /\ UNCHANGED <<free_chunks, blocks>>

\* Mutant: the deleter takes the size of the type it is converted to.
ConvertedDeleterOwnSize(o, base) == base

\* DeAllocatorSTL_unique_ptr (const DeAllocatorSTL_unique_ptr<Tother>&)
ConvertedDeleter(o, base) == objects[o].deleter

\* A unique_ptr<T> takes over the object of a unique_ptr<U>, U derived from T.
Convert(o, base) ==
    /\ base < objects[o].size
    /\ objects' = [objects EXCEPT ![o].deleter = ConvertedDeleter(o, base)]
    /\ UNCHANGED <<free_chunks, blocks, memory, top, regions>>

Without(o) == [x \in Alive \ {o} |-> objects[x]]

\* operator() of the deleter, PoolCore::deallocate.
Deallocate(o) ==
    LET p == objects[o].addr  c == PoolOf(objects[o].deleter)
    IN  /\ objects[o].deleter <= MaxTypeSize
        /\ memory' = Written(memory, p, Lowest, Pointer(free_chunks[c]))
        /\ free_chunks' = [free_chunks EXCEPT ![c] = p]
        /\ objects' = Without(o)
        /\ UNCHANGED <<blocks, top, regions>>

DeallocateLarge(o) ==
    /\ objects[o].deleter > MaxTypeSize
    /\ regions' = regions \ {<<objects[o].addr, objects[o].deleter>>}
    /\ objects' = Without(o)
    /\ UNCHANGED <<free_chunks, blocks, memory, top>>

Next ==
    \/ \E size \in ObjectSizes : Allocate(size) \/ AllocateLarge(size)
    \/ \E o \in Alive : Deallocate(o) \/ DeallocateLarge(o) \/ \E base \in ObjectSizes : Convert(o, base)

Spec == Init /\ [][Next]_vars

----
TypeOK ==
    /\ free_chunks \in [PoolSizes -> Bytes \cup {Null}]
    /\ \A c \in PoolSizes : blocks[c] \in Seq(Bytes)
    /\ DOMAIN memory = Bytes
    /\ top \in 0 .. HeapSize
    /\ regions \subseteq Bytes \X (1 .. HeapSize)
    /\ Alive \subseteq Ids
    /\ \A o \in Alive : objects[o] \in
        [addr : Bytes, size : ObjectSizes, deleter : ObjectSizes]

\* What the program stored in an object stays there until the object is
\* deleted: the lists kept in free chunks (memory-pool.cpp:56), new blocks
\* and other objects never reach into it, whatever was freed before.
ObjectsIntact ==
    \A o \in Alive :
        \A a \in Span(objects[o].addr, objects[o].size) : a \in Bytes /\ memory[a] = Data(o)

Chunks(c) ==
    {blocks[c][k] + i * c : k \in 1 .. Len(blocks[c]), i \in 0 .. ChunksPerBlock(c) - 1}

\* The chunks a walk of the free list meets in n steps.
Walk(c) ==
    LET at[n \in 0 .. Cardinality(Chunks(c))] ==
            IF n = 0 THEN free_chunks[c]
            ELSE IF at[n - 1] \in Bytes /\ memory[at[n - 1]][1] = "next_chunk"
                 THEN NextChunk(memory, at[n - 1])
                 ELSE Null
    IN  at

InUse(c) == {objects[o].addr : o \in {x \in Alive : objects[x].size <= c}}

\* The free list of every pool (memory-pool.cpp:68) holds each chunk of its
\* blocks that no object lies in, once, and nothing else: no order of
\* allocations, deletions and new blocks loses a chunk, or puts one into the
\* list of another pool, also when a pointer was converted to its base type
\* in between; and the pools hold on to exactly the blocks they were given.
FreeListsWhole ==
    /\ \A c \in PoolSizes :
        LET free == Chunks(c) \ InUse(c)
        IN  /\ {Walk(c)[n] : n \in 0 .. Cardinality(free)} \ {Null} = free
            /\ Walk(c)[Cardinality(free)] = Null
    /\ regions =
        (UNION {{<<blocks[c][k], c * ChunksPerBlock(c)>> : k \in 1 .. Len(blocks[c])} : c \in PoolSizes}) \cup
        {<<objects[o].addr, objects[o].size>> : o \in {x \in Alive : objects[x].size > MaxTypeSize}}

====
