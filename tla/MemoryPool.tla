------------------------------ MODULE MemoryPool ------------------------------
(***************************************************************************)
(* memory_pool (base/memory_pool.hpp), from which messages, streams and    *)
(* codec buffers are allocated (MALLOC_MP, FREE_MP): boost pools of chunks *)
(* of doubling sizes, a header in front of every block, and ::malloc for   *)
(* what no pool can give.                                                  *)
(*                                                                         *)
(* Memory is counted in words of 4 bytes: a header is one word, a pointer  *)
(* two.  A place in memory is an offset in the storage of one pool, which  *)
(* is one block of Chunks chunks (boost would ask the system for another   *)
(* when it is used up; here the system has none, and malloc() of that pool *)
(* fails).                                                                 *)
(***************************************************************************)
EXTENDS Integers, FiniteSetsExt

CONSTANTS Classes,    \* number of pools (16 in the code)
          Chunks,     \* chunks of a pool's storage
          Buffers,    \* owners of memory: a msg_body, a memory_stream, a gos_buffer
          Sizes       \* words they ask for

VARIABLES is_init_,   \* init() was called
          first,      \* first[k]: head of the free list of pool k
          mem,        \* mem[k][i]: what was last written to word i of pool k
          live,       \* live[b]: the memory that b owns
          aborted     \* a bad pointer was followed, or given to ::free

vars == <<is_init_, first, mem, live, aborted>>

Pools == 1..Classes
ClassSize(k) == 2^(k - 1)
MaxPoolSize == ClassSize(Classes)
HeadSize == 1

\* A chunk holds at least a pointer, the link of the free list.
ChunkSize(k) == Max({2, ClassSize(k)})
Words(k) == 0..Chunks * ChunkSize(k) - 1
NoChunk == -1
Wild == -2
Nowhere == [pool |-> 0, at |-> 0, size |-> 0]

Low(i) == <<"low", i>>
High(i) == <<"high", i>>
Head(n) == <<"head", n>>
Data(b) == <<"data", b>>

\* The words from i on; what lies beyond the storage belongs to others.
From(k, i, n) == (i..i + n - 1) \cap Words(k)
Write(m, k, i, n, w) ==
    [m EXCEPT ![k] = [j \in Words(k) |-> IF j \in From(k, i, n) THEN w ELSE @[j]]]

\* A free list through all chunks, in the order of their places.
Segregated(k) == [i \in Words(k) |->
    LET next == (i \div ChunkSize(k) + 1) * ChunkSize(k)
        link == IF next \in Words(k) THEN next ELSE NoChunk
    IN  CASE i % ChunkSize(k) = 0 -> Low(link)
          [] i % ChunkSize(k) = 1 -> High(link)
          [] OTHER -> <<"none">>]

\* pool::is_from: the place lies in the storage of pool k.
IsFrom(k, place) == place.pool = k /\ place.at \in Words(k)

(***************************************************************************)
(* What the free list says comes after chunk i: both halves of the link.   *)
(* One that was written over is no pointer into the storage.               *)
(***************************************************************************)
NextOf(k, i) ==
    LET links == {j \in Words(k) \cup {NoChunk} :
                    i + 1 \in Words(k) /\ mem[k][i] = Low(j) /\ mem[k][i + 1] = High(j)}
    IN  IF links = {} THEN Wild ELSE CHOOSE j \in links : TRUE

(***************************************************************************)
(* get_memory_size: the word in front of a block.  It is a header unless   *)
(* it was written over, or the block is of ::malloc.                       *)
(***************************************************************************)
MemorySize(place) ==
    IF /\ place.pool # 0
       /\ place.at - HeadSize \in Words(place.pool)
       /\ mem[place.pool][place.at - HeadSize] \in {Head(n) : n \in 1..MaxPoolSize}
    THEN {mem[place.pool][place.at - HeadSize][2]}
    ELSE 0..MaxPoolSize

Init ==
    /\ is_init_ = FALSE
    /\ first = [k \in Pools |-> NoChunk]
    /\ mem = [k \in Pools |-> [i \in Words(k) |-> <<"none">>]]
    /\ live = [b \in Buffers |-> Nowhere]
    /\ aborted = FALSE

(***************************************************************************)
(* init(): makes the pools, once.  Their storage comes with the first      *)
(* malloc() of each; that nobody sees.                                     *)
(***************************************************************************)
InitPools ==
    /\ ~is_init_ /\ ~aborted
    /\ is_init_' = TRUE
    /\ first' = [k \in Pools |-> 0]
    /\ mem' = [k \in Pools |-> Segregated(k)]
    /\ UNCHANGED <<live, aborted>>

\* get_iterator: the pools of chunks that are large enough, from the smallest.
LargeEnough(n) == {k \in Pools : is_init_ /\ n <= ClassSize(k)}

DefaultMalloc(b, n) ==
    /\ live' = [live EXCEPT ![b] = [pool |-> 0, at |-> 0, size |-> n]]
    /\ UNCHANGED <<first, mem, aborted>>

Abort == aborted' = TRUE /\ UNCHANGED <<first, mem, live>>

(***************************************************************************)
(* malloc_memory: the first pool in the order of sizes that has a chunk,   *)
(* or ::malloc.  The owner is given what lies behind the header and fills  *)
(* it.                                                                     *)
(***************************************************************************)
MallocMemory(b, n) ==
    LET able == {k \in LargeEnough(n + HeadSize) : first[k] # NoChunk}
    IN  /\ live[b] = Nowhere /\ ~aborted
        /\ \/ able = {} /\ DefaultMalloc(b, n)
           \/ able # {} /\ first[Min(able)] = Wild /\ Abort
           \/ /\ able # {} /\ first[Min(able)] # Wild
              /\ LET k == Min(able)
                     i == first[k]
                 IN  /\ first' = [first EXCEPT ![k] = NextOf(k, i)]
                     /\ mem' = Write(Write(mem, k, i, HeadSize, Head(n + HeadSize)),
                                     k, i + HeadSize, n, Data(b))
                     /\ live' = [live EXCEPT ![b] = [pool |-> k, at |-> i + HeadSize, size |-> n]]
                     /\ UNCHANGED aborted
        /\ UNCHANGED is_init_

\* pool::free: the chunk becomes the first of the free list.
PoolFree(k, i) ==
    /\ mem' = Write(Write(mem, k, i, 1, Low(first[k])), k, i + 1, 1, High(first[k]))
    /\ first' = [first EXCEPT ![k] = i]

(***************************************************************************)
(* free_memory: the pool is looked for from the size in the header on, and *)
(* gets the pointer that the owner had.  What no pool has goes to ::free.  *)
(***************************************************************************)
FreeMemory(b) ==
    LET place == live[b]
    IN  /\ place # Nowhere /\ ~aborted
        /\ \E size \in MemorySize(place) :
             LET from == {k \in LargeEnough(size) : size < MaxPoolSize /\ IsFrom(k, place)}
             IN  \/ /\ from # {}
                    /\ PoolFree(Min(from), place.at)
                    /\ live' = [live EXCEPT ![b] = Nowhere]
                    /\ UNCHANGED aborted
                 \/ /\ from = {} /\ place.pool = 0
                    /\ live' = [live EXCEPT ![b] = Nowhere]
                    /\ UNCHANGED <<first, mem, aborted>>
                 \/ from = {} /\ place.pool # 0 /\ Abort
        /\ UNCHANGED is_init_

Next ==
    \/ InitPools
    \/ \E b \in Buffers : \E n \in Sizes : MallocMemory(b, n)
    \/ \E b \in Buffers : FreeMemory(b)

Spec == Init /\ [][Next]_vars

(***************************************************************************)
(* What the owner of a buffer wrote to it is there as long as it owns it:  *)
(* no header, no link of a free list and no data of another buffer is      *)
(* written over it by malloc_memory or free_memory.                        *)
(***************************************************************************)
ContentsKept ==
    \A b \in Buffers : live[b].pool # 0 =>
        \A i \in From(live[b].pool, live[b].at, live[b].size) : mem[live[b].pool][i] = Data(b)
===============================================================================
