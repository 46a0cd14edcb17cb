-------------------------------- MODULE Heap --------------------------------
(***************************************************************************)
(* The heap (mem.c): blocks that follow each other from address 0 of the   *)
(* heap to its end, each with a header that links it to the next and the   *)
(* previous one.  Addresses and sizes count units of RT_ALIGN_SIZE.        *)
(*                                                                         *)
(* heap_sem makes each region of rt_malloc, rt_free and rt_realloc one     *)
(* step.  A realloc that does not keep its block is several such steps:    *)
(*                                                                         *)
(*   grow_alloc   heap_sem released, before rt_malloc(newsize)             *)
(*   grow_free    the bytes copied, before rt_free(rmem)                   *)
(*                                                                         *)
(* The searches along "next" are written as the lowest header that fits:   *)
(* HeapTiled says that the two are the same.                               *)
(***************************************************************************)
EXTENDS Naturals, FiniteSets

CONSTANTS
  MemSize,     \* mem_size_aligned
  Header,      \* SIZEOF_STRUCT_MEM
  MinSize,     \* MIN_SIZE_ALIGNED
  Request,     \* the sizes asked for
  Caller       \* the threads

HeapAssumption ==
  /\ MemSize \in Nat /\ Header \in Nat \ {0} /\ MinSize \in Nat
  /\ Request \subseteq 0 .. MemSize

VARIABLES
  mem,      \* the headers of the blocks by their addresses
  lfree,    \* where the search for a free block begins
  usedMem,  \* used_mem
  live,     \* what the callers hold: the size asked for, by block
  doing,
  growing   \* what a caller reallocates: the block, the new size, the new block

heapVars == <<mem, lfree, usedMem, live, doing, growing>>

End == MemSize + Header      \* heap_end; its prev is never read and not kept

NoBlock == MemSize + Header     \* a null pointer

Address == 0 .. End
Link(next, prev, used) == [next |-> next, prev |-> prev, used |-> used]
LinkType == [next : Address, prev : Address, used : BOOLEAN]

(* The blocks, heap_end left out *)
Blocks(m) == DOMAIN m \ {End}

HeapTypeOK ==
  /\ DOMAIN mem \subseteq Address /\ End \in DOMAIN mem
  /\ mem \in [DOMAIN mem -> LinkType]
  /\ lfree \in Address /\ usedMem \in Nat
  /\ DOMAIN live \subseteq Address /\ live \in [DOMAIN live -> Nat]
  /\ doing \in [Caller -> {"app", "grow_alloc", "grow_free"}]
  /\ growing \in [Caller -> [old : Address, size : 0 .. MemSize, new : Address]]

NotGrowing == [old |-> NoBlock, size |-> 0, new |-> NoBlock]

(* rt_system_heap_init *)
HeapInit ==
  /\ mem = [a \in {0, End} |-> IF a = 0 THEN Link(End, 0, FALSE) ELSE Link(End, End, TRUE)]
  /\ lfree = 0 /\ usedMem = 0
  /\ live = [a \in {} |-> 0]
  /\ doing = [c \in Caller |-> "app"] /\ growing = [c \in Caller |-> NotGrowing]

-----------------------------------------------------------------------------
Lowest(S) == CHOOSE a \in S : \A b \in S : a <= b
Larger(a, b) == IF a < b THEN b ELSE a

Room(m, a) == m[a].next - (a + Header)

Dropped(f, a) == [b \in DOMAIN f \ {a} |-> f[b]]
Added(f, a, x) == [b \in DOMAIN f \cup {a} |-> IF b = a THEN x ELSE f[b]]

(* heap_end has no prev to keep. *)
SetPrev(m, a, p) == IF a = End THEN m ELSE [m EXCEPT ![a].prev = p]

(* Block b, which follows a, becomes part of it. *)
Join(m, a, b) ==
  Dropped(SetPrev([m EXCEPT ![a].next = m[b].next], m[b].next, a), b)

(* A block of size n and a free one are made of block a. *)
Split(m, a, n) ==
  LET b == a + Header + n
  IN  SetPrev(Added([m EXCEPT ![a].next = b], b, Link(m[a].next, a, FALSE)), m[a].next, b)

(* plug_holes: the headers and lfree once the free block a is joined with  *)
(* the free blocks beside it.                                              *)
Heaped(m, l) == [mem |-> m, lfree |-> l]

PlugForward(h, a) ==
  LET b == h.mem[a].next
  IN  IF b # End /\ ~h.mem[b].used
      THEN Heaped(Join(h.mem, a, b), IF h.lfree = b THEN a ELSE h.lfree)
      ELSE h

PlugBackward(h, a) ==
  LET b == h.mem[a].prev
  IN  IF b # a /\ ~h.mem[b].used
      THEN Heaped(Join(h.mem, b, a), IF h.lfree = a THEN b ELSE h.lfree)
      ELSE h

PlugStale(h, a) ==         \* mutant: lfree stays at the header that is gone
  Heaped(PlugBackward(PlugForward(h, a), a).mem, h.lfree)

PlugHoles(h, a) == PlugBackward(PlugForward(h, a), a)

(* The blocks rt_malloc can find for n units, and what it makes of the     *)
(* first one.                                                              *)
Found(m, l, n) ==
  {a \in Blocks(m) : l <= a /\ a < MemSize - n /\ ~m[a].used /\ Room(m, a) >= n}

Splits(m, a, n) == Room(m, a) >= n + Header + MinSize

Taken(m, a, n) ==
  [(IF Splits(m, a, n) THEN Split(m, a, n) ELSE m) EXCEPT ![a].used = TRUE]

(* lfree once block a has been taken *)
NextFree(m, l, a) ==
  IF l = a THEN Lowest({b \in DOMAIN m : l <= b /\ (b = End \/ ~m[b].used)}) ELSE l

(* The region of rt_malloc for a size n that is not 0 *)
Allocate(n) ==
  LET size == Larger(n, MinSize)
      a == Lowest(Found(mem, lfree, size))
  IN  /\ Found(mem, lfree, size) # {}
      /\ mem' = Taken(mem, a, size)
      /\ lfree' = NextFree(mem', lfree, a)
      /\ usedMem' = usedMem + (mem'[a].next - a)
      /\ live' = Added(live, a, n)

(* No block is found, or none is asked for: NULL *)
Refused(n) == n = 0 \/ n > MemSize \/ Found(mem, lfree, Larger(n, MinSize)) = {}

(* The region of rt_free *)
FreeBlock(a) ==
  LET h == PlugHoles(Heaped([mem EXCEPT ![a].used = FALSE], IF a < lfree THEN a ELSE lfree), a)
  IN  /\ mem' = h.mem /\ lfree' = h.lfree
      /\ usedMem' = usedMem - (mem[a].next - a)
      /\ live' = Dropped(live, a)

-----------------------------------------------------------------------------
(* A block that is being reallocated is not used by another caller. *)
Usable(a) == a \in DOMAIN live /\ \A c \in Caller : a \notin {growing[c].old, growing[c].new}

(* rt_malloc and rt_free *)
Malloc(c, n) ==
  /\ doing[c] = "app" /\ ~Refused(n)
  /\ Allocate(n)
  /\ UNCHANGED <<doing, growing>>

Free(c, a) ==
  /\ doing[c] = "app" /\ Usable(a)
  /\ FreeBlock(a)
  /\ UNCHANGED <<doing, growing>>

(* rt_realloc in place: the size is the same, or so much smaller that the  *)
(* rest becomes a block.                                                   *)
Same(c, a) ==
  /\ doing[c] = "app" /\ Usable(a)
  /\ live' = [live EXCEPT ![a] = Room(mem, a)]
  /\ UNCHANGED <<mem, lfree, usedMem, doing, growing>>

Shrinks(a, n) == n + Header + MinSize < Room(mem, a)

ShrinkUncounted(c, a, n) ==    \* mutant: used_mem counts the rest as used
  LET h == PlugHoles(Heaped(Split(mem, a, n), lfree), a + Header + n)
  IN  /\ doing[c] = "app" /\ Usable(a) /\ Shrinks(a, n)
      /\ mem' = h.mem /\ lfree' = h.lfree
      /\ live' = [live EXCEPT ![a] = n]
      /\ UNCHANGED <<usedMem, doing, growing>>

Shrink(c, a, n) ==
  LET h == PlugHoles(Heaped(Split(mem, a, n), lfree), a + Header + n)
  IN  /\ doing[c] = "app" /\ Usable(a) /\ Shrinks(a, n)
      /\ mem' = h.mem /\ lfree' = h.lfree
      /\ usedMem' = usedMem - (Room(mem, a) - n)
      /\ live' = [live EXCEPT ![a] = n]
      /\ UNCHANGED <<doing, growing>>

(* Any other size, a smaller one as well: a new block, a copy, and the old *)
(* block is freed.                                                         *)
Grow(c, a, n) ==
  /\ doing[c] = "app" /\ Usable(a)
  /\ n # Room(mem, a) /\ ~Shrinks(a, n)
  /\ doing' = [doing EXCEPT ![c] = "grow_alloc"]
  /\ growing' = [growing EXCEPT ![c] = [old |-> a, size |-> n, new |-> NoBlock]]
  /\ UNCHANGED <<mem, lfree, usedMem, live>>

GrowAlloc(c) ==
  LET n == growing[c].size
      a == Lowest(Found(mem, lfree, Larger(n, MinSize)))
  IN  /\ doing[c] = "grow_alloc" /\ ~Refused(n)
      /\ Allocate(n)
      /\ doing' = [doing EXCEPT ![c] = "grow_free"]
      /\ growing' = [growing EXCEPT ![c].new = a]

(* NULL is returned and the old block stays. *)
GrowFails(c) ==
  /\ doing[c] = "grow_alloc" /\ Refused(growing[c].size)
  /\ doing' = [doing EXCEPT ![c] = "app"]
  /\ growing' = [growing EXCEPT ![c] = NotGrowing]
  /\ UNCHANGED <<mem, lfree, usedMem, live>>

GrowFree(c) ==
  /\ doing[c] = "grow_free"
  /\ FreeBlock(growing[c].old)
  /\ doing' = [doing EXCEPT ![c] = "app"]
  /\ growing' = [growing EXCEPT ![c] = NotGrowing]

HeapNext ==
  \E c \in Caller :
    \/ \E n \in Request : Malloc(c, n)
    \/ \E a \in DOMAIN live :
         \/ Free(c, a) \/ Same(c, a)
         \/ \E n \in Request : Shrink(c, a, n) \/ Grow(c, a, n)
    \/ GrowAlloc(c) \/ GrowFails(c) \/ GrowFree(c)

HeapSpec == HeapInit /\ [][HeapNext]_heapVars

-----------------------------------------------------------------------------
(* Every byte of the heap belongs to one block, whatever is split and      *)
(* joined: each header's next is the header that follows it, and the prev  *)
(* of that one leads back.                                                 *)
Tiled(m) ==
  /\ {0, End} \subseteq DOMAIN m
  /\ \A a \in Blocks(m) :
       /\ m[a].next \in DOMAIN m /\ a + Header <= m[a].next
       /\ \A b \in DOMAIN m : b <= a \/ m[a].next <= b
       /\ m[a].next # End => m[m[a].next].prev = a
  /\ 0 # End => m[0].prev = 0

(* No two free blocks follow each other: all there is to merge is merged.  *)
Merged(m) == \A a \in Blocks(m) : m[a].next # End /\ ~m[a].used => m[m[a].next].used

(* The used blocks are those the callers hold, each at least as large as   *)
(* asked for; the search begins at a block that is there and free.         *)
Owned ==
  /\ {a \in Blocks(mem) : mem[a].used} = DOMAIN live
  /\ \A a \in DOMAIN live : Room(mem, a) >= live[a]
  /\ lfree \in DOMAIN mem /\ (lfree = End \/ ~mem[lfree].used)

HeapTiled == Tiled(mem) /\ Merged(mem) /\ Owned

(* used_mem is the size of the used blocks, headers included: with Merged, *)
(* all the rest is free.                                                   *)
UsedUnits == Cardinality(UNION {a .. mem[a].next - 1 : a \in DOMAIN live})
UsedExact == usedMem = UsedUnits

(* "NULL if no free memory was found" (mem.c:244): rt_malloc finds a free  *)
(* block that is large enough if there is one.                             *)
NullIfNoMemory ==
  \A n \in Request \ {0} :
    Refused(n) => \A a \in Blocks(mem) : mem[a].used \/ Room(mem, a) < Larger(n, MinSize)

(* "pointer to the lowest free block" (mem.c:127) *)
LowestFree == \A a \in Blocks(mem) : ~mem[a].used => lfree <= a
=============================================================================
