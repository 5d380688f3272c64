------------------------------ MODULE DynAlloc ------------------------------
(***************************************************************************)
(* LUFA's block allocator, which CULeth carries and does not use: a heap   *)
(* of blocks with two flags each, handles that point into it, and a Defrag *)
(* that moves blocks under their handles when no run of free blocks is     *)
(* long enough.  An application fills what it is given.                    *)
(*                                                                         *)
(* Mem_FindFreeBlocks returns the last block of the run it has found and   *)
(* not the first: an allocation of several blocks may reach over blocks in *)
(* use, or over the end of the heap.  What the memory holds after that is  *)
(* not followed any further.                                               *)
(***************************************************************************)
EXTENDS Integers, Sequences, FiniteSetsExt

CONSTANTS
  NUM_BLOCKS, NUM_HANDLES, BLOCK_SIZE,
  AllocSizes   \* the numbers of bytes an application asks for

ASSUME DynAllocAssumption ==
  /\ NUM_BLOCKS \in Nat \ {0} /\ NUM_HANDLES \in Nat \ {0} /\ BLOCK_SIZE \in Nat \ {0}
  /\ AllocSizes \subseteq Nat

VARIABLES
  blockFlags,  \* Mem_Block_Flags: of each block, a set of "USED" and "LINKED"
  heap,        \* what each block holds: a part of an allocation, or Nothing
  handles,     \* Mem_Handles: the first block of each allocation, or NULL
  granted,     \* history: how many blocks each handle was granted
  leaked,      \* history: blocks marked by an allocation that found no handle
  misplaced    \* history: how many blocks an allocation wanted that went wrong

allocVars == <<blockFlags, heap, handles, granted, leaked, misplaced>>

Blocks  == 0 .. NUM_BLOCKS - 1
Handles == 0 .. NUM_HANDLES - 1
NULL    == -1
Nothing == <<NULL, 0>>
Placed  == -1

AllocInit ==
  /\ blockFlags = [b \in Blocks |-> {}] /\ heap = [b \in Blocks |-> Nothing]
  /\ handles = [h \in Handles |-> NULL] /\ granted = [h \in Handles |-> 0]
  /\ leaked = 0 /\ misplaced = Placed

-----------------------------------------------------------------------------
(* The flags, the contents and the handles.                                *)

Memory == [flags |-> blockFlags, heap |-> heap, handles |-> handles]

UsedBlocks(f) == {b \in Blocks : "USED" \in f[b]}
FreeBlocks(f) == Blocks \ UsedBlocks(f)

(* Where a used block ends up when all of them move down in turn.          *)
Down(f, b) == Cardinality({u \in UsedBlocks(f) : u < b})

(* Mutant: the handles keep pointing to where their blocks were.           *)
DefragBlocksOnly(m) ==
  LET From(b) == {u \in UsedBlocks(m.flags) : Down(m.flags, u) = b}
  IN [m EXCEPT !.flags = [b \in Blocks |-> UNION {m.flags[u] : u \in From(b)}],
               !.heap  = [b \in Blocks |-> IF From(b) = {} THEN Nothing
                                           ELSE m.heap[Min(From(b))]]]

(* Mem_Defrag: each used block moves with its flags and the handle that    *)
(* points to it.  What is left in a free block is nobody's.                *)
Defrag(m) ==
  LET From(b) == {u \in UsedBlocks(m.flags) : Down(m.flags, u) = b}
  IN [flags   |-> [b \in Blocks |-> UNION {m.flags[u] : u \in From(b)}],
      heap    |-> [b \in Blocks |-> IF From(b) = {} THEN Nothing ELSE m.heap[Min(From(b))]],
      handles |-> [h \in Handles |-> IF m.handles[h] \in UsedBlocks(m.flags)
                                     THEN Down(m.flags, m.handles[h]) ELSE m.handles[h]]]

(* Mem_FindFreeBlocks: the block that completes the first run of free      *)
(* blocks that is long enough.  A run of none is complete with block 0.    *)
RunEnds(f, n) ==
  {b \in Blocks : b + 1 >= n /\ \A i \in b - n + 1 .. b : i \in FreeBlocks(f)}

-----------------------------------------------------------------------------
ReqBlocks(bytes) == bytes \div BLOCK_SIZE + (IF bytes % BLOCK_SIZE = 0 THEN 0 ELSE 1)

(* The blocks are marked before a handle is looked for.                    *)
Mark(d, taken) ==
  blockFlags' = [b \in Blocks |-> IF b \notin taken THEN d.flags[b]
                                  ELSE IF b = Max(taken) THEN {"USED"}
                                  ELSE {"USED", "LINKED"}]

(* The application gets the first unused handle and fills the blocks.      *)
Grant(d, g, taken) ==
  LET unused == {x \in Handles : d.handles[x] = NULL}
      h == Min(unused)
  IN IF unused = {}
     THEN /\ leaked' = leaked + Cardinality(taken)
          /\ heap' = d.heap /\ handles' = d.handles /\ granted' = g
     ELSE /\ handles' = [d.handles EXCEPT ![h] = Min(taken)]
          /\ granted' = [g EXCEPT ![h] = Cardinality(taken)]
          /\ heap' = [b \in Blocks |-> IF b \in taken THEN <<h, b - Min(taken)>> ELSE d.heap[b]]
          /\ UNCHANGED leaked

(* Mem_Alloc and Mem_Calloc, on the memory m with the grants g.            *)
Alloc(m, g, bytes) ==
  LET n == ReqBlocks(bytes)
      d == IF RunEnds(m.flags, n) # {} THEN m ELSE Defrag(m)
      ends == RunEnds(d.flags, n)
      taken == Min(ends) .. Min(ends) + n - 1
  IN \/ /\ ends = {}
        /\ blockFlags' = d.flags /\ heap' = d.heap /\ handles' = d.handles
        /\ granted' = g /\ UNCHANGED <<leaked, misplaced>>
     \/ /\ ends # {} /\ (n = 0 \/ ~(taken \subseteq FreeBlocks(d.flags)))
        /\ misplaced' = n
        /\ UNCHANGED <<blockFlags, heap, handles, granted, leaked>>
     \/ /\ ends # {} /\ n > 0 /\ taken \subseteq FreeBlocks(d.flags)
        /\ Mark(d, taken) /\ Grant(d, g, taken)
        /\ UNCHANGED misplaced

(* Mem_Free follows the links.                                             *)
Chain(f, first) ==
  {b \in Blocks : b >= first /\ \A i \in first .. b - 1 : "LINKED" \in f[i]}

Freed(m, x) ==
  LET freed == Chain(m.flags, m.handles[x])
  IN [flags   |-> [b \in Blocks |-> IF b \in freed THEN {} ELSE m.flags[b]],
      heap    |-> [b \in Blocks |-> IF b \in freed THEN Nothing ELSE m.heap[b]],
      handles |-> [m.handles EXCEPT ![x] = NULL]]

Mem_Alloc ==
  /\ misplaced = Placed
  /\ \E bytes \in AllocSizes : Alloc(Memory, granted, bytes)

Mem_Realloc ==
  /\ misplaced = Placed
  /\ \E x \in Handles, bytes \in AllocSizes :
       /\ handles[x] # NULL
       /\ Alloc(Freed(Memory, x), [granted EXCEPT ![x] = 0], bytes)

Mem_Free ==
  /\ misplaced = Placed
  /\ \E x \in Handles :
       /\ handles[x] # NULL
       /\ LET m == Freed(Memory, x)
          IN blockFlags' = m.flags /\ heap' = m.heap /\ handles' = m.handles
       /\ granted' = [granted EXCEPT ![x] = 0]
  /\ UNCHANGED <<leaked, misplaced>>

Mem_TotalFreeBlocks == Cardinality(FreeBlocks(blockFlags))

Mem_TotalFreeHandles == Cardinality({x \in Handles : handles[x] = NULL})

AllocNext == Mem_Alloc \/ Mem_Realloc \/ Mem_Free

-----------------------------------------------------------------------------
(* The allocations an application has, and the blocks of each.             *)
InUse  == {x \in Handles : handles[x] # NULL}
Own(x) == handles[x] .. handles[x] + granted[x] - 1

(* Every allocation holds what was put into it, in blocks of its own that  *)
(* are linked up to its last one, wherever Defrag has moved them; the free *)
(* blocks are those no allocation has, none lost as long as there is a     *)
(* handle for each; and an allocation of one block never goes wrong.       *)
AllocationsIntact ==
  /\ misplaced # 1
  /\ misplaced = Placed =>
       /\ \A x \in InUse :
            /\ Chain(blockFlags, handles[x]) = Own(x)
            /\ Own(x) \subseteq UsedBlocks(blockFlags)
            /\ \A b \in Own(x) : heap[b] = <<x, b - handles[x]>>
            /\ \A y \in InUse : x # y => Own(x) \cap Own(y) = {}
       /\ Mem_TotalFreeBlocks + leaked + Cardinality(UNION {Own(x) : x \in InUse}) = NUM_BLOCKS
       /\ Mem_TotalFreeHandles > 0 /\ leaked = 0
            => \A x \in Handles : granted[x] = 0 <=> handles[x] = NULL

=============================================================================
