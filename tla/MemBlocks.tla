----------------------------- MODULE MemBlocks -----------------------------
(***************************************************************************)
(* The four block allocators: linked list nodes, LED notifications,        *)
(* variable requirements and the callback data of transmissions.  Each is  *)
(* a pool of Zephyr memory blocks (external): numbered blocks that follow  *)
(* each other, each of the block size the pool was defined with, rounded   *)
(* up to a machine word.                                                   *)
(*                                                                         *)
(* An allocated object is filled in by its owner at once.  Memory is       *)
(* modelled by who wrote each byte last.                                   *)
(***************************************************************************)
EXTENDS Integers

CONSTANTS
  NumBlocks,  \* blocks of a pool
  Nobody      \* a byte that has not been written

\* util.h
DIV4_UP(x) == (x + 3) % 4

\* sizeof(void *) on the nRF52840.
Word == 4

\* Zephyr's SYS_MEM_BLOCKS_DEFINE_STATIC rounds the size it is given to words.
WB_UP(x) == ((x + Word - 1) \div Word) * Word

\* A pool of objects of `size' bytes, in blocks of `block' bytes.
Pool(size) == [size |-> size, block |-> WB_UP(DIV4_UP(size))]

\* linked_list_node_allocator: a LinkedListNode is two pointers.
LinkedListNodes == Pool(8)

\* led_notification_allocator: a LedNotification is a colour and a pattern.
LedNotifications == Pool(2)

\* variable_requirement_allocator: CONFIG_VARIABLE_REQUIREMENT_MAX_SIZE
VariableRequirements == Pool(16)

\* transmit_cb_data_allocator: a callback and its user data.
TransmitCbData == Pool(8)

Pools == {LinkedListNodes, LedNotifications, VariableRequirements, TransmitCbData}

Blocks == 0..(NumBlocks - 1)

\* The bytes of an object of pool p at block b.
Bytes(p, b) == (b * p.block)..(b * p.block + p.size - 1)

VARIABLES
  pool,    \* the pool under consideration
  live,    \* its allocated blocks
  memory   \* per byte from the start of the pool on: the block it belongs to,
           \* as the last write has it, or Nobody

vars == <<pool, live, memory>>

Memory == 0..(NumBlocks * 16)

\* SYS_MEM_BLOCKS_DEFINE_STATIC
Init ==
  /\ pool \in Pools
  /\ live = {}
  /\ memory = [a \in Memory |-> Nobody]

\* <pool>_allocator_alloc, after which the owner fills in the object; without a
\* free block it returns NULL and changes nothing.
Alloc(b) ==
  /\ b \notin live
  /\ live' = live \cup {b}
  /\ memory' = [a \in Memory |-> IF a \in Bytes(pool, b) THEN b ELSE memory[a]]
  /\ UNCHANGED pool

\* <pool>_allocator_free
Free(b) ==
  /\ b \in live
  /\ live' = live \ {b}
  /\ UNCHANGED <<pool, memory>>

Next == \E b \in Blocks : Alloc(b) \/ Free(b)

Spec == Init /\ [][Next]_vars

\* The allocators' headers: they "must be able to simulatensously allocate" their
\* blocks "of size sizeof(LinkedListNode) bytes", and likewise for the others.
\* What was written to an object is still there while it is allocated, whatever
\* objects are allocated after it.
ObjectsKeepTheirContent ==
  \A b \in live : \A a \in Bytes(pool, b) : memory[a] = b
=============================================================================
