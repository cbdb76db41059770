--------------------------- MODULE SdramAllocator ---------------------------
(***************************************************************************)
(* The allocator of axoloti_memory.c: the blocks a patch asks for when it  *)
(* is initialised are cut one after the other from the external memory.    *)
(* Addresses count from the base.  sdram_free is left out: nothing calls   *)
(* it.                                                                     *)
(***************************************************************************)
EXTENDS Integers, Sequences

CONSTANT SdramSize   \* of the region left over by the patch, a multiple of 4

ASSUME SdramAssumption == SdramSize \in Nat

VARIABLES
    current,  \* sdram_current_addr
    total,    \* sdram_total_remaining
    blocks    \* history: the blocks handed out since sdram_init

sdram == <<current, total, blocks>>

Block(at, size) == [at |-> at, size |-> size]

Reaches(b, c) == b.at + b.size <= c.at
Disjoint(b, c) == Reaches(b, c) \/ Reaches(c, b)

\* A patch has the memory it asked for, and its blocks to themselves.
BlocksFit ==
    /\ \A i \in DOMAIN blocks : blocks[i].at >= 0 /\ blocks[i].at + blocks[i].size <= SdramSize
    /\ \A i, j \in DOMAIN blocks : i # j => Disjoint(blocks[i], blocks[j])
-----------------------------------------------------------------------------
RoundUp(size) == ((size + 3) \div 4) * 4

SdramInit ==
    /\ current' = 0
    /\ total' = SdramSize
    /\ blocks' = <<>>

Fits(size) == current + RoundUp(size) <= SdramSize

\* Mutant: what does not fit is not counted.
MallocUncounted(size) ==
    LET n == RoundUp(size)
    IN  IF current + n > SdramSize
          THEN /\ blocks' = Append(blocks, Block(0, size))
               /\ UNCHANGED <<current, total>>
          ELSE /\ blocks' = Append(blocks, Block(current, size))
               /\ current' = current + n
               /\ total' = total - n

\* When it does not fit, sdram_malloc returns the base.
Malloc(size) ==
    LET n == RoundUp(size)
    IN  /\ total' = total - n
        /\ IF current + n > SdramSize
             THEN /\ blocks' = Append(blocks, Block(0, size))
                  /\ UNCHANGED current
             ELSE /\ blocks' = Append(blocks, Block(current, size))
                  /\ current' = current + n
=============================================================================
