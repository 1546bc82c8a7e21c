------------------------- MODULE DiscardableMemory -------------------------
(***************************************************************************)
(* The memory below the cache: NumChunks anonymous or file mappings of     *)
(* PagesPerChunk pages each, and what the kernel does to them.             *)
(*                                                                         *)
(* Of a page only the last byte (struct discardable_entry, tail) is kept:  *)
(* it carries both the payload's last byte and the mark that tells a live  *)
(* page from one the kernel replaced by zeros.  The bytes before it, and   *)
(* the loads and stores within a call, are the subject of PageProtocol.    *)
(*                                                                         *)
(* The kernel is not part of the repository.  Its actions say what the     *)
(* code relies on: a page under MADV_FREE may be zeroed at any time until  *)
(* it is written again, MADV_DONTNEED zeroes private pages at once and     *)
(* leaves the contents of a shared file mapping as they are.               *)
(***************************************************************************)
EXTENDS Integers

CONSTANTS
    NumChunks,       \* NUMBER_OF_CHUNKS
    PagesPerChunk,   \* cache->pages_per_chunk
    LazyfreeChunks,  \* arguments of lazyfree_cache_new_ex: how many chunks
    AnonChunks,      \* are MADV_FREE'd, plain anonymous memory,
    DiskChunks,      \* or mapped from a file
    LeftoverBytes    \* what may be found in a file another run left behind

ASSUME ChunksAssumption ==
    /\ NumChunks \in 1..127          \* static_assert NUMBER_OF_CHUNKS < (1 << 7)
    /\ LazyfreeChunks \in Nat /\ AnonChunks \in Nat /\ DiskChunks \in Nat
    /\ LazyfreeChunks + AnonChunks + DiskChunks = NumChunks

ASSUME LeftoverAssumption == LeftoverBytes \subseteq 0 .. 255

\* mmap of a chunk of no bytes fails, and the program exits with it.
ASSUME PagesAssumption == PagesPerChunk \in Nat \ {0}

Chunk == 0 .. NumChunks - 1
Page  == 0 .. PagesPerChunk - 1
Slot  == Chunk \X Page               \* struct entry_descriptor: chunk, index
Byte  == 0 .. 255

\* The chunk's mmap_impl and madv_impl, chosen by its position.
Kind(c) ==
    IF c < LazyfreeChunks THEN "lazyfree"
    ELSE IF c < LazyfreeChunks + AnonChunks THEN "anon"
    ELSE "disk"

VARIABLES
    entries,    \* entries[s]: the last byte of page s
    lazy        \* lazy[s]: MADV_FREE was called on page s and nothing was
                \* written to it since

memVars == <<entries, lazy>>

MemTypeOK ==
    /\ entries \in [Slot -> Byte]
    /\ lazy \in [Slot -> BOOLEAN]

\* Anonymous pages start as zeros.  The file behind a disk chunk is opened
\* without O_TRUNC, under a name another run of the program may have used.
MemInit ==
    /\ entries \in [Slot -> {0} \cup LeftoverBytes]
    /\ \A s \in Slot : Kind(s[1]) # "disk" => entries[s] = 0
    /\ lazy = [s \in Slot |-> FALSE]

\* The mappings are given back, and made again.
MemRenew ==
    /\ \E files \in [Slot -> {0} \cup LeftoverBytes] :
          entries' = [s \in Slot |-> IF Kind(s[1]) = "disk" THEN files[s] ELSE 0]
    /\ lazy' = [s \in Slot |-> FALSE]

\* A store to the last byte of page s.  A written page is dirty again.
StoreTail(s, b) ==
    /\ entries' = [entries EXCEPT ![s] = b]
    /\ lazy' = [lazy EXCEPT ![s] = FALSE]

\* Mutant: lazyfree_madv_nop is not used.
MadvImplAll(C) ==
    lazy' = [s \in Slot |-> IF s[1] \in C THEN entries[s] # 0 ELSE lazy[s]]

\* Mutant: the current chunk is given to the kernel as well.
MadvImplEverywhere(C) ==
    lazy' = [s \in Slot |-> Kind(s[1]) = "lazyfree" /\ entries[s] # 0]

\* madv_impl on every chunk of C: MADV_FREE where the chunk is of that kind,
\* nothing elsewhere.  A page that reads as zeros has nothing to lose.
MadvImpl(C) ==
    lazy' = [s \in Slot |-> IF s[1] \in C /\ Kind(s[1]) = "lazyfree"
                            THEN entries[s] # 0
                            ELSE lazy[s]]

\* MADV_DONTNEED on chunk c.
MadvDontneed(c) ==
    /\ entries' = [s \in Slot |-> IF s[1] = c /\ Kind(c) # "disk"
                                  THEN 0 ELSE entries[s]]
    /\ lazy' = [s \in Slot |-> IF s[1] = c THEN FALSE ELSE lazy[s]]

\* Memory pressure: the kernel takes page s, which reads as zeros from now on.
Reclaim(s) ==
    /\ lazy[s]
    /\ entries' = [entries EXCEPT ![s] = 0]
    /\ lazy' = [lazy EXCEPT ![s] = FALSE]

=============================================================================
