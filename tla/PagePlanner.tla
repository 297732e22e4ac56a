---------------------------- MODULE PagePlanner ----------------------------
(***************************************************************************)
(* How the continuations dry run chooses the memory pages of a chunk       *)
(* (rust_continuations_dry_run, find_chunk_first_memory_access and         *)
(* has_all_needed_pages in riscv/src/continuations.rs).                    *)
(*                                                                         *)
(* A chunk has a fixed number of rows.  Every page the bootloader loads    *)
(* costs rows, so each page added to the chunk shortens the part of the    *)
(* execution that fits in it, and with it the accesses that need a page.   *)
(***************************************************************************)
EXTENDS Integers, Sequences

CONSTANTS
    Length,           \* rows of a chunk, the maximal degree of the main machine
    Page,             \* page numbers
    WORDS_PER_PAGE,
    bootloader_size   \* set of pages -> rows the bootloader needs for them

ASSUME PlannerAssumption ==
    /\ Length \in Nat /\ WORDS_PER_PAGE \in Nat \ {0} /\ Page \subseteq Nat
    /\ bootloader_size \in [SUBSET Page -> Nat \ {0}]
    /\ bootloader_size[{}] < Length
\* The length is a power of two, and in `bootloader_size' the constant part,
\* the part per page and the (doubled) parts per bit are even.
ASSUME EvenAssumption ==
    (\E k \in 0 .. Length : Length = 2 * k)
    /\ \A pages \in SUBSET Page :
          \E k \in 0 .. bootloader_size[pages] : bootloader_size[pages] = 2 * k

VARIABLES
    accesses,         \* memory accesses of the full execution, in order
    proven_trace,     \* rows of the full execution that are proven
    idx,              \* next access to look at
    accessed_pages,
    bootloader_rows,  \* 0 until a page is added
    plan              \* "idle", "scan", "ready" or "panic"

plannerVars == <<accesses, proven_trace, idx, accessed_pages, bootloader_rows, plan>>

PageOf(access) == access.addr \div WORDS_PER_PAGE

\* The binary search returns any access of the row, or the place where one
\* would be; the loop after it walks back to the first one.
find_chunk_first_memory_access(row, i) ==
    /\ \A j \in 1 .. (i - 1) : accesses[j].row < row
    /\ \A j \in i .. Len(accesses) : accesses[j].row >= row

\* Faulty variant: the chunk is taken to be one row shorter.
InWindow_Short(access, n) ==
    access.row >= proven_trace /\ access.row < proven_trace + n - 1

\* The recorded accesses among `n' rows from the start of the chunk.
InWindow(access, n) == access.row >= proven_trace /\ access.row < proven_trace + n

has_all_needed_pages(pages, n) ==
    \A i \in 1 .. Len(accesses) : InWindow(accesses[i], n) => PageOf(accesses[i]) \in pages

\* Start of the loop body for the chunk that begins at `row'.
StartPlan(row) ==
    /\ plan \in {"idle", "ready"}
    /\ proven_trace' = row
    /\ \E i \in 1 .. (Len(accesses) + 1) :
           find_chunk_first_memory_access(row, i) /\ idx' = i
    /\ accessed_pages' = {}
    /\ bootloader_rows' = 0
    /\ plan' = "scan"
    /\ UNCHANGED accesses

\* Faulty variant: the scan stops one row early.
NoMoreAccesses_Early ==
    idx <= Len(accesses) => accesses[idx].row >= proven_trace + Length - bootloader_rows - 1

NoMoreAccesses ==
    idx <= Len(accesses) => accesses[idx].row >= proven_trace + Length - bootloader_rows

EndOfScan ==
    /\ plan = "scan"
    /\ NoMoreAccesses
    /\ plan' = "ready"
    /\ UNCHANGED <<accesses, proven_trace, idx, accessed_pages, bootloader_rows>>

\* Faulty variant: the loop goes on without moving to the next access.
KnownPage_SameAccess ==
    /\ plan = "scan"
    /\ ~NoMoreAccesses
    /\ PageOf(accesses[idx]) \in accessed_pages
    /\ UNCHANGED plannerVars

KnownPage ==
    /\ plan = "scan"
    /\ ~NoMoreAccesses
    /\ PageOf(accesses[idx]) \in accessed_pages
    /\ idx' = idx + 1
    /\ UNCHANGED <<accesses, proven_trace, accessed_pages, bootloader_rows, plan>>

\* Faulty variant: a bootloader that fills the chunk is accepted.
AddPage_NoRoom ==
    /\ plan = "scan"
    /\ ~NoMoreAccesses
    /\ PageOf(accesses[idx]) \notin accessed_pages
    /\ accessed_pages' = accessed_pages \cup {PageOf(accesses[idx])}
    /\ bootloader_rows' = bootloader_size[accessed_pages']
    /\ idx' = idx + 1
    /\ plan' = IF bootloader_rows' > Length THEN "panic"
               ELSE IF has_all_needed_pages(accessed_pages', Length - bootloader_rows')
               THEN "ready" ELSE "scan"
    /\ UNCHANGED <<accesses, proven_trace>>

AddPage ==
    /\ plan = "scan"
    /\ ~NoMoreAccesses
    /\ PageOf(accesses[idx]) \notin accessed_pages
    /\ accessed_pages' = accessed_pages \cup {PageOf(accesses[idx])}
    /\ bootloader_rows' = bootloader_size[accessed_pages']
    /\ idx' = idx + 1
    /\ plan' = IF bootloader_rows' >= Length THEN "panic"
               ELSE IF has_all_needed_pages(accessed_pages', Length - bootloader_rows')
               THEN "ready" ELSE "scan"
    /\ UNCHANGED <<accesses, proven_trace>>

PlanStep == EndOfScan \/ KnownPage \/ AddPage

-----------------------------------------------------------------------------
(* The planner by itself: any recorded accesses in order of their rows, and
   chunks that start anywhere. *)

MemOpsSorted == \A i, j \in 1 .. Len(accesses) : i <= j => accesses[i].row <= accesses[j].row

PlannerInit ==
    /\ accesses \in Seq([row : Nat, addr : Nat])
    /\ \A i \in 1 .. Len(accesses) : PageOf(accesses[i]) \in Page
    /\ MemOpsSorted
    /\ proven_trace = 0
    /\ idx = 1
    /\ accessed_pages = {}
    /\ bootloader_rows = 0
    /\ plan = "idle"

PlannerSpec == PlannerInit /\ [][PlanStep \/ \E row \in Nat : StartPlan(row)]_plannerVars

\* When the pages of a chunk are chosen, every access recorded in the rows that
\* the chunk has left for the program is to one of them.
PagesCovered ==
    plan = "ready" => has_all_needed_pages(accessed_pages, Length - bootloader_size[accessed_pages])

\* A chunk that was not refused has room for at least one row of the program
\* besides the last one, which the next chunk repeats: otherwise the dry run
\* would start the same chunk again for ever.
ChunkMakesProgress == plan = "ready" => Length - bootloader_size[accessed_pages] >= 2
=============================================================================
