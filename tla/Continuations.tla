--------------------------- MODULE Continuations ---------------------------
(***************************************************************************)
(* The continuations dry run (rust_continuations_dry_run in                *)
(* riscv/src/continuations.rs): run the whole program once, then cut the   *)
(* execution into chunks of a fixed number of rows.  Each chunk is planned *)
(* (PagePlanner), simulated by the executor (RiscvExecutor) from the pages *)
(* and registers its bootloader loads, and compared with the full run.     *)
(*                                                                         *)
(* The Merkle tree is abstracted to the memory it commits to:              *)
(* MemoryMerkleTree shows that its root is the root of exactly those pages. *)
(***************************************************************************)
EXTENDS RiscvExecutor, PagePlanner

CONSTANTS
    InitialMemory,  \* memory image of the program
    UsizeMax        \* row limit of the full run

ASSUME PageAssumption == \A a \in Address : a \div WORDS_PER_PAGE \in Page \ {0}
\* The bootloader has rows besides reset and jump_to_operation.
ASSUME DryRunAssumption ==
    /\ InitialMemory \in [Address -> Word]
    /\ UsizeMax \in Nat /\ bootloader_size[{}] < UsizeMax
    /\ \A pages \in SUBSET Page : bootloader_size[pages] > 2

VARIABLES
    phase,      \* "full", "plan", "simulate", "validate", "done" or "panic"
    full_exec,  \* trace of the full execution
    tree,       \* memory that the Merkle tree commits to
    registers,  \* register values of the next chunk: [regs, query, pc]
    chunks      \* what was pushed to the result, for each chunk: [from, rows,
                \* boot] where `from' (the row of the full trace the chunk starts
                \* at) and `boot' (rows of its bootloader) are history

dryVars == <<phase, full_exec, tree, registers, chunks>>
vars == <<execVars, plannerVars, dryVars>>

default_register_values == [regs |-> [r \in Register |-> 0], query |-> 0, pc |-> DEFAULT_PC]

Init ==
    /\ program \in Programs
    /\ last = default_register_values.regs
    /\ second_last = last
    /\ mem = InitialMemory
    /\ query_arg = 0
    /\ trace = << >>
    /\ mem_ops = << >>
    /\ max_rows = 0
    /\ status = "idle"
    /\ accesses = << >>
    /\ proven_trace = 0
    /\ idx = 1
    /\ accessed_pages = {}
    /\ bootloader_rows = 0
    /\ plan = "idle"
    /\ phase = "full"
    /\ full_exec = << >>
    /\ tree = InitialMemory
    /\ registers = default_register_values
    /\ chunks = << >>

\* The full run starts with a bootloader that loads no pages.
StartFullRun ==
    /\ phase = "full"
    /\ status = "idle"
    /\ StartRun(bootloader_size[{}], default_register_values, InitialMemory, UsizeMax)
    /\ UNCHANGED <<plannerVars, dryVars>>

ExecutorStep ==
    /\ phase \in {"full", "simulate"}
    /\ Step
    /\ UNCHANGED <<plannerVars, dryVars>>

\* Rows are counted from 0 in the code.
RowOfPc(rows, pc) == {i \in 0 .. (Len(rows) - 1) : rows[i + 1].pc = pc}
FirstRow(rows, pc) == CHOOSE i \in RowOfPc(rows, pc) : \A j \in RowOfPc(rows, pc) : i <= j

\* The proven part starts with the first row after the bootloader.
FinishFullRun ==
    /\ phase = "full"
    /\ status = "finished"
    /\ full_exec' = trace
    /\ accesses' = mem_ops
    /\ proven_trace' = FirstRow(trace, DEFAULT_PC)
    /\ phase' = "plan"
    /\ UNCHANGED <<execVars, idx, accessed_pages, bootloader_rows, plan, tree, registers, chunks>>

StartChunk ==
    /\ phase = "plan"
    /\ plan = "idle"
    /\ StartPlan(proven_trace)
    /\ UNCHANGED <<execVars, dryVars>>

PlanChunk ==
    /\ phase = "plan"
    /\ PlanStep
    /\ phase' = IF plan' = "panic" THEN "panic" ELSE "plan"
    /\ UNCHANGED <<execVars, full_exec, tree, registers, chunks>>

\* The simulated bootloader writes the pages into an empty memory.
LoadPages == [a \in Address |->
                 IF a \div WORDS_PER_PAGE \in accessed_pages THEN tree[a] ELSE 0]

SimulateChunk ==
    /\ phase = "plan"
    /\ plan = "ready"
    /\ StartRun(bootloader_size[accessed_pages], registers, LoadPages, Length)
    /\ phase' = "simulate"
    /\ UNCHANGED <<plannerVars, full_exec, tree, registers, chunks>>

\* Faulty variant: the registers after the last instruction.
chunk_registers_Last == [regs |-> last, query |-> trace[Len(trace)].query, pc |-> curr_pc]

\* The registers before the last instruction and the machine registers of the
\* last row.
chunk_registers == [regs |-> second_last, query |-> trace[Len(trace)].query, pc |-> curr_pc]

\* Faulty variant: the memory of the chunk replaces that of the tree.
update_pages_All == mem

\* Faulty variant: the pages of the tree are not updated.
update_pages_None == tree

\* The tree with the loaded pages as the chunk left them.
update_pages ==
    [a \in Address |-> IF a \div WORDS_PER_PAGE \in accessed_pages THEN mem[a] ELSE tree[a]]

\* The assertion on the rows of the bootloader, then the new state of
\* memory and registers.
ReplaceState ==
    /\ phase = "simulate"
    /\ status = "finished"
    /\ \/ /\ \/ RowOfPc(trace, registers.pc) = {}
             \/ FirstRow(trace, registers.pc) # bootloader_size[accessed_pages]
          /\ phase' = "panic"
          /\ UNCHANGED <<tree, registers, chunks>>
       \/ /\ RowOfPc(trace, registers.pc) # {}
          /\ FirstRow(trace, registers.pc) = bootloader_size[accessed_pages]
          /\ tree' = update_pages
          /\ registers' = chunk_registers
          /\ chunks' = Append(chunks, [from |-> proven_trace, rows |-> Len(trace),
                                       boot |-> bootloader_size[accessed_pages]])
          /\ phase' = "validate"
    /\ UNCHANGED <<execVars, plannerVars, full_exec>>

\* Columns are padded with their last value.
FullRow(i) == IF i < Len(full_exec) THEN full_exec[i + 1] ELSE full_exec[Len(full_exec)]

SameTrace(start) ==
    \A i \in 0 .. (Len(trace) - start - 1) :
        /\ trace[start + i + 1].pc = FullRow(proven_trace + i).pc
        /\ trace[start + i + 1].query = FullRow(proven_trace + i).query

\* Faulty variant: a chunk that filled its rows is taken for the last.
IsLastChunk_WhenFull == Len(trace) <= Length

IsLastChunk == Len(trace) < Length


\* Faulty variant: two rows are repeated.
new_rows_TwoRepeated(start) == Length - start - 2

\* The last row of a chunk is repeated by the next one.
new_rows(start) == Length - start - 1

\* Compare the chunk with the full run; stop if it did not fill all its rows.
ValidateChunk ==
    /\ phase = "validate"
    /\ LET start == bootloader_size[accessed_pages]
       IN  \/ /\ ~SameTrace(start)
              /\ phase' = "panic"
              /\ UNCHANGED <<proven_trace, plan>>
           \/ /\ SameTrace(start)
              /\ IsLastChunk
              /\ phase' = "done"
              /\ UNCHANGED <<proven_trace, plan>>
           \/ /\ SameTrace(start)
              /\ ~IsLastChunk
              /\ proven_trace' = proven_trace + new_rows(start)
              /\ plan' = "idle"
              /\ phase' = "plan"
    /\ UNCHANGED <<execVars, accesses, idx, accessed_pages, bootloader_rows,
                   full_exec, tree, registers, chunks>>

Finished == phase \in {"done", "panic"} /\ UNCHANGED vars

Next ==
    \/ StartFullRun \/ ExecutorStep \/ FinishFullRun \/ StartChunk \/ PlanChunk
    \/ SimulateChunk \/ ReplaceState \/ ValidateChunk \/ Finished

\* The dry run is a sequential program: it takes a step whenever it can.
Spec == Init /\ [][Next]_vars /\ WF_vars(Next)

-----------------------------------------------------------------------------
(* Properties *)

TypeOK ==
    /\ phase \in {"full", "plan", "simulate", "validate", "done", "panic"}
    /\ status \in {"idle", "running", "stopping", "finished"}
    /\ plan \in {"idle", "scan", "ready", "panic"}
    /\ last \in [Register -> Word] /\ second_last \in [Register -> Word]
    /\ mem \in [Address -> Word] /\ tree \in [Address -> Word]
    /\ Len(trace) <= max_rows
    /\ accessed_pages \subseteq Page
    /\ idx \in 1 .. (Len(accesses) + 1)
    /\ proven_trace \in Nat /\ bootloader_rows \in Nat

\* Every memory access that the simulated chunk makes before its last row is to
\* a page its bootloader has loaded, so it reads what the full run read.
EarlierAccessesLoaded ==
    phase = "validate" =>
        \A i \in 1 .. Len(mem_ops) :
            mem_ops[i].row < Len(trace) => PageOf(mem_ops[i]) \in accessed_pages

\* has_all_needed_pages says of itself: "Check that all memory accesses in the
\* given execution chunk are present in the pages loaded in by the bootloader."
AllAccessesLoaded ==
    phase = "validate" =>
        \A i \in 1 .. Len(mem_ops) : PageOf(mem_ops[i]) \in accessed_pages

BetweenChunks == phase = "plan" /\ plan = "idle" /\ chunks # << >>

\* The row of the full trace that the next chunk starts with (and repeats).
RepeatedRow == full_exec[proven_trace + 1]

\* The dry run collects "the inputs to the bootloader, needed to restore the
\* correct state": a chunk starts with the registers the full run had when it
\* started that row.  (`return' reads no register, and none are backed up.)
RegistersRestored ==
    BetweenChunks /\ HasStatement(registers.pc) =>
        /\ registers.pc = RepeatedRow.pc
        /\ registers.query = RepeatedRow.query
        /\ program[registers.pc - DEFAULT_PC + 1].op # "return" =>
               registers.regs = RepeatedRow.regs

\* ... and with its memory, where the words that the repeated row writes may
\* hold what they hold before or after that row.
MemoryRestored ==
    BetweenChunks /\ HasStatement(registers.pc) =>
        \A a \in Address :
            tree[a] \in {RepeatedRow.mem[a], FullRow(proven_trace + 1).mem[a]}

\* So the last chunk ends with the memory the full run ended with: nothing that
\* a chunk did is lost or done twice.
FinalMemoryReproduced == phase = "done" => tree = full_exec[Len(full_exec)].mem

\* The chunks cut the full trace into pieces that overlap in one row, from the
\* first row after the bootloader to the last row of the full trace.
ChunksTileTheTrace ==
    phase = "done" =>
        /\ chunks[1].from = bootloader_size[{}]
        /\ \A k \in 1 .. (Len(chunks) - 1) :
               chunks[k + 1].from = chunks[k].from + chunks[k].rows - chunks[k].boot - 1
        /\ LET c == chunks[Len(chunks)] IN c.from + c.rows - c.boot = Len(full_exec)


\* assert_eq!(start, bootloader_size(&accessed_pages), "estimation of number of
\* rows used by the bootloader was incorrect")
EstimateIsCorrect ==
    phase = "simulate" /\ status = "finished" =>
        /\ RowOfPc(trace, registers.pc) # {}
        /\ FirstRow(trace, registers.pc) = bootloader_size[accessed_pages]

\* The dry run ends.
Terminates == <>(phase \in {"done", "panic"})

\* The proven part of the trace only grows.
ProvenTraceGrows == [][phase = "validate" /\ phase' = "plan" => proven_trace' > proven_trace]_vars
=============================================================================
