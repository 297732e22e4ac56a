--------------------------- MODULE RiscvExecutor ---------------------------
(***************************************************************************)
(* The RISC-V executor in trace mode, as the continuations use it          *)
(* (riscv-executor/src/lib.rs).                                            *)
(*                                                                         *)
(* One step executes the statement of one row and advances to the next     *)
(* row, or stops because the program returned or the rows are used up.     *)
(* The code of the bootloader is abstracted to its effect (it is modelled  *)
(* in Bootloader): a run starts at the moment the bootloader has loaded    *)
(* pages and registers and jumps to the requested pc.  Instructions are    *)
(* grouped by what they do to the trace: registers only, branch, jump,     *)
(* load, store, a precompile that reads and writes memory, and the         *)
(* assignment of a machine register.                                       *)
(***************************************************************************)
EXTENDS Integers, Sequences

CONSTANTS
    Programs,     \* sequences of instructions; the first one has pc DEFAULT_PC
    Register,     \* registers that are kept in memory; register 0 reads zero
    Address,      \* words of the memory
    WordSize,     \* number of values of a word
    compute,      \* <<register, immediate>> -> result of an instruction that only
                  \* computes on registers
    poseidon_gl   \* the permutation that the precompile applies, as a function

DEFAULT_PC == 3
Word == 0 .. (WordSize - 1)

Op == {"compute", "mload", "mstore", "poseidon_gl", "branch", "jump", "assign", "return"}
\* Operands an instruction does not use are ignored.
Instruction == [op : Op, rs : Register \cup {0}, rd : Register \cup {0},
                k : Word, addr : Address, target : Nat]

ASSUME WordAssumption ==
    /\ WordSize \in Nat \ {0}
    /\ compute \in [Word \X Word -> Word]
    /\ poseidon_gl \in [Word -> Word]
ASSUME RegisterAssumption == Register \subseteq Nat \ {0} /\ Address \subseteq Nat
ASSUME ProgramAssumption ==
    \A p \in Programs :
        /\ p \in Seq(Instruction)
        /\ \A i \in 1 .. Len(p) : p[i].op \in {"branch", "jump"} =>
               /\ p[i].target \in DEFAULT_PC .. (DEFAULT_PC + Len(p) - 1)
               /\ p[i].target # DEFAULT_PC + i - 1

VARIABLES
    program,      \* the program of this behaviour
    last,         \* registers now
    second_last,  \* registers before the last executed instruction
    mem,
    query_arg,    \* machine register that queries and the validation look at
    trace,        \* one record per row; `regs' and `mem' are history: the state
                  \* when the row started (the code keeps only pc and query_arg)
    mem_ops,      \* memory accesses with the row they are recorded under
    max_rows,
    status        \* "idle", "running", "stopping" or "finished"

execVars == <<program, last, second_last, mem, query_arg, trace, mem_ops, max_rows, status>>

-----------------------------------------------------------------------------
(* Rows *)

curr_pc == trace[Len(trace)].pc

\* Length of the ROM, the pc of the final loop.
sink_id == DEFAULT_PC + Len(program)

has_enough_rows(rows, limit) == Len(rows) >= limit

Row(pc, q, r, m) == [pc |-> pc, query |-> q, regs |-> r, mem |-> m]

\* Faulty variant: the limit on the rows is not looked at.
push_row_Unlimited(rows, limit, next_pc, q, r, m) ==
    IF rows[Len(rows)].pc = next_pc THEN rows ELSE Append(rows, Row(next_pc, q, r, m))

\* Move to the row of `next_pc'.  A row is added only if the pc changes.
push_row(rows, limit, next_pc, q, r, m) ==
    IF rows[Len(rows)].pc = next_pc \/ has_enough_rows(rows, limit)
    THEN rows
    ELSE Append(rows, Row(next_pc, q, r, m))

\* The execution loop ends without a row for `next_pc', or with a row that has
\* no statement.
Stops(rows, limit, next_pc) ==
    \/ rows[Len(rows)].pc # next_pc /\ has_enough_rows(rows, limit)
    \/ next_pc \in {0, 1, sink_id}

advance(rows, limit, next_pc) ==
    /\ trace' = push_row(rows, limit, next_pc, query_arg', last', mem')
    /\ status' = IF Stops(rows, limit, next_pc) THEN "stopping" ELSE "running"

\* Faulty variant: the row after the one of the access.
MemOp_NextRow(a) == [row |-> Len(trace) + 1, addr |-> a]

\* The row recorded with a memory access is the length of the trace.
MemOp(a) == [row |-> Len(trace), addr |-> a]

-----------------------------------------------------------------------------
(* One run *)

\* The rows of the bootloader: reset, jump_to_operation, and its code.
BootRows(n, r, m) == [i \in 1 .. n |-> Row(IF i <= 2 THEN i - 1 ELSE 2, 0, r, m)]

\* The run up to and including `jump_to_bootloader_input'.
StartRun(boot_rows, inputs, image, limit) ==
    /\ status \in {"idle", "finished"}
    /\ last' = inputs.regs
    /\ second_last' = inputs.regs
    /\ mem' = image
    /\ query_arg' = inputs.query
    /\ mem_ops' = << >>
    /\ max_rows' = limit
    /\ advance(BootRows(boot_rows, inputs.regs, image), limit, inputs.pc)
    /\ UNCHANGED program

get_reg_mem(r) == IF r = 0 THEN 0 ELSE last[r]
set_reg_mem(r, v) == last' = [s \in Register |-> IF s = r THEN v ELSE last[s]]

instr == program[curr_pc - DEFAULT_PC + 1]

\* Faulty variant: the registers are not backed up.
Fetch_NoBackup(op) ==
    /\ status = "running"
    /\ instr.op = op
    /\ UNCHANGED <<program, max_rows, second_last>>

\* Every instruction starts with a backup of the registers...
Fetch(op) ==
    /\ status = "running"
    /\ instr.op = op
    /\ second_last' = last
    /\ UNCHANGED <<program, max_rows>>

\* ... and ends with the advance to the row of the next pc.
Continue(next_pc) == advance(trace, max_rows, next_pc)

\* Instructions that only compute on registers: add_wrap, mul, shifts, ...
RegisterOp ==
    /\ Fetch("compute")
    /\ set_reg_mem(instr.rd, compute[<<get_reg_mem(instr.rs), instr.k>>])
    /\ UNCHANGED <<mem, mem_ops, query_arg>>
    /\ Continue(curr_pc + 1)

Mload ==
    /\ Fetch("mload")
    /\ mem_ops' = Append(mem_ops, MemOp(instr.addr))
    /\ set_reg_mem(instr.rd, mem[instr.addr])
    /\ UNCHANGED <<mem, query_arg>>
    /\ Continue(curr_pc + 1)

Mstore ==
    /\ Fetch("mstore")
    /\ mem_ops' = Append(mem_ops, MemOp(instr.addr))
    /\ mem' = [mem EXCEPT ![instr.addr] = get_reg_mem(instr.rs)]
    /\ UNCHANGED <<last, query_arg>>
    /\ Continue(curr_pc + 1)

\* The precompile is called with the same register for input and output: it
\* reads the block, permutes it and writes it back.
PoseidonGl ==
    /\ Fetch("poseidon_gl")
    /\ mem_ops' = Append(Append(mem_ops, MemOp(instr.addr)), MemOp(instr.addr))
    /\ mem' = [mem EXCEPT ![instr.addr] = poseidon_gl[mem[instr.addr]]]
    /\ UNCHANGED <<last, query_arg>>
    /\ Continue(curr_pc + 1)

\* The other branches differ in the test.
BranchIfDiffNonzero ==
    /\ Fetch("branch")
    /\ UNCHANGED <<last, mem, mem_ops, query_arg>>
    /\ Continue(IF get_reg_mem(instr.rs) # instr.k THEN instr.target ELSE curr_pc + 1)

\* The return pc fits in a word of the machine.
Jump ==
    /\ Fetch("jump")
    /\ set_reg_mem(instr.rd, (curr_pc + 1) % WordSize)
    /\ UNCHANGED <<mem, mem_ops, query_arg>>
    /\ Continue(instr.target)

\* query_arg <== get_reg(rs): visible in the trace from the next row on.
Assign ==
    /\ Fetch("assign")
    /\ query_arg' = get_reg_mem(instr.rs)
    /\ UNCHANGED <<last, mem, mem_ops>>
    /\ Continue(curr_pc + 1)

\* `return' ends the loop at once: no register backup.
Return ==
    /\ status = "running"
    /\ instr.op = "return"
    /\ status' = "stopping"
    /\ UNCHANGED <<program, last, second_last, mem, query_arg, trace, mem_ops, max_rows>>

\* After the loop: the rows reset, jump_to_operation and the sink, as far as
\* there is room.
FinishRun ==
    /\ status = "stopping"
    /\ status' = "finished"
    /\ trace' =
          LET reset == push_row(trace, max_rows, 0, query_arg, last, mem)
              jump  == push_row(reset, max_rows, 1, 0, last, mem)
          IN  push_row(jump, max_rows, sink_id, 0, last, mem)
    /\ query_arg' = 0
    /\ UNCHANGED <<program, last, second_last, mem, mem_ops, max_rows>>

Step ==
    \/ RegisterOp \/ Mload \/ Mstore \/ PoseidonGl \/ BranchIfDiffNonzero
    \/ Jump \/ Assign \/ Return \/ FinishRun

-----------------------------------------------------------------------------
(* The executor by itself: runs from any registers, memory and pc. *)

ExecInit ==
    /\ program \in Programs
    /\ last \in [Register -> Word] /\ second_last = last
    /\ mem \in [Address -> Word]
    /\ query_arg \in Word
    /\ trace = << >> /\ mem_ops = << >>
    /\ max_rows = 0
    /\ status = "idle"

ExecNext ==
    \/ Step
    \/ \E boot_rows \in Nat \ {0}, image \in [Address -> Word], limit \in Nat \ {0},
          inputs \in [regs : [Register -> Word], query : Word, pc : {0, 1} \cup DEFAULT_PC .. sink_id] :
           boot_rows <= limit /\ StartRun(boot_rows, inputs, image, limit)

ExecSpec == ExecInit /\ [][ExecNext]_execVars

\* A pc of the program, not of the rows around it.
HasStatement(pc) == pc \in DEFAULT_PC .. (sink_id - 1)

\* The memory accesses are recorded in the order of their rows, which is what
\* the binary search of the continuations needs, and under rows up to the last.
MemOpsInOrder ==
    /\ \A i, j \in 1 .. Len(mem_ops) : i <= j => mem_ops[i].row <= mem_ops[j].row
    /\ \A i \in 1 .. Len(mem_ops) : mem_ops[i].row <= Len(trace)

\* When a run ends because its rows are used up, the registers kept aside are
\* those from before the last row, so that the next chunk can repeat that row;
\* only `return' makes no copy.
SnapshotOfLastRow ==
    status \in {"stopping", "finished"} /\ HasStatement(curr_pc) /\ instr.op # "return"
        => second_last = trace[Len(trace)].regs
=============================================================================
