------------------------ MODULE RiscvExecutorProofs ------------------------
(* What the continuations rely on of the executor, for every program, limit on
   the rows, and start of a run. *)
EXTENDS RiscvExecutor, TLAPS

Regs == [Register -> Word]
Mem == [Address -> Word]
TraceRow == [pc : Nat, query : Word, regs : Regs, mem : Mem]
Access == [row : Nat, addr : Address]

\* Types, and the trace within its limit.
ExecTypeOK ==
    /\ program \in Programs
    /\ status \in {"idle", "running", "stopping", "finished"}
    /\ last \in Regs /\ second_last \in Regs /\ mem \in Mem /\ query_arg \in Word
    /\ trace \in Seq(TraceRow) /\ mem_ops \in Seq(Access)
    /\ max_rows \in Nat /\ Len(trace) <= max_rows
    /\ status # "idle" => Len(trace) >= 1

\* A row that is about to be executed started with the current registers.
RunningRow ==
    status = "running" => HasStatement(curr_pc) /\ last = trace[Len(trace)].regs

ExecInv == ExecTypeOK /\ RunningRow /\ MemOpsInOrder /\ SnapshotOfLastRow

\* The last row of a trace.
LastPc(rows) == rows[Len(rows)].pc
LastRegs(rows) == rows[Len(rows)].regs

\* An element of a sequence.
LEMMA Element == ASSUME NEW S, NEW s \in Seq(S), NEW i \in 1 .. Len(s) PROVE s[i] \in S
  OBVIOUS

\* Appending an element.
LEMMA AppendFacts ==
    ASSUME NEW S, NEW s \in Seq(S), NEW e \in S
    PROVE  /\ Append(s, e) \in Seq(S) /\ Len(Append(s, e)) = Len(s) + 1
           /\ Len(s) \in Nat /\ Append(s, e)[Len(s) + 1] = e
           /\ \A i \in 1 .. Len(s) : Append(s, e)[i] = s[i]
  OBVIOUS

\* A row has the type of a row.
LEMMA RowType ==
    ASSUME NEW pc \in Nat, NEW q \in Word, NEW r \in Regs, NEW m \in Mem
    PROVE  /\ Row(pc, q, r, m) \in TraceRow
           /\ Row(pc, q, r, m).pc = pc /\ Row(pc, q, r, m).regs = r
  BY DEF Row, TraceRow

\* Moving to another row adds it or, if there is no room, nothing.
LEMMA PushRow ==
    ASSUME NEW rows \in Seq(TraceRow), NEW limit \in Nat, Len(rows) <= limit,
           NEW pc \in Nat, NEW q \in Word, NEW r \in Regs, NEW m \in Mem,
           NEW new, new = push_row(rows, limit, pc, q, r, m)
    PROVE  /\ new \in Seq(TraceRow)
           /\ Len(new) <= limit /\ Len(new) >= Len(rows)
           /\ \/ new = rows /\ (LastPc(rows) = pc \/ Len(rows) >= limit)
              \/ /\ Len(new) = Len(rows) + 1
                 /\ LastPc(new) = pc /\ LastRegs(new) = r
                 /\ LastPc(rows) # pc /\ ~(Len(rows) >= limit)
<1> DEFINE e == Row(pc, q, r, m)
<1>1. e \in TraceRow /\ e.pc = pc /\ e.regs = r BY RowType
<1> HIDE DEF e
<1>2. Append(rows, e) \in Seq(TraceRow) /\ Len(Append(rows, e)) = Len(rows) + 1
      /\ Len(rows) \in Nat /\ Append(rows, e)[Len(rows) + 1] = e
  BY <1>1, AppendFacts
<1>3. CASE LastPc(rows) = pc \/ Len(rows) >= limit
  <2>1. new = rows BY <1>3 DEF push_row, has_enough_rows, LastPc
  <2> QED BY <2>1, <1>2, <1>3
<1>4. CASE ~(LastPc(rows) = pc \/ Len(rows) >= limit)
  <2>1. new = Append(rows, e) BY <1>4 DEF push_row, has_enough_rows, LastPc, e
  <2>2. Len(rows) < limit BY <1>2, <1>4
  <2> QED BY <2>1, <2>2, <1>1, <1>2, <1>4 DEF LastPc, LastRegs
<1> QED BY <1>3, <1>4

\* Moving to the row of another pc.
LEMMA PushOther ==
    ASSUME NEW rows \in Seq(TraceRow), NEW limit \in Nat, Len(rows) <= limit,
           NEW pc \in Nat, NEW q \in Word, NEW r \in Regs, NEW m \in Mem,
           NEW new, new = push_row(rows, limit, pc, q, r, m), LastPc(rows) # pc
    PROVE  /\ new \in Seq(TraceRow) /\ Len(new) <= limit /\ Len(new) >= Len(rows)
           /\ \/ new = rows /\ Len(rows) >= limit
              \/ LastPc(new) = pc /\ LastRegs(new) = r /\ ~(Len(rows) >= limit)
<1>1. new \in Seq(TraceRow) /\ Len(new) <= limit /\ Len(new) >= Len(rows)
  BY PushRow, SMTT(60)
<1>2. \/ new = rows /\ (LastPc(rows) = pc \/ Len(rows) >= limit)
      \/ LastPc(new) = pc /\ LastRegs(new) = r /\ ~(Len(rows) >= limit)
  BY PushRow, SMTT(60)
<1> QED BY <1>1, <1>2, Zenon

\* The advance to another pc: either the new row runs, or the run ends with the
\* old row or with one that has no statement.
LEMMA Advance ==
    ASSUME NEW rows \in Seq(TraceRow), NEW limit \in Nat, Len(rows) <= limit, Len(rows) >= 1,
           NEW pc \in Nat, LastPc(rows) # pc, advance(rows, limit, pc),
           query_arg' \in Word, last' \in Regs, mem' \in Mem
    PROVE  /\ trace' \in Seq(TraceRow) /\ Len(trace') <= limit /\ Len(trace') >= Len(rows)
           /\ status' \in {"running", "stopping"}
           /\ status' = "running" =>
                  /\ LastPc(trace') = pc /\ LastRegs(trace') = last'
                  /\ pc \notin {0, 1, sink_id}
           /\ status' = "stopping" =>
                  \/ trace' = rows
                  \/ LastPc(trace') = pc /\ pc \in {0, 1, sink_id}
<1>1. trace' = push_row(rows, limit, pc, query_arg', last', mem') BY DEF advance
<1>2. status' = IF Stops(rows, limit, pc) THEN "stopping" ELSE "running" BY DEF advance
<1>3. /\ trace' \in Seq(TraceRow) /\ Len(trace') <= limit /\ Len(trace') >= Len(rows)
      /\ \/ trace' = rows /\ Len(rows) >= limit
         \/ /\ LastPc(trace') = pc /\ LastRegs(trace') = last'
            /\ ~(Len(rows) >= limit)
  BY <1>1, PushOther, SMTT(60)
<1>4. Stops(rows, limit, pc) <=> Len(rows) >= limit \/ pc \in {0, 1, sink_id}
  BY DEF Stops, has_enough_rows, LastPc
<1> QED BY <1>2, <1>3, <1>4

\* One more access of the last row keeps the accesses in order.
LEMMA RecordAccess ==
    ASSUME NEW ops \in Seq(Access), NEW n \in Nat, NEW a \in Address,
           \A i, j \in 1 .. Len(ops) : i <= j => ops[i].row <= ops[j].row,
           \A i \in 1 .. Len(ops) : ops[i].row <= n
    PROVE  LET new == Append(ops, [row |-> n, addr |-> a])
           IN  /\ new \in Seq(Access)
               /\ \A i, j \in 1 .. Len(new) : i <= j => new[i].row <= new[j].row
               /\ \A i \in 1 .. Len(new) : new[i].row <= n
<1> DEFINE e == [row |-> n, addr |-> a]
           new == Append(ops, e)
<1>1. e \in Access /\ e.row = n BY DEF Access
<1> HIDE DEF e
<1>2. new \in Seq(Access) /\ Len(new) = Len(ops) + 1 /\ Len(ops) \in Nat
      /\ new[Len(ops) + 1] = e /\ \A i \in 1 .. Len(ops) : new[i] = ops[i]
  BY <1>1, AppendFacts
<1> HIDE DEF new
<1>3. \A i \in 1 .. Len(new) : i \in 1 .. Len(ops) \/ i = Len(ops) + 1 BY <1>2
<1>4. \A i \in 1 .. Len(new) : new[i].row <= n BY <1>1, <1>2, <1>3
<1>5. ASSUME NEW i \in 1 .. Len(new), NEW j \in 1 .. Len(new), i <= j
      PROVE  new[i].row <= new[j].row
  <2>1. CASE j = Len(ops) + 1 BY <2>1, <1>1, <1>2, <1>4
  <2>2. CASE j \in 1 .. Len(ops)
    <3>1. i \in 1 .. Len(ops) BY <2>2, <1>2, <1>5
    <3> QED BY <2>2, <3>1, <1>2, <1>5
  <2> QED BY <2>1, <2>2, <1>3
<1> QED BY <1>2, <1>4, <1>5 DEF new, e

\* The accesses are in order and recorded under rows up to n.
Ordered(ops, n) ==
    /\ ops \in Seq(Access)
    /\ \A i, j \in 1 .. Len(ops) : i <= j => ops[i].row <= ops[j].row
    /\ \A i \in 1 .. Len(ops) : ops[i].row <= n

\* The invariant in terms of the last row.
LEMMA LastRow ==
    /\ curr_pc = LastPc(trace)
    /\ RunningRow <=> (status = "running" => HasStatement(LastPc(trace)) /\ last = LastRegs(trace))
    /\ (ExecTypeOK /\ MemOpsInOrder) <=> (ExecTypeOK /\ Ordered(mem_ops, Len(trace)))
  BY DEF curr_pc, LastPc, LastRegs, RunningRow, MemOpsInOrder, Ordered, ExecTypeOK

\* Accesses under rows up to n are under rows up to any larger number.
LEMMA OrderedLonger ==
    ASSUME NEW ops, NEW n \in Nat, NEW k \in Nat, n <= k, Ordered(ops, n)
    PROVE  Ordered(ops, k)
<1>1. ASSUME NEW i \in 1 .. Len(ops) PROVE ops[i].row <= k
  <2>1. ops[i] \in Access BY Element DEF Ordered
  <2>2. ops[i].row \in Nat BY <2>1 DEF Access
  <2>3. ops[i].row <= n BY DEF Ordered
  <2> QED BY <2>2, <2>3
<1> QED BY <1>1 DEF Ordered

\* What the executed instruction may be.
LEMMA InstructionFacts ==
    ASSUME ExecInv, status = "running"
    PROVE  /\ instr.rs \in Register \cup {0} /\ instr.rd \in Register \cup {0}
           /\ instr.k \in Word /\ instr.addr \in Address
           /\ curr_pc \in Nat /\ curr_pc + 1 \in DEFAULT_PC .. sink_id
           /\ instr.op \in {"branch", "jump"} =>
                  instr.target \in DEFAULT_PC .. (sink_id - 1) /\ instr.target # curr_pc
<1>1. program \in Programs /\ curr_pc \in DEFAULT_PC .. (sink_id - 1)
  BY DEF ExecInv, ExecTypeOK, RunningRow, HasStatement
<1>2. program \in Seq(Instruction) BY <1>1, ProgramAssumption
<1>3. Len(program) \in Nat BY <1>2
<1> DEFINE i == curr_pc - DEFAULT_PC + 1
<1>4. i \in 1 .. Len(program) /\ curr_pc = DEFAULT_PC + i - 1 /\ curr_pc \in Nat
  BY <1>1, <1>3 DEF sink_id, DEFAULT_PC
<1>5. instr = program[i] BY DEF instr
<1> HIDE DEF i
<1>6. instr \in Instruction BY <1>2, <1>4, <1>5, Element
<1>7. /\ instr.rs \in Register \cup {0} /\ instr.rd \in Register \cup {0}
      /\ instr.k \in Word /\ instr.addr \in Address
  BY <1>6 DEF Instruction
<1>8. instr.op \in {"branch", "jump"} =>
          instr.target \in DEFAULT_PC .. (DEFAULT_PC + Len(program) - 1)
          /\ instr.target # DEFAULT_PC + i - 1
  BY <1>1, <1>4, <1>5, ProgramAssumption
<1> QED BY <1>1, <1>3, <1>4, <1>7, <1>8 DEF sink_id, DEFAULT_PC

\* An instruction that goes on to another row keeps the invariant.
LEMMA ContinueInv ==
    ASSUME ExecInv, status = "running", second_last' = last, UNCHANGED <<program, max_rows>>,
           last' \in Regs, mem' \in Mem, query_arg' \in Word,
           Ordered(mem_ops', Len(trace)),
           NEW pc \in DEFAULT_PC .. sink_id, pc # curr_pc, Continue(pc)
    PROVE  ExecInv'
<1>1. /\ trace \in Seq(TraceRow) /\ max_rows \in Nat /\ Len(trace) <= max_rows
      /\ Len(trace) >= 1 /\ program \in Programs /\ last \in Regs
  BY DEF ExecInv, ExecTypeOK
<1>2. Len(program) \in Nat /\ Len(trace) \in Nat
  <2>1. program \in Seq(Instruction) BY <1>1, ProgramAssumption
  <2> QED BY <2>1, <1>1
<1>3. pc \in Nat /\ LastPc(trace) # pc /\ advance(trace, max_rows, pc)
  BY <1>2, LastRow DEF DEFAULT_PC, sink_id, Continue
<1>4. /\ trace' \in Seq(TraceRow) /\ Len(trace') <= max_rows /\ Len(trace') >= Len(trace)
      /\ status' \in {"running", "stopping"}
      /\ status' = "running" =>
             /\ LastPc(trace') = pc /\ LastRegs(trace') = last'
             /\ pc \notin {0, 1, sink_id}
      /\ status' = "stopping" =>
             trace' = trace \/ (LastPc(trace') = pc /\ pc \in {0, 1, sink_id})
  BY <1>1, <1>3, Advance, SMTT(60)
<1>5. Len(trace') \in Nat BY <1>4
<1>6. Ordered(mem_ops', Len(trace')) BY <1>2, <1>4, <1>5, OrderedLonger
<1>7. mem_ops' \in Seq(Access) BY <1>6 DEF Ordered
<1>8. ExecTypeOK' BY <1>1, <1>4, <1>5, <1>7 DEF ExecTypeOK
<1>9. MemOpsInOrder' BY <1>6 DEF Ordered, MemOpsInOrder
<1>10. sink_id' = sink_id BY DEF sink_id
<1>11. RunningRow'
  <2>1. status' = "running" => pc \in DEFAULT_PC .. (sink_id - 1)
    BY <1>2, <1>4 DEF sink_id, DEFAULT_PC
  <2> QED BY <1>4, <1>10, <2>1 DEF RunningRow, HasStatement, curr_pc, LastPc, LastRegs
<1>12. SnapshotOfLastRow'
  <2>1. last = LastRegs(trace) BY LastRow DEF ExecInv
  <2>2. CASE trace' = trace
    BY <2>1, <2>2 DEF SnapshotOfLastRow, LastRegs
  <2>3. CASE LastPc(trace') = pc /\ pc \in {0, 1, sink_id}
    <3>1. ~(pc \in DEFAULT_PC .. (sink_id - 1)) BY <2>3, <1>2 DEF sink_id, DEFAULT_PC
    <3> QED BY <2>3, <3>1, <1>10 DEF SnapshotOfLastRow, HasStatement, curr_pc, LastPc
  <2>4. CASE status' = "running" BY <2>4 DEF SnapshotOfLastRow
  <2> QED BY <2>2, <2>3, <2>4, <1>4
<1> QED BY <1>8, <1>9, <1>11, <1>12 DEF ExecInv

\* Reading and writing a register.
LEMMA RegisterFacts ==
    ASSUME ExecInv, NEW r \in Register \cup {0}
    PROVE  /\ get_reg_mem(r) \in Word
           /\ \A v \in Word : set_reg_mem(r, v) => last' \in Regs
<1>1. last \in [Register -> Word] /\ 0 \in Word
  BY WordAssumption DEF ExecInv, ExecTypeOK, Regs, Word
<1> QED BY <1>1, RegisterAssumption DEF get_reg_mem, set_reg_mem, Regs

\* A word after arithmetic that wraps around.
LEMMA Wraps == ASSUME NEW n \in Nat PROVE n % WordSize \in Word
  BY WordAssumption DEF Word

\* The accesses so far are in order, and one more of the last row keeps them so.
LEMMA RecordMore ==
    ASSUME ExecInv, NEW a \in Address, NEW ops, Ordered(ops, Len(trace))
    PROVE  Ordered(Append(ops, MemOp(a)), Len(trace))
<1>1. Len(trace) \in Nat BY DEF ExecInv, ExecTypeOK
<1> QED BY <1>1, RecordAccess DEF Ordered, MemOp

\* Every instruction keeps the invariant.
LEMMA InstructionInv ==
    ASSUME ExecInv, RegisterOp \/ Mload \/ Mstore \/ PoseidonGl \/ BranchIfDiffNonzero
                    \/ Jump \/ Assign
    PROVE  ExecInv'
<1>0. status = "running" /\ second_last' = last /\ UNCHANGED <<program, max_rows>>
  BY DEF RegisterOp, Mload, Mstore, PoseidonGl, BranchIfDiffNonzero, Jump, Assign, Fetch
<1>1. /\ instr.rs \in Register \cup {0} /\ instr.rd \in Register \cup {0}
      /\ instr.k \in Word /\ instr.addr \in Address
      /\ curr_pc \in Nat /\ curr_pc + 1 \in DEFAULT_PC .. sink_id
      /\ instr.op \in {"branch", "jump"} =>
             instr.target \in DEFAULT_PC .. (sink_id - 1) /\ instr.target # curr_pc
  BY <1>0, InstructionFacts
<1>2. curr_pc + 1 # curr_pc BY <1>1
<1>3. last \in Regs /\ mem \in Mem /\ query_arg \in Word /\ Ordered(mem_ops, Len(trace))
  BY LastRow DEF ExecInv, ExecTypeOK
<1>4. get_reg_mem(instr.rs) \in Word BY <1>1, RegisterFacts
<1>5. \A a \in Address : mem[a] \in Word BY <1>3 DEF Mem
<1>6. Ordered(Append(mem_ops, MemOp(instr.addr)), Len(trace)) BY <1>1, <1>3, RecordMore
<1>7. CASE RegisterOp
  <2>1. compute[<<get_reg_mem(instr.rs), instr.k>>] \in Word
    BY <1>1, <1>4, WordAssumption
  <2>2. last' \in Regs BY <1>7, <1>1, <2>1, RegisterFacts DEF RegisterOp
  <2> QED BY <1>7, <1>0, <1>1, <1>2, <1>3, <2>2, ContinueInv DEF RegisterOp
<1>8. CASE Mload
  <2>1. last' \in Regs BY <1>8, <1>1, <1>5, RegisterFacts DEF Mload
  <2> QED BY <1>8, <1>0, <1>1, <1>2, <1>3, <1>6, <2>1, ContinueInv DEF Mload
<1>9. CASE Mstore
  <2>1. mem' \in Mem BY <1>9, <1>3, <1>4 DEF Mstore, Mem
  <2> QED BY <1>9, <1>0, <1>1, <1>2, <1>3, <1>6, <2>1, ContinueInv DEF Mstore
<1>10. CASE PoseidonGl
  <2>1. poseidon_gl[mem[instr.addr]] \in Word BY <1>1, <1>5, WordAssumption
  <2>2. mem' \in Mem BY <1>10, <1>3, <2>1 DEF PoseidonGl, Mem
  <2>3. Ordered(mem_ops', Len(trace)) BY <1>10, <1>1, <1>6, RecordMore DEF PoseidonGl
  <2> QED BY <1>10, <1>0, <1>1, <1>2, <1>3, <2>2, <2>3, ContinueInv DEF PoseidonGl
<1>11. CASE BranchIfDiffNonzero
  <2> DEFINE pc == IF get_reg_mem(instr.rs) # instr.k THEN instr.target ELSE curr_pc + 1
  <2>1. instr.target \in DEFAULT_PC .. (sink_id - 1) /\ instr.target # curr_pc
    BY <1>11, <1>1 DEF BranchIfDiffNonzero, Fetch
  <2>2. sink_id \in Int /\ DEFAULT_PC \in Int
    <3>1. program \in Seq(Instruction) BY ProgramAssumption DEF ExecInv, ExecTypeOK
    <3> QED BY <3>1 DEF sink_id, DEFAULT_PC
  <2>3. pc \in DEFAULT_PC .. sink_id /\ pc # curr_pc BY <1>1, <1>2, <2>1, <2>2
  <2>4. Continue(pc) BY <1>11 DEF BranchIfDiffNonzero
  <2> HIDE DEF pc
  <2> QED BY <1>11, <1>0, <1>3, <2>3, <2>4, ContinueInv DEF BranchIfDiffNonzero
<1>12. CASE Jump
  <2>1. instr.target \in DEFAULT_PC .. (sink_id - 1) /\ instr.target # curr_pc
    BY <1>12, <1>1 DEF Jump, Fetch
  <2>2. sink_id \in Int /\ DEFAULT_PC \in Int
    <3>1. program \in Seq(Instruction) BY ProgramAssumption DEF ExecInv, ExecTypeOK
    <3> QED BY <3>1 DEF sink_id, DEFAULT_PC
  <2>3. instr.target \in DEFAULT_PC .. sink_id BY <2>1, <2>2
  <2>4. curr_pc + 1 \in Nat BY <1>1
  <2>5. last' \in Regs BY <1>12, <1>1, <2>4, Wraps, RegisterFacts DEF Jump
  <2> QED BY <1>12, <1>0, <1>3, <2>1, <2>3, <2>5, ContinueInv DEF Jump
<1>13. CASE Assign
  BY <1>13, <1>0, <1>1, <1>2, <1>3, <1>4, ContinueInv DEF Assign
<1> QED BY <1>7, <1>8, <1>9, <1>10, <1>11, <1>12, <1>13

\* The end of the program.
LEMMA ReturnInv == ASSUME ExecInv, Return PROVE ExecInv'
<1>1. /\ instr.op = "return" /\ status' = "stopping"
      /\ UNCHANGED <<program, last, second_last, mem, query_arg, trace, mem_ops, max_rows>>
  BY DEF Return
<1>2. status = "running" BY DEF Return
<1>3. ExecTypeOK' BY <1>1, <1>2 DEF ExecInv, ExecTypeOK
<1>4. MemOpsInOrder' BY <1>1 DEF ExecInv, MemOpsInOrder
<1>5. instr'.op = "return" BY <1>1 DEF instr, curr_pc
<1> QED BY <1>1, <1>3, <1>4, <1>5 DEF ExecInv, RunningRow, SnapshotOfLastRow

\* Whatever the pc, a row is added or the trace stays as it is.
LEMMA PushAny ==
    ASSUME NEW rows \in Seq(TraceRow), NEW limit \in Nat, Len(rows) <= limit,
           NEW pc \in Nat, NEW q \in Word, NEW r \in Regs, NEW m \in Mem,
           NEW new, new = push_row(rows, limit, pc, q, r, m)
    PROVE  /\ new \in Seq(TraceRow) /\ Len(new) <= limit /\ Len(new) >= Len(rows)
           /\ new = rows \/ LastPc(new) = pc
  BY PushRow, SMTT(60)

\* The rows after the end have no statement.
LEMMA FinishInv == ASSUME ExecInv, FinishRun PROVE ExecInv'
<1> DEFINE r1 == push_row(trace, max_rows, 0, query_arg, last, mem)
           r2 == push_row(r1, max_rows, 1, 0, last, mem)
           r3 == push_row(r2, max_rows, sink_id, 0, last, mem)
<1>1. /\ status = "stopping" /\ status' = "finished" /\ trace' = r3 /\ query_arg' = 0
      /\ UNCHANGED <<program, last, second_last, mem, mem_ops, max_rows>>
  BY DEF FinishRun
<1>2. /\ trace \in Seq(TraceRow) /\ max_rows \in Nat /\ Len(trace) <= max_rows
      /\ Len(trace) >= 1 /\ last \in Regs /\ mem \in Mem /\ query_arg \in Word
      /\ mem_ops \in Seq(Access) /\ program \in Programs
  BY <1>1 DEF ExecInv, ExecTypeOK
<1>3. 0 \in Word BY WordAssumption DEF Word
<1>z. PICK z \in Word : z = 0 BY <1>3
<1>4. Len(program) \in Nat /\ sink_id \in Nat
  <2>1. program \in Seq(Instruction) BY <1>2, ProgramAssumption
  <2> QED BY <2>1 DEF sink_id, DEFAULT_PC
<1> HIDE DEF r1, r2, r3
<1>5. /\ r1 \in Seq(TraceRow) /\ Len(r1) <= max_rows /\ Len(r1) >= Len(trace)
      /\ r1 = trace \/ LastPc(r1) = 0
  <2>1. r1 = push_row(trace, max_rows, 0, query_arg, last, mem) BY DEF r1
  <2> QED BY <2>1, <1>2, <1>3, PushAny, SMTT(60)
<1>6. /\ r2 \in Seq(TraceRow) /\ Len(r2) <= max_rows /\ Len(r2) >= Len(r1)
      /\ r2 = r1 \/ LastPc(r2) = 1
  <2>1. r2 = push_row(r1, max_rows, 1, z, last, mem) BY <1>z DEF r2
  <2>2. r1 \in Seq(TraceRow) /\ Len(r1) <= max_rows BY <1>5
  <2>3. max_rows \in Nat /\ last \in Regs /\ mem \in Mem BY <1>2
  <2> QED BY <2>1, <2>2, <2>3, PushAny, SMTT(60)
<1>7. /\ r3 \in Seq(TraceRow) /\ Len(r3) <= max_rows /\ Len(r3) >= Len(r2)
      /\ r3 = r2 \/ LastPc(r3) = sink_id
  <2>1. r3 = push_row(r2, max_rows, sink_id, z, last, mem) BY <1>z DEF r3
  <2>2. r2 \in Seq(TraceRow) /\ Len(r2) <= max_rows BY <1>6
  <2>3. max_rows \in Nat /\ last \in Regs /\ mem \in Mem BY <1>2
  <2> QED BY <2>1, <2>2, <2>3, <1>4, PushAny, SMTT(60)
<1>8. Len(trace) \in Nat /\ Len(r1) \in Nat /\ Len(r2) \in Nat /\ Len(r3) \in Nat
  BY <1>2, <1>5, <1>6, <1>7
<1>9. Len(r3) >= Len(trace) /\ Len(r3) >= 1 BY <1>2, <1>5, <1>6, <1>7, <1>8
<1>10. ExecTypeOK' BY <1>1, <1>2, <1>3, <1>7, <1>9 DEF ExecInv, ExecTypeOK
<1>11. MemOpsInOrder'
  <2>1. Ordered(mem_ops, Len(trace)) BY LastRow DEF ExecInv
  <2>2. Ordered(mem_ops, Len(r3)) BY <2>1, <1>8, <1>9, OrderedLonger
  <2> QED BY <2>2, <1>1 DEF Ordered, MemOpsInOrder
<1>12. SnapshotOfLastRow'
  <2>1. CASE r3 = trace
    BY <1>1, <2>1 DEF ExecInv, SnapshotOfLastRow, HasStatement, curr_pc, sink_id, instr
  <2>2. CASE r3 # trace
    <3>1. LastPc(r3) \in {0, 1, sink_id} BY <2>2, <1>5, <1>6, <1>7
    <3>2. ~(LastPc(r3) \in DEFAULT_PC .. (sink_id - 1)) BY <3>1, <1>4 DEF DEFAULT_PC
    <3> QED BY <1>1, <3>2 DEF SnapshotOfLastRow, HasStatement, curr_pc, LastPc, sink_id
  <2> QED BY <2>1, <2>2
<1> QED BY <1>1, <1>10, <1>11, <1>12 DEF ExecInv, RunningRow

\* The rows of the bootloader.
LEMMA BootRowsFacts ==
    ASSUME NEW n \in Nat \ {0}, NEW r \in Regs, NEW m \in Mem
    PROVE  /\ BootRows(n, r, m) \in Seq(TraceRow) /\ Len(BootRows(n, r, m)) = n
           /\ LastPc(BootRows(n, r, m)) \in {0, 1, 2}
<1>1. 0 \in Word BY WordAssumption DEF Word
<1>2. \A i \in 1 .. n : (IF i <= 2 THEN i - 1 ELSE 2) \in {0, 1, 2} OBVIOUS
<1>3. \A i \in 1 .. n : Row(IF i <= 2 THEN i - 1 ELSE 2, 0, r, m) \in TraceRow
  BY <1>1, <1>2 DEF Row, TraceRow
<1>4. BootRows(n, r, m) \in Seq(TraceRow) BY <1>3 DEF BootRows
<1>5. Len(BootRows(n, r, m)) = n BY DEF BootRows
<1>6. BootRows(n, r, m)[n] = Row(IF n <= 2 THEN n - 1 ELSE 2, 0, r, m) BY DEF BootRows
<1>7. LastPc(BootRows(n, r, m)) = IF n <= 2 THEN n - 1 ELSE 2
  BY <1>5, <1>6 DEF LastPc, Row
<1> QED BY <1>4, <1>5, <1>7

\* The start of a run: either the requested row runs, or the run is over.
LEMMA StartRunInv ==
    ASSUME ExecInv, NEW boot_rows \in Nat \ {0}, NEW image \in Mem, NEW limit \in Nat \ {0},
           NEW inputs \in [regs : Regs, query : Word, pc : {0, 1} \cup DEFAULT_PC .. sink_id],
           boot_rows <= limit, StartRun(boot_rows, inputs, image, limit)
    PROVE  ExecInv'
<1> DEFINE rows == BootRows(boot_rows, inputs.regs, image)
           pc == inputs.pc
<1>1. /\ inputs.regs \in Regs /\ inputs.query \in Word /\ pc \in {0, 1} \cup DEFAULT_PC .. sink_id
      /\ program \in Programs
  BY DEF ExecInv, ExecTypeOK
<1>2. Len(program) \in Nat
  <2>1. program \in Seq(Instruction) BY <1>1, ProgramAssumption
  <2> QED BY <2>1
<1>3. rows \in Seq(TraceRow) /\ Len(rows) = boot_rows /\ LastPc(rows) \in {0, 1, 2}
  BY <1>1, BootRowsFacts
<1>4. /\ last' = inputs.regs /\ second_last' = inputs.regs /\ mem' = image
      /\ query_arg' = inputs.query /\ mem_ops' = << >> /\ max_rows' = limit
      /\ program' = program /\ advance(rows, limit, pc)
  BY DEF StartRun
<1> HIDE DEF rows, pc
<1>5. pc \in Nat BY <1>1, <1>2 DEF DEFAULT_PC, sink_id
<1>6. trace' = push_row(rows, limit, pc, query_arg', last', mem')
      /\ status' = IF Stops(rows, limit, pc) THEN "stopping" ELSE "running"
  BY <1>4 DEF advance
<1>7. /\ trace' \in Seq(TraceRow) /\ Len(trace') <= limit /\ Len(trace') >= Len(rows)
      /\ trace' = rows \/ LastPc(trace') = pc
  <2>1. limit \in Nat /\ Len(rows) <= limit /\ query_arg' \in Word /\ last' \in Regs /\ mem' \in Mem
    BY <1>1, <1>3, <1>4
  <2> DEFINE e == Row(pc, query_arg', last', mem')
  <2>2. e \in TraceRow /\ e.pc = pc BY <2>1, <1>5 DEF Row, TraceRow
  <2> HIDE DEF e
  <2>3. /\ Append(rows, e) \in Seq(TraceRow) /\ Len(Append(rows, e)) = Len(rows) + 1
        /\ Len(rows) \in Nat /\ Append(rows, e)[Len(rows) + 1] = e
    BY <2>2, <1>3, AppendFacts
  <2>4. trace' = rows \/ (trace' = Append(rows, e) /\ ~(Len(rows) >= limit))
    BY <1>6 DEF push_row, has_enough_rows, e
  <2>5. LastPc(Append(rows, e)) = pc BY <2>2, <2>3 DEF LastPc
  <2>6. trace' \in Seq(TraceRow) /\ Len(trace') <= limit /\ Len(trace') >= Len(rows)
    BY <2>1, <2>3, <2>4, <1>3
  <2>7. trace' = rows \/ LastPc(trace') = pc BY <2>4, <2>5, Zenon
  <2> QED BY <2>6, <2>7, Zenon
<1>8. ExecTypeOK'
  BY <1>1, <1>3, <1>4, <1>6, <1>7 DEF ExecTypeOK
<1>9. MemOpsInOrder' BY <1>4 DEF MemOpsInOrder
<1>10. sink_id' = sink_id BY <1>4 DEF sink_id
<1>11. RunningRow'
  <2> SUFFICES ASSUME status' = "running" PROVE RunningRow'
    BY DEF RunningRow
  <2>1. ~Stops(rows, limit, pc) BY <1>6
  <2>2. pc \notin {0, 1, sink_id} BY <2>1 DEF Stops
  <2>3. pc \in DEFAULT_PC .. (sink_id - 1) BY <1>1, <1>2, <2>2 DEF DEFAULT_PC, sink_id
  <2>4. LastPc(rows) # pc BY <1>3, <1>5, <2>3, <1>2 DEF DEFAULT_PC, sink_id
  <2>5. LastPc(trace') = pc /\ LastRegs(trace') = last'
    <3>1. limit \in Nat /\ Len(rows) <= limit /\ Len(rows) >= 1
          /\ query_arg' \in Word /\ last' \in Regs /\ mem' \in Mem
      BY <1>1, <1>3, <1>4
    <3> QED BY <3>1, <1>3, <1>4, <1>5, <2>4, Advance, SMTT(60)
  <2> QED BY <2>3, <2>5, <1>10 DEF RunningRow, HasStatement, curr_pc, LastPc, LastRegs
<1>12. SnapshotOfLastRow'
  <2> SUFFICES ASSUME status' = "stopping" PROVE ~HasStatement(curr_pc)'
    BY <1>6 DEF SnapshotOfLastRow
  <2>1. curr_pc' = LastPc(trace') BY DEF curr_pc, LastPc
  <2>2. CASE LastPc(trace') \in {0, 1, 2}
    BY <2>1, <2>2, <1>10, <1>2 DEF HasStatement, DEFAULT_PC, sink_id
  <2>3. CASE trace' # rows
    <3>1. limit \in Nat /\ Len(rows) <= limit /\ Len(rows) >= 1
          /\ query_arg' \in Word /\ last' \in Regs /\ mem' \in Mem
      BY <1>1, <1>3, <1>4
    <3>2. LastPc(rows) = pc => trace' = rows BY <1>6 DEF push_row, LastPc
    <3>3. LastPc(trace') = pc /\ pc \in {0, 1, sink_id}
      BY <2>3, <3>1, <3>2, <1>3, <1>4, <1>5, Advance, SMTT(60)
    <3> QED BY <2>1, <3>3, <1>10, <1>2 DEF HasStatement, DEFAULT_PC, sink_id
  <2> QED BY <2>2, <2>3, <1>3
<1> QED BY <1>8, <1>9, <1>11, <1>12 DEF ExecInv

\* The invariant of the executor.
LEMMA ExecInvariant == ExecSpec => []ExecInv
<1>1. ExecInit => ExecInv
  BY DEF ExecInit, ExecInv, ExecTypeOK, RunningRow, MemOpsInOrder, SnapshotOfLastRow, Regs, Mem
<1>2. ExecInv /\ [ExecNext]_execVars => ExecInv'
  <2> SUFFICES ASSUME ExecInv, [ExecNext]_execVars PROVE ExecInv'
    OBVIOUS
  <2>1. CASE Step BY <2>1, InstructionInv, ReturnInv, FinishInv DEF Step
  <2>2. ASSUME NEW boot_rows \in Nat \ {0}, NEW image \in [Address -> Word],
               NEW limit \in Nat \ {0},
               NEW inputs \in [regs : [Register -> Word], query : Word,
                               pc : {0, 1} \cup DEFAULT_PC .. sink_id],
               boot_rows <= limit, StartRun(boot_rows, inputs, image, limit)
        PROVE  ExecInv'
    BY <2>2, StartRunInv DEF Regs, Mem
  <2>3. CASE UNCHANGED execVars
    BY <2>3 DEF execVars, ExecInv, ExecTypeOK, RunningRow, MemOpsInOrder, SnapshotOfLastRow,
                HasStatement, curr_pc, instr, sink_id
  <2> QED BY <2>1, <2>2, <2>3 DEF ExecNext
<1> QED BY <1>1, <1>2, PTL DEF ExecSpec

\* The recorded memory accesses are always in the order of their rows: the
\* binary search for the first access of a chunk is on a sorted sequence.
THEOREM AccessesInOrder == ExecSpec => []MemOpsInOrder
<1>1. ExecInv => MemOpsInOrder BY DEF ExecInv
<1> QED BY <1>1, ExecInvariant, PTL

\* A run that used up its rows has kept the registers from before its last row.
THEOREM SnapshotIsRight == ExecSpec => []SnapshotOfLastRow
<1>1. ExecInv => SnapshotOfLastRow BY DEF ExecInv
<1> QED BY <1>1, ExecInvariant, PTL

\* Types hold, and a trace never has more rows than it was given.
THEOREM ExecTyping == ExecSpec => []ExecTypeOK
<1>1. ExecInv => ExecTypeOK BY DEF ExecInv
<1> QED BY <1>1, ExecInvariant, PTL
=============================================================================
