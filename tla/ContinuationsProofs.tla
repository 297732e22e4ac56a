------------------------ MODULE ContinuationsProofs ------------------------
(* The pages chosen for a chunk cover it and leave room for the program, and the
   chunks of the dry run tile the trace of the full run, for every program, chunk
   length and page cost. *)
EXTENDS Continuations, RiscvExecutorProofs

\* Types, and the order of the recorded accesses.
PlannerTypeOK ==
    /\ accesses \in Seq([row : Nat, addr : Nat])
    /\ \A i \in 1 .. Len(accesses) : PageOf(accesses[i]) \in Page
    /\ MemOpsSorted
    /\ proven_trace \in Nat
    /\ idx \in 1 .. (Len(accesses) + 1)
    /\ accessed_pages \subseteq Page
    /\ bootloader_rows \in Nat

\* While the accesses are scanned, the pages of the ones already seen are in
\* the set, and the rows set aside are the ones this set costs.
ScanInv ==
    plan = "scan" =>
        /\ \A i \in 1 .. (idx - 1) :
               accesses[i].row >= proven_trace => PageOf(accesses[i]) \in accessed_pages
        /\ \/ accessed_pages = {} /\ bootloader_rows = 0
           \/ bootloader_rows = bootloader_size[accessed_pages]
        /\ bootloader_size[accessed_pages] < Length

PlannerInv == PlannerTypeOK /\ ScanInv /\ PagesCovered /\ ChunkMakesProgress

\* What is known of an access.
LEMMA AccessType ==
    ASSUME PlannerTypeOK, NEW i \in 1 .. Len(accesses)
    PROVE  accesses[i].row \in Nat /\ PageOf(accesses[i]) \in Page
<1>0. accesses \in Seq([row : Nat, addr : Nat]) BY DEF PlannerTypeOK
<1>1. accesses[i] \in [row : Nat, addr : Nat] BY <1>0, Element
<1>2. PageOf(accesses[i]) \in Page BY DEF PlannerTypeOK
<1> QED BY <1>1, <1>2

\* Two even numbers that differ, differ by two.
LEMMA EvenGap ==
    ASSUME NEW pages \in SUBSET Page, bootloader_size[pages] < Length
    PROVE  Length - bootloader_size[pages] >= 2
<1>1. PICK k \in 0 .. Length : Length = 2 * k BY EvenAssumption
<1>2. PICK j \in 0 .. bootloader_size[pages] : bootloader_size[pages] = 2 * j BY EvenAssumption
<1>3. Length \in Nat /\ bootloader_size[pages] \in Nat BY PlannerAssumption
<1> QED BY <1>1, <1>2, <1>3

\* The invariant holds before anything is planned.
LEMMA PlannerInitInv == PlannerInit => PlannerInv
<1> SUFFICES ASSUME PlannerInit PROVE PlannerInv
  OBVIOUS
<1>1. Len(accesses) \in Nat BY DEF PlannerInit
<1> QED BY <1>1 DEF PlannerInit, PlannerInv, PlannerTypeOK, ScanInv, PagesCovered,
                    ChunkMakesProgress

\* The start of a chunk: all the accesses before the index are of earlier rows.
LEMMA StartPlanInv ==
    ASSUME PlannerInv, NEW row \in Nat, StartPlan(row) PROVE PlannerInv'
<1>1. PICK i \in 1 .. (Len(accesses) + 1) : find_chunk_first_memory_access(row, i) /\ idx' = i
  BY DEF StartPlan
<1>2. /\ proven_trace' = row /\ accessed_pages' = {} /\ bootloader_rows' = 0
      /\ plan' = "scan" /\ accesses' = accesses
  BY DEF StartPlan
<1>3. PlannerTypeOK'
  BY <1>1, <1>2 DEF PlannerInv, PlannerTypeOK, MemOpsSorted, PageOf
<1>4. \A j \in 1 .. (idx' - 1) : ~(accesses'[j].row >= proven_trace')
  <2> SUFFICES ASSUME NEW j \in 1 .. (idx' - 1) PROVE ~(accesses'[j].row >= proven_trace')
    OBVIOUS
  <2>1. Len(accesses) \in Nat BY DEF PlannerInv, PlannerTypeOK
  <2>2. j \in 1 .. Len(accesses) /\ j \in 1 .. (i - 1) BY <1>1, <2>1
  <2>3. accesses[j].row < row BY <1>1, <2>2 DEF find_chunk_first_memory_access
  <2>4. accesses[j].row \in Nat BY <2>2, AccessType DEF PlannerInv
  <2> QED BY <1>2, <2>3, <2>4
<1>5. bootloader_size[{}] < Length BY PlannerAssumption
<1> QED BY <1>2, <1>3, <1>4, <1>5 DEF PlannerInv, ScanInv, PagesCovered, ChunkMakesProgress

\* The end of the scan: what was not looked at is beyond the chunk.
LEMMA EndOfScanInv == ASSUME PlannerInv, EndOfScan PROVE PlannerInv'
<1>1. /\ plan = "scan" /\ plan' = "ready" /\ NoMoreAccesses
      /\ UNCHANGED <<accesses, proven_trace, idx, accessed_pages, bootloader_rows>>
  BY DEF EndOfScan
<1>2. PlannerTypeOK /\ ScanInv BY DEF PlannerInv
<1> DEFINE n == Length - bootloader_size[accessed_pages]
<1>3. /\ Length \in Nat /\ bootloader_size[accessed_pages] \in Nat
      /\ bootloader_size[accessed_pages] < Length
  BY <1>1, <1>2, PlannerAssumption DEF PlannerTypeOK, ScanInv
<1>4. bootloader_rows <= bootloader_size[accessed_pages] /\ bootloader_rows \in Nat
  BY <1>1, <1>2, <1>3 DEF ScanInv, PlannerTypeOK
<1>5. has_all_needed_pages(accessed_pages, n)
  <2> SUFFICES ASSUME NEW i \in 1 .. Len(accesses), InWindow(accesses[i], n)
               PROVE  PageOf(accesses[i]) \in accessed_pages
    BY DEF has_all_needed_pages
  <2>0. Len(accesses) \in Nat /\ idx \in 1 .. (Len(accesses) + 1) /\ proven_trace \in Nat
    BY <1>2 DEF PlannerTypeOK
  <2>1. CASE i < idx
    <3>1. i \in 1 .. (idx - 1) BY <2>0, <2>1
    <3> QED BY <3>1, <1>1, <1>2 DEF ScanInv, InWindow
  <2>2. CASE i >= idx
    <3>1. idx \in 1 .. Len(accesses) BY <2>0, <2>2
    <3>2. accesses[idx].row >= proven_trace + Length - bootloader_rows
      BY <3>1, <1>1 DEF NoMoreAccesses
    <3>3. accesses[idx].row <= accesses[i].row
      BY <3>1, <2>2, <1>2 DEF PlannerTypeOK, MemOpsSorted
    <3>4. accesses[idx].row \in Nat /\ accesses[i].row \in Nat BY <3>1, <1>2, AccessType
    <3>5. accesses[i].row < proven_trace + n BY DEF InWindow
    <3>6. n <= Length - bootloader_rows /\ n \in Int BY <1>3, <1>4
    <3> HIDE DEF n
    <3>7. FALSE BY <3>2, <3>3, <3>4, <3>5, <3>6, <2>0, <1>3, <1>4, SMTT(20)
    <3> QED BY <3>7
  <2> QED BY <2>0, <2>1, <2>2
<1>6. n >= 2 BY <1>2, <1>3, EvenGap DEF PlannerTypeOK
<1> QED BY <1>1, <1>2, <1>5, <1>6
        DEF PlannerInv, PlannerTypeOK, MemOpsSorted, PageOf, ScanInv, PagesCovered,
            ChunkMakesProgress, has_all_needed_pages, InWindow

\* An access to a page of the set.
LEMMA KnownPageInv == ASSUME PlannerInv, KnownPage PROVE PlannerInv'
<1>1. /\ plan = "scan" /\ ~NoMoreAccesses /\ PageOf(accesses[idx]) \in accessed_pages
      /\ idx' = idx + 1
      /\ UNCHANGED <<accesses, proven_trace, accessed_pages, bootloader_rows, plan>>
  BY DEF KnownPage
<1>2. PlannerTypeOK /\ ScanInv BY DEF PlannerInv
<1>3. Len(accesses) \in Nat /\ idx \in 1 .. Len(accesses)
  BY <1>1, <1>2 DEF NoMoreAccesses, PlannerTypeOK
<1>4. PlannerTypeOK' BY <1>1, <1>2, <1>3 DEF PlannerTypeOK, MemOpsSorted, PageOf
<1>5. \A i \in 1 .. (idx' - 1) : i \in 1 .. (idx - 1) \/ i = idx BY <1>1, <1>3
<1>6. ScanInv' BY <1>1, <1>2, <1>5 DEF ScanInv, PageOf
<1> QED BY <1>1, <1>4, <1>6 DEF PlannerInv, PagesCovered, ChunkMakesProgress

\* A new page: the chunk is refused, complete, or the scan goes on.
LEMMA AddPageInv == ASSUME PlannerInv, AddPage PROVE PlannerInv'
<1>1. /\ plan = "scan" /\ ~NoMoreAccesses
      /\ accessed_pages' = accessed_pages \cup {PageOf(accesses[idx])}
      /\ bootloader_rows' = bootloader_size[accessed_pages']
      /\ idx' = idx + 1
      /\ plan' = IF bootloader_rows' >= Length THEN "panic"
                 ELSE IF has_all_needed_pages(accessed_pages', Length - bootloader_rows')
                 THEN "ready" ELSE "scan"
      /\ UNCHANGED <<accesses, proven_trace>>
  BY DEF AddPage
<1>2. PlannerTypeOK /\ ScanInv BY DEF PlannerInv
<1>3. Len(accesses) \in Nat /\ idx \in 1 .. Len(accesses)
  BY <1>1, <1>2 DEF NoMoreAccesses, PlannerTypeOK
<1>4. accessed_pages' \subseteq Page
  BY <1>1, <1>2, <1>3 DEF PlannerTypeOK
<1>5. bootloader_size[accessed_pages'] \in Nat /\ Length \in Nat
  BY <1>4, PlannerAssumption
<1>6. PlannerTypeOK'
  BY <1>1, <1>2, <1>3, <1>4, <1>5 DEF PlannerTypeOK, MemOpsSorted, PageOf
<1>7. \A i \in 1 .. (idx' - 1) : i \in 1 .. (idx - 1) \/ i = idx BY <1>1, <1>3
<1>8. \A i \in 1 .. (idx' - 1) :
          accesses'[i].row >= proven_trace' => PageOf(accesses'[i])  \in accessed_pages'
  BY <1>1, <1>2, <1>7 DEF ScanInv
<1>9. ScanInv'
  BY <1>1, <1>5, <1>8 DEF ScanInv, PageOf
<1>10. plan' = "ready" => bootloader_size[accessed_pages'] < Length BY <1>1, <1>5
<1>11. ChunkMakesProgress' BY <1>4, <1>10, EvenGap DEF ChunkMakesProgress
<1>12. PagesCovered' BY <1>1 DEF PagesCovered, has_all_needed_pages, InWindow, PageOf
<1> QED BY <1>6, <1>9, <1>11, <1>12 DEF PlannerInv

\* Every step keeps the invariant.
LEMMA PlannerStepInv ==
    PlannerInv /\ [PlanStep \/ \E row \in Nat : StartPlan(row)]_plannerVars => PlannerInv'
<1> SUFFICES ASSUME PlannerInv, [PlanStep \/ \E row \in Nat : StartPlan(row)]_plannerVars
             PROVE  PlannerInv'
  OBVIOUS
<1>1. CASE UNCHANGED plannerVars
  BY <1>1 DEF plannerVars, PlannerInv, PlannerTypeOK, MemOpsSorted, PageOf, ScanInv,
              PagesCovered, ChunkMakesProgress, has_all_needed_pages, InWindow
<1> QED BY <1>1, StartPlanInv, EndOfScanInv, KnownPageInv, AddPageInv DEF PlanStep

\* Every access that the planner counts to a chunk is to one of the pages it
\* has chosen, although each page it adds makes the chunk shorter.
THEOREM PlannedPagesCover == PlannerSpec => []PagesCovered
<1>1. PlannerInv => PagesCovered BY DEF PlannerInv
<1> QED BY <1>1, PlannerInitInv, PlannerStepInv, PTL DEF PlannerSpec

\* A planned chunk proves at least one new row.
THEOREM PlannedChunkProgresses == PlannerSpec => []ChunkMakesProgress
<1>1. PlannerInv => ChunkMakesProgress BY DEF PlannerInv
<1> QED BY <1>1, PlannerInitInv, PlannerStepInv, PTL DEF PlannerSpec
-----------------------------------------------------------------------------
(* The rows of a trace with b rows of the bootloader.                      *)

\* Pcs that rows of the program, or those after its end, may have.
RowPc(sink) == {0, 1} \cup DEFAULT_PC .. sink

BootPart(rows, b, sink) ==
    /\ Len(rows) > b
    /\ \A i \in 1 .. b : rows[i].pc \in 0 .. 2
    /\ \A i \in (b + 1) .. Len(rows) : rows[i].pc \in RowPc(sink)

\* A run from the start of the program that has not ended.
Body(rows, b, sink) ==
    /\ rows[b + 1].pc = DEFAULT_PC
    /\ \A i \in (b + 1) .. Len(rows) : rows[i].pc \in DEFAULT_PC .. sink

\* A run that ended before its rows were used up has the rows after the end.
Ended(rows, limit, b, sink) ==
    Len(rows) < limit =>
        /\ Len(rows) >= b + 3
        /\ rows[Len(rows)].pc = sink
        /\ rows[Len(rows) - 1].pc = 1

\* jump_to_operation is only followed by the last row.
OneAtEnd(rows, b, sink) ==
    /\ rows[b + 1].pc = DEFAULT_PC
    /\ \A i \in (b + 1) .. Len(rows) : rows[i].pc = 1 =>
           i = Len(rows) \/ (i = Len(rows) - 1 /\ rows[Len(rows)].pc = sink)

\* The length of a program is a number.
LEMMA SinkType ==
    ASSUME ExecInv
    PROVE  sink_id \in Nat /\ sink_id >= DEFAULT_PC
<1>1. program \in Seq(Instruction) BY ProgramAssumption DEF ExecInv, ExecTypeOK
<1>2. Len(program) \in Nat BY <1>1
<1> QED BY <1>2 DEF sink_id, DEFAULT_PC

\* What a push to the row of pc makes of a trace.
Pushed(rows, limit, pc, new) ==
    \/ new = rows /\ (LastPc(rows) = pc \/ Len(rows) >= limit)
    \/ /\ Len(new) = Len(rows) + 1 /\ Len(rows) < limit
       /\ new[Len(rows) + 1].pc = pc
       /\ \A i \in 1 .. Len(rows) : new[i] = rows[i]

\* Moving to another row keeps the rows before.
LEMMA PushKeeps ==
    ASSUME NEW rows \in Seq(TraceRow), NEW limit \in Nat,
           NEW pc \in Nat, NEW q \in Word, NEW r \in Regs, NEW m \in Mem,
           NEW new, new = push_row(rows, limit, pc, q, r, m)
    PROVE  /\ Len(rows) \in Nat
           /\ new \in Seq(TraceRow)
           /\ Pushed(rows, limit, pc, new)
<1> DEFINE e == Row(pc, q, r, m)
<1>1. e \in TraceRow /\ e.pc = pc BY RowType
<1> HIDE DEF e
<1>2. /\ Append(rows, e) \in Seq(TraceRow) /\ Len(Append(rows, e)) = Len(rows) + 1
      /\ Len(rows) \in Nat /\ Append(rows, e)[Len(rows) + 1] = e
      /\ \A i \in 1 .. Len(rows) : Append(rows, e)[i] = rows[i]
  BY <1>1, AppendFacts
<1>3. CASE LastPc(rows) = pc \/ Len(rows) >= limit
  <2>1. new = rows BY <1>3 DEF push_row, has_enough_rows, LastPc
  <2> QED BY <2>1, <1>2, <1>3 DEF Pushed
<1>4. CASE ~(LastPc(rows) = pc \/ Len(rows) >= limit)
  <2>1. new = Append(rows, e) BY <1>4 DEF push_row, has_enough_rows, LastPc, e
  <2>2. Len(rows) < limit BY <1>2, <1>4
  <2> QED BY <2>1, <2>2, <1>1, <1>2 DEF Pushed
<1> QED BY <1>3, <1>4

\* What a push does to the parts of a trace.
LEMMA PushParts ==
    ASSUME ExecInv, NEW rows \in Seq(TraceRow), NEW limit \in Nat,
           NEW pc \in RowPc(sink_id), NEW q \in Word, NEW r \in Regs, NEW m \in Mem,
           NEW new, new = push_row(rows, limit, pc, q, r, m), NEW b \in Nat
    PROVE  /\ BootPart(rows, b, sink_id) => BootPart(new, b, sink_id)
           /\ Body(rows, b, sink_id) /\ Len(rows) > b /\ pc \in DEFAULT_PC .. sink_id => Body(new, b, sink_id)
<1>1. pc \in Nat BY SinkType DEF RowPc, DEFAULT_PC
<1>2. /\ Len(rows) \in Nat
      /\ \/ new = rows
         \/ /\ Len(new) = Len(rows) + 1 /\ new[Len(rows) + 1].pc = pc
            /\ \A i \in 1 .. Len(rows) : new[i] = rows[i]
  <2>1. Len(rows) \in Nat /\ Pushed(rows, limit, pc, new) BY <1>1, PushKeeps
  <2> QED BY <2>1 DEF Pushed
<1>3. CASE new = rows BY <1>3
<1>4. CASE /\ Len(new) = Len(rows) + 1 /\ new[Len(rows) + 1].pc = pc
           /\ \A i \in 1 .. Len(rows) : new[i] = rows[i]
  <2>1. \A i \in (b + 1) .. Len(new) : i \in (b + 1) .. Len(rows) \/ i = Len(rows) + 1
    BY <1>2, <1>4
  <2>2. (b + 1) .. Len(rows) \subseteq 1 .. Len(rows) BY <1>2
  <2>3. ASSUME BootPart(rows, b, sink_id) PROVE BootPart(new, b, sink_id)
    <3>1. 1 .. b \subseteq 1 .. Len(rows) /\ Len(new) > b BY <1>2, <1>4, <2>3 DEF BootPart
    <3> QED BY <3>1, <1>4, <2>1, <2>2, <2>3 DEF BootPart
  <2>4. ASSUME Body(rows, b, sink_id), Len(rows) > b, pc \in DEFAULT_PC .. sink_id PROVE Body(new, b, sink_id)
    <3>1. b + 1 \in 1 .. Len(rows) BY <1>2, <2>4
    <3> QED BY <3>1, <1>4, <2>1, <2>2, <2>4 DEF Body
  <2> QED BY <2>3, <2>4
<1> QED BY <1>2, <1>3, <1>4

\* The start of a run: the bootloader and the first row of the program.
LEMMA StartRunRows ==
    ASSUME ExecInv, NEW b \in Nat, b > 2, NEW image \in Mem, NEW limit \in Nat, b < limit,
           NEW inputs \in [regs : Regs, query : Word, pc : RowPc(sink_id)],
           StartRun(b, inputs, image, limit)
    PROVE  /\ ExecInv' /\ BootPart(trace', b, sink_id) /\ max_rows' = limit /\ program' = program
           /\ inputs.pc = DEFAULT_PC => Body(trace', b, sink_id)
           /\ status' \in {"running", "stopping"}
<1> DEFINE rows == BootRows(b, inputs.regs, image)
           pc == inputs.pc
<1>1. inputs.regs \in Regs /\ inputs.query \in Word /\ pc \in RowPc(sink_id) OBVIOUS
<1>2. ExecInv' BY StartRunInv DEF RowPc
<1>3. /\ last' = inputs.regs /\ mem' = image /\ query_arg' = inputs.query
      /\ max_rows' = limit /\ program' = program /\ advance(rows, limit, pc)
  BY DEF StartRun
<1>4. rows \in Seq(TraceRow) /\ Len(rows) = b BY <1>1, BootRowsFacts
<1>5. \A i \in 1 .. b : rows[i].pc = IF i <= 2 THEN i - 1 ELSE 2
  BY DEF BootRows, Row
<1> HIDE DEF rows, pc
<1>6. LastPc(rows) = 2 BY <1>4, <1>5 DEF LastPc
<1>7. pc \in Nat /\ pc # 2 BY <1>1, SinkType DEF RowPc, DEFAULT_PC
<1>8. Pushed(rows, limit, pc, trace')
  <2>1. trace' = push_row(rows, limit, pc, query_arg', last', mem') BY <1>3 DEF advance
  <2>2. query_arg' \in Word /\ last' \in Regs /\ mem' \in Mem BY <1>1, <1>3
  <2> QED BY <2>1, <2>2, <1>4, <1>7, PushKeeps
<1>9. /\ Len(trace') = b + 1 /\ trace'[b + 1].pc = pc
      /\ \A i \in 1 .. b : trace'[i] = rows[i]
  BY <1>4, <1>6, <1>7, <1>8 DEF Pushed
<1>10. \A i \in (b + 1) .. Len(trace') : i = b + 1 BY <1>9
<1>11. BootPart(trace', b, sink_id) BY <1>1, <1>5, <1>9, <1>10 DEF BootPart
<1>12. pc = DEFAULT_PC => Body(trace', b, sink_id) BY <1>9, <1>10, SinkType DEF Body, DEFAULT_PC
<1>13. status' \in {"running", "stopping"} BY <1>3 DEF advance
<1> QED BY <1>2, <1>3, <1>11, <1>12, <1>13 DEF pc

\* An instruction adds at most a row of the program.
LEMMA InstructionRows ==
    ASSUME ExecInv, NEW b \in Nat, BootPart(trace, b, sink_id),
           RegisterOp \/ Mload \/ Mstore \/ PoseidonGl \/ BranchIfDiffNonzero \/ Jump \/ Assign
    PROVE  /\ ExecInv' /\ BootPart(trace', b, sink_id) /\ UNCHANGED <<max_rows, program>>
           /\ Body(trace, b, sink_id) => Body(trace', b, sink_id)
           /\ status' \in {"running", "stopping"}
<1>1. ExecInv' BY InstructionInv
<1>2. status = "running" /\ UNCHANGED <<max_rows, program>>
  BY DEF RegisterOp, Mload, Mstore, PoseidonGl, BranchIfDiffNonzero, Jump, Assign, Fetch
<1>3. sink_id \in Nat /\ sink_id >= DEFAULT_PC BY SinkType
<1>4. PICK pc \in DEFAULT_PC .. sink_id : Continue(pc)
  <2>1. /\ curr_pc + 1 \in DEFAULT_PC .. sink_id
        /\ instr.op \in {"branch", "jump"} => instr.target \in DEFAULT_PC .. sink_id
    BY <1>2, <1>3, InstructionFacts DEF DEFAULT_PC
  <2>2. CASE BranchIfDiffNonzero \/ Jump
    <3>1. instr.target \in DEFAULT_PC .. sink_id BY <2>1, <2>2 DEF BranchIfDiffNonzero, Jump, Fetch
    <3>2. CASE Jump BY <3>1, <3>2 DEF Jump
    <3>3. CASE BranchIfDiffNonzero
      <4>1. Continue(instr.target) \/ Continue(curr_pc + 1) BY <3>3 DEF BranchIfDiffNonzero
      <4> QED BY <4>1, <3>1, <2>1
    <3> QED BY <2>2, <3>2, <3>3
  <2>3. CASE RegisterOp \/ Mload \/ Mstore \/ PoseidonGl \/ Assign
    <3>1. Continue(curr_pc + 1) BY <2>3 DEF RegisterOp, Mload, Mstore, PoseidonGl, Assign
    <3> QED BY <3>1, <2>1
  <2> QED BY <2>2, <2>3
<1>5. /\ trace' = push_row(trace, max_rows, pc, query_arg', last', mem')
      /\ status' \in {"running", "stopping"}
  BY <1>4 DEF Continue, advance
<1>6. /\ trace \in Seq(TraceRow) /\ max_rows \in Nat
      /\ query_arg' \in Word /\ last' \in Regs /\ mem' \in Mem
  BY <1>1 DEF ExecInv, ExecTypeOK
<1>7. pc \in RowPc(sink_id) BY DEF RowPc
<1>8. BootPart(trace', b, sink_id) BY <1>5, <1>6, <1>7, PushParts
<1>9. Body(trace, b, sink_id) => Body(trace', b, sink_id)
  <2>1. Len(trace) > b BY DEF BootPart
  <2> QED BY <2>1, <1>4, <1>5, <1>6, <1>7, PushParts
<1> QED BY <1>1, <1>2, <1>5, <1>8, <1>9

\* The rows after the end of the program.
LEMMA FinishRows ==
    ASSUME ExecInv, NEW b \in Nat, BootPart(trace, b, sink_id), FinishRun
    PROVE  /\ ExecInv' /\ BootPart(trace', b, sink_id) /\ UNCHANGED <<max_rows, program, mem_ops>>
           /\ status' = "finished"
           /\ Ended(trace', max_rows, b, sink_id)
           /\ Body(trace, b, sink_id) => OneAtEnd(trace', b, sink_id)
<1> DEFINE r1 == push_row(trace, max_rows, 0, query_arg, last, mem)
           r2 == push_row(r1, max_rows, 1, 0, last, mem)
           r3 == push_row(r2, max_rows, sink_id, 0, last, mem)
<1>1. /\ trace' = r3 /\ status' = "finished" /\ UNCHANGED <<max_rows, program, mem_ops>>
  BY DEF FinishRun
<1>2. ExecInv' BY FinishInv
<1>3. /\ trace \in Seq(TraceRow) /\ max_rows \in Nat /\ Len(trace) <= max_rows
      /\ query_arg \in Word /\ last \in Regs /\ mem \in Mem
  BY DEF ExecInv, ExecTypeOK
<1>z. PICK z \in Word : z = 0 BY WordAssumption DEF Word
<1>4. /\ sink_id \in Nat /\ sink_id >= 3 /\ sink_id \in RowPc(sink_id)
      /\ 0 \in RowPc(sink_id) /\ 1 \in RowPc(sink_id) /\ DEFAULT_PC = 3
  BY SinkType DEF RowPc, DEFAULT_PC
<1> HIDE DEF r1, r2, r3
<1>5. r1 \in Seq(TraceRow) /\ Pushed(trace, max_rows, 0, r1) /\ BootPart(r1, b, sink_id)
  <2>1. r1 = push_row(trace, max_rows, 0, query_arg, last, mem) BY DEF r1
  <2> QED BY <2>1, <1>3, <1>4, PushKeeps, PushParts
<1>6. r2 \in Seq(TraceRow) /\ Pushed(r1, max_rows, 1, r2) /\ BootPart(r2, b, sink_id)
  <2>1. r2 = push_row(r1, max_rows, 1, z, last, mem) BY <1>z DEF r2
  <2> QED BY <2>1, <1>3, <1>4, <1>5, PushKeeps, PushParts
<1>7. r3 \in Seq(TraceRow) /\ Pushed(r2, max_rows, sink_id, r3) /\ BootPart(r3, b, sink_id)
  <2>1. r3 = push_row(r2, max_rows, sink_id, z, last, mem) BY <1>z DEF r3
  <2> QED BY <2>1, <1>3, <1>4, <1>6, PushKeeps, PushParts
<1>8. Len(trace) \in Nat /\ Len(r1) \in Nat /\ Len(r2) \in Nat /\ Len(r3) \in Nat /\ Len(trace) > b
  BY <1>3, <1>5, <1>6, <1>7 DEF BootPart
<1>9. ASSUME Len(r3) < max_rows
      PROVE  Len(r3) >= b + 3 /\ r3[Len(r3)].pc = sink_id /\ r3[Len(r3) - 1].pc = 1
  <2>1. Len(r1) < max_rows /\ Len(r2) < max_rows /\ Len(trace) < max_rows
    BY <1>3, <1>5, <1>6, <1>7, <1>8, <1>9 DEF Pushed
  <2>2. LastPc(r1) = 0 /\ Len(r1) >= Len(trace) BY <2>1, <1>5, <1>8, <1>3 DEF Pushed, LastPc
  <2>3. Len(r2) = Len(r1) + 1 /\ r2[Len(r2)].pc = 1 BY <2>1, <2>2, <1>6, <1>8, <1>3 DEF Pushed
  <2>4. /\ Len(r3) = Len(r2) + 1 /\ r3[Len(r2) + 1].pc = sink_id
        /\ r3[Len(r2)] = r2[Len(r2)]
    BY <2>1, <2>3, <1>7, <1>8, <1>4, <1>3 DEF Pushed, LastPc
  <2> QED BY <2>2, <2>3, <2>4, <1>8
<1>10. ASSUME Body(trace, b, sink_id) PROVE OneAtEnd(r3, b, sink_id)
  <2>1. \A i \in (b + 1) .. Len(r1) : r1[i].pc # 1
    <3> SUFFICES ASSUME NEW i \in (b + 1) .. Len(r1) PROVE r1[i].pc # 1
      OBVIOUS
    <3>1. CASE i \in (b + 1) .. Len(trace)
      <4>1. r1[i] = trace[i] BY <3>1, <1>5, <1>8 DEF Pushed
      <4>2. trace[i].pc \in 3 .. sink_id BY <3>1, <1>10, <1>4 DEF Body
      <4> QED BY <4>1, <4>2, <1>4
    <3>2. CASE i \notin (b + 1) .. Len(trace)
      <4>1. i = Len(trace) + 1 /\ r1 # trace BY <3>2, <1>5, <1>8 DEF Pushed
      <4> QED BY <4>1, <1>5 DEF Pushed
    <3> QED BY <3>1, <3>2
  <2>2. r1[b + 1].pc = DEFAULT_PC /\ r2[b + 1] = r1[b + 1] /\ r3[b + 1] = r1[b + 1]
    <3>1. /\ b + 1 \in 1 .. Len(trace) /\ b + 1 \in 1 .. Len(r1) /\ b + 1 \in 1 .. Len(r2)
          /\ trace[b + 1].pc = DEFAULT_PC
      BY <1>5, <1>6, <1>8, <1>10 DEF Pushed, Body
    <3>2. r1[b + 1] = trace[b + 1] BY <3>1, <1>5 DEF Pushed
    <3>3. r2[b + 1] = r1[b + 1] BY <3>1, <1>6 DEF Pushed
    <3>4. r3[b + 1] = r2[b + 1] BY <3>1, <1>7 DEF Pushed
    <3> QED BY <3>1, <3>2, <3>3, <3>4
  <2>3. \A i \in (b + 1) .. Len(r2) : r2[i].pc = 1 => i = Len(r2) /\ r2 # r1
    <3> SUFFICES ASSUME NEW i \in (b + 1) .. Len(r2), r2[i].pc = 1 PROVE i = Len(r2) /\ r2 # r1
      OBVIOUS
    <3>1. i \notin (b + 1) .. Len(r1)
      <4> SUFFICES ASSUME i \in (b + 1) .. Len(r1) PROVE FALSE
        OBVIOUS
      <4>1. r2[i] = r1[i] BY <1>6, <1>8 DEF Pushed
      <4> QED BY <4>1, <2>1
    <3> QED BY <3>1, <1>6, <1>8 DEF Pushed
  <2>4. ASSUME NEW i \in (b + 1) .. Len(r3), r3[i].pc = 1
        PROVE  i = Len(r3) \/ (i = Len(r3) - 1 /\ r3[Len(r3)].pc = sink_id)
    <3>1. CASE r3 = r2 BY <3>1, <2>3, <2>4
    <3>2. CASE r3 # r2
      <4>1. /\ Len(r3) = Len(r2) + 1 /\ r3[Len(r2) + 1].pc = sink_id
            /\ \A j \in 1 .. Len(r2) : r3[j] = r2[j]
        BY <3>2, <1>7 DEF Pushed
      <4>2. i # Len(r3) BY <4>1, <2>4, <1>4
      <4>3. i \in (b + 1) .. Len(r2) /\ i \in 1 .. Len(r2) BY <4>1, <4>2, <1>8
      <4>4. i = Len(r2) BY <4>1, <4>3, <2>3, <2>4
      <4> QED BY <4>1, <4>4, <1>8
    <3> QED BY <3>1, <3>2
  <2> QED BY <2>2, <2>4 DEF OneAtEnd
<1> QED BY <1>1, <1>2, <1>7, <1>9, <1>10 DEF Ended
-----------------------------------------------------------------------------
(* The dry run.                                                            *)

Inputs == [regs : Regs, query : Word, pc : RowPc(sink_id)]

\* Rows of the bootloader of the current run.
boot == bootloader_size[IF phase = "full" THEN {} ELSE accessed_pages]

\* Types, and which state of executor and planner goes with which phase.
PhaseInv ==
    /\ phase \in {"full", "plan", "simulate", "validate", "done", "panic"}
    /\ plan \in {"idle", "scan", "ready", "panic"}
    /\ tree \in Mem /\ registers \in Inputs
    /\ phase = "full" => plan = "idle" /\ idx = 1
    /\ phase \in {"simulate", "validate"} => plan = "ready"
    /\ phase = "simulate" => status # "idle"
    /\ phase \notin {"full", "simulate"} => status = "finished"

\* The rows of the current run.
RunInv ==
    phase \in {"full", "simulate", "validate"} /\ status # "idle" =>
        /\ max_rows = IF phase = "full" THEN UsizeMax ELSE Length
        /\ BootPart(trace, boot, sink_id)
        /\ phase = "full" /\ status # "finished" => Body(trace, boot, sink_id)
        /\ phase = "full" /\ status = "finished" => OneAtEnd(trace, boot, sink_id)
        /\ status = "finished" => Ended(trace, max_rows, boot, sink_id)

\* The rows of the full run, and the proven part of them.
FullInv ==
    phase # "full" =>
        /\ full_exec \in Seq(TraceRow)
        /\ Len(full_exec) > bootloader_size[{}]
        /\ OneAtEnd(full_exec, bootloader_size[{}], sink_id)
        /\ proven_trace >= bootloader_size[{}]

Chunk == [from : Nat, rows : Nat, boot : Nat]
EndOf(c) == c.from + c.rows - c.boot
LastChunk == chunks[Len(chunks)]

\* The chunks so far tile the proven part.
TilingInv ==
    /\ chunks \in Seq(Chunk)
    /\ \A k \in 1 .. (Len(chunks) - 1) : chunks[k + 1].from = EndOf(chunks[k]) - 1
    /\ chunks # << >> => chunks[1].from = bootloader_size[{}]
    /\ phase = "full" => chunks = << >>
    /\ phase \in {"plan", "simulate"} =>
           proven_trace = IF chunks = << >> THEN bootloader_size[{}] ELSE EndOf(LastChunk) - 1
    /\ phase = "validate" =>
           chunks # << >> /\ LastChunk = [from |-> proven_trace, rows |-> Len(trace), boot |-> boot]
    /\ phase = "done" => chunks # << >> /\ EndOf(LastChunk) = Len(full_exec)

DryInv == ExecInv /\ PlannerInv /\ PhaseInv /\ RunInv /\ FullInv /\ TilingInv

\* The sizes of bootloaders.
LEMMA SizeFacts ==
    ASSUME NEW pages \in SUBSET Page
    PROVE  bootloader_size[pages] \in Nat /\ bootloader_size[pages] > 2 /\ Length \in Nat
  BY PlannerAssumption, DryRunAssumption

\* What does not touch the executor or the planner keeps their invariants.
LEMMA Untouched ==
    /\ ExecInv /\ UNCHANGED execVars => ExecInv' /\ sink_id' = sink_id
    /\ PlannerInv /\ UNCHANGED plannerVars => PlannerInv'
<1>1. ExecInv /\ UNCHANGED execVars => ExecInv' /\ sink_id' = sink_id
  BY DEF execVars, ExecInv, ExecTypeOK, RunningRow, MemOpsInOrder, SnapshotOfLastRow,
         HasStatement, curr_pc, instr, sink_id
<1> QED BY <1>1, PlannerStepInv

\* The registers at the start of a program.
LEMMA DefaultInputs ==
    ASSUME ExecInv
    PROVE  /\ default_register_values \in Inputs
           /\ default_register_values.pc = DEFAULT_PC
           /\ InitialMemory \in Mem
<1>1. 0 \in Word BY WordAssumption DEF Word
<1>2. DEFAULT_PC \in RowPc(sink_id) BY SinkType DEF RowPc, DEFAULT_PC
<1> QED BY <1>1, <1>2, DryRunAssumption DEF default_register_values, Inputs, Regs, Mem

\* The invariant holds before the full run.
LEMMA DryInitInv == Init => DryInv
<1> SUFFICES ASSUME Init PROVE DryInv
  OBVIOUS
<1>1. 0 \in Word BY WordAssumption DEF Word
<1>2. ExecInv
  BY <1>1, DryRunAssumption
     DEF Init, ExecInv, ExecTypeOK, RunningRow, MemOpsInOrder, SnapshotOfLastRow, Regs, Mem,
         default_register_values
<1>3. PlannerInv
  <2>1. /\ accesses = << >> /\ idx = 1 /\ proven_trace = 0 /\ bootloader_rows = 0
        /\ accessed_pages = {} /\ plan = "idle"
    BY DEF Init
  <2>2. accesses \in Seq([row : Nat, addr : Nat]) /\ Len(accesses) = 0 BY <2>1
  <2>3. MemOpsSorted BY <2>2 DEF MemOpsSorted
  <2>4. PlannerTypeOK BY <2>1, <2>2, <2>3 DEF PlannerTypeOK
  <2> QED BY <2>1, <2>4 DEF PlannerInv, ScanInv, PagesCovered, ChunkMakesProgress
<1>4. PhaseInv BY <1>2, DefaultInputs DEF Init, PhaseInv
<1> QED BY <1>2, <1>3, <1>4 DEF Init, DryInv, RunInv, FullInv, TilingInv

\* The full run starts.
LEMMA StartFullRunInv == ASSUME DryInv, StartFullRun PROVE DryInv'
<1> DEFINE b == bootloader_size[{}]
<1>1. /\ phase = "full" /\ StartRun(b, default_register_values, InitialMemory, UsizeMax)
      /\ UNCHANGED <<plannerVars, dryVars>>
  BY DEF StartFullRun
<1>2. b \in Nat /\ b > 2 /\ UsizeMax \in Nat /\ b < UsizeMax
  BY SizeFacts, DryRunAssumption
<1> HIDE DEF b
<1>3. ExecInv /\ PlannerInv /\ PhaseInv /\ TilingInv BY DEF DryInv
<1>4. /\ ExecInv' /\ BootPart(trace', b, sink_id) /\ max_rows' = UsizeMax /\ program' = program
      /\ Body(trace', b, sink_id) /\ status' \in {"running", "stopping"}
  <2>1. /\ default_register_values \in [regs : Regs, query : Word, pc : RowPc(sink_id)]
        /\ default_register_values.pc = DEFAULT_PC /\ InitialMemory \in Mem
    BY <1>3, DefaultInputs DEF Inputs
  <2> QED BY <2>1, <1>1, <1>2, <1>3, StartRunRows
<1>5. sink_id' = sink_id BY <1>4 DEF sink_id
<1>6. PlannerInv' BY <1>1, <1>3, Untouched
<1>7. PhaseInv' BY <1>1, <1>3, <1>5 DEF PhaseInv, plannerVars, dryVars, Inputs
<1>8. boot' = b BY <1>1 DEF boot, b, dryVars
<1>9. RunInv' BY <1>1, <1>4, <1>5, <1>8 DEF RunInv, dryVars
<1>10. FullInv' BY <1>1 DEF FullInv, dryVars
<1>11. TilingInv' BY <1>1, <1>3 DEF TilingInv, dryVars, LastChunk
<1> QED BY <1>4, <1>6, <1>7, <1>9, <1>10, <1>11 DEF DryInv

\* The executor executes an instruction or ends a run.
LEMMA ExecutorStepInv == ASSUME DryInv, ExecutorStep PROVE DryInv'
<1>1. phase \in {"full", "simulate"} /\ Step /\ UNCHANGED <<plannerVars, dryVars>>
  BY DEF ExecutorStep
<1>2. ExecInv /\ PlannerInv /\ PhaseInv /\ RunInv /\ FullInv /\ TilingInv BY DEF DryInv
<1>3. PICK b \in Nat : b = boot
  BY <1>2, SizeFacts DEF boot, PlannerInv, PlannerTypeOK
<1>4. status \in {"running", "stopping"}
  BY <1>1 DEF Step, RegisterOp, Mload, Mstore, PoseidonGl, BranchIfDiffNonzero, Jump, Assign,
              Return, FinishRun, Fetch
<1>5. /\ max_rows = IF phase = "full" THEN UsizeMax ELSE Length
      /\ BootPart(trace, b, sink_id)
      /\ phase = "full" => Body(trace, b, sink_id)
  BY <1>1, <1>2, <1>3, <1>4 DEF RunInv
<1>6. /\ ExecInv' /\ BootPart(trace', b, sink_id) /\ UNCHANGED <<max_rows, program>>
      /\ \/ /\ status' \in {"running", "stopping"}
            /\ Body(trace, b, sink_id) => Body(trace', b, sink_id)
         \/ /\ status' = "finished"
            /\ Ended(trace', max_rows, b, sink_id)
            /\ Body(trace, b, sink_id) => OneAtEnd(trace', b, sink_id)
  <2>1. CASE Return
    <3>1. ExecInv' BY <1>2, <2>1, ReturnInv
    <3> QED BY <3>1, <2>1, <1>5 DEF Return
  <2>2. CASE FinishRun BY <1>2, <1>5, <2>2, FinishRows
  <2>3. CASE RegisterOp \/ Mload \/ Mstore \/ PoseidonGl \/ BranchIfDiffNonzero \/ Jump \/ Assign
    BY <1>2, <1>5, <2>3, InstructionRows
  <2> QED BY <1>1, <2>1, <2>2, <2>3 DEF Step
<1>7. sink_id' = sink_id /\ boot' = b
  BY <1>1, <1>3, <1>6 DEF sink_id, boot, plannerVars, dryVars
<1>8. PlannerInv' BY <1>1, <1>2, Untouched
<1>9. PhaseInv' BY <1>1, <1>2, <1>6, <1>7 DEF PhaseInv, plannerVars, dryVars, Inputs
<1>10. RunInv' BY <1>1, <1>5, <1>6, <1>7 DEF RunInv, dryVars
<1>11. FullInv' BY <1>1, <1>2, <1>7 DEF FullInv, plannerVars, dryVars
<1>12. TilingInv' BY <1>1, <1>2 DEF TilingInv, plannerVars, dryVars, LastChunk
<1> QED BY <1>6, <1>8, <1>9, <1>10, <1>11, <1>12 DEF DryInv

\* The first row of the program is the one after the bootloader.
LEMMA FirstRowAfterBoot ==
    ASSUME NEW rows \in Seq(TraceRow), NEW b \in Nat, NEW pc \in Nat, pc > 2,
           Len(rows) > b, \A i \in 1 .. b : rows[i].pc \in 0 .. 2, rows[b + 1].pc = pc
    PROVE  RowOfPc(rows, pc) # {} /\ FirstRow(rows, pc) = b
<1>1. Len(rows) \in Nat OBVIOUS
<1>2. b \in RowOfPc(rows, pc) BY <1>1 DEF RowOfPc
<1>3. ASSUME NEW j \in RowOfPc(rows, pc) PROVE b <= j /\ j \in Nat
  <2>1. j \in 0 .. (Len(rows) - 1) /\ rows[j + 1].pc = pc BY DEF RowOfPc
  <2>2. j + 1 \notin 1 .. b BY <2>1
  <2> QED BY <2>1, <2>2, <1>1
<1>4. FirstRow(rows, pc) \in RowOfPc(rows, pc)
      /\ \A j \in RowOfPc(rows, pc) : FirstRow(rows, pc) <= j
  BY <1>2, <1>3 DEF FirstRow
<1>5. FirstRow(rows, pc) <= b /\ b <= FirstRow(rows, pc) /\ FirstRow(rows, pc) \in Nat
  BY <1>2, <1>3, <1>4
<1> QED BY <1>2, <1>5

\* Sequences over a set are sequences over a larger one.
LEMMA LargerSeq ==
    ASSUME NEW S, NEW T, S \subseteq T, NEW s \in Seq(S)
    PROVE  s \in Seq(T) /\ Len(s) \in Nat
  OBVIOUS

\* The full run is over: its accesses are in order and on pages.
LEMMA FinishFullRunInv == ASSUME DryInv, FinishFullRun PROVE DryInv'
<1> DEFINE b == bootloader_size[{}]
<1>1. /\ phase = "full" /\ status = "finished" /\ full_exec' = trace /\ accesses' = mem_ops
      /\ proven_trace' = FirstRow(trace, DEFAULT_PC) /\ phase' = "plan"
      /\ UNCHANGED <<execVars, idx, accessed_pages, bootloader_rows, plan, tree, registers, chunks>>
  BY DEF FinishFullRun
<1>2. ExecInv /\ PlannerInv /\ PhaseInv /\ RunInv /\ TilingInv BY DEF DryInv
<1>3. b \in Nat /\ b > 2 BY SizeFacts
<1>4. BootPart(trace, b, sink_id) /\ OneAtEnd(trace, b, sink_id)
  BY <1>1, <1>2 DEF RunInv, boot
<1> HIDE DEF b
<1>5. trace \in Seq(TraceRow) /\ mem_ops \in Seq(Access) BY <1>2 DEF ExecInv, ExecTypeOK
<1>6. FirstRow(trace, DEFAULT_PC) = b
  <2>1. /\ Len(trace) > b /\ \A i \in 1 .. b : trace[i].pc \in 0 .. 2
        /\ trace[b + 1].pc = DEFAULT_PC /\ DEFAULT_PC \in Nat /\ DEFAULT_PC > 2
    BY <1>4 DEF BootPart, OneAtEnd, DEFAULT_PC
  <2> QED BY <2>1, <1>3, <1>5, FirstRowAfterBoot
<1>7. PlannerInv'
  <2>1. mem_ops \in Seq([row : Nat, addr : Nat]) /\ Len(mem_ops) \in Nat
    <3>1. Access \subseteq [row : Nat, addr : Nat] BY RegisterAssumption DEF Access
    <3> QED BY <1>5, <3>1, LargerSeq
  <2>2. \A i \in 1 .. Len(mem_ops) : PageOf(mem_ops[i]) \in Page
    <3> SUFFICES ASSUME NEW i \in 1 .. Len(mem_ops) PROVE PageOf(mem_ops[i]) \in Page
      OBVIOUS
    <3>1. mem_ops[i] \in Access BY <1>5, Element
    <3>2. mem_ops[i].addr \in Address BY <3>1 DEF Access
    <3> QED BY <3>2, PageAssumption DEF PageOf
  <2>3. \A i, j \in 1 .. Len(mem_ops) : i <= j => mem_ops[i].row <= mem_ops[j].row
    BY <1>2 DEF ExecInv, MemOpsInOrder
  <2>4. idx' \in 1 .. (Len(mem_ops) + 1)
    BY <2>1, <1>1, <1>2 DEF PhaseInv
  <2>5. plan' = "idle" /\ proven_trace' \in Nat BY <1>1, <1>2, <1>3, <1>6 DEF PhaseInv
  <2>6. accessed_pages' \subseteq Page /\ bootloader_rows' \in Nat
    BY <1>1, <1>2 DEF PlannerInv, PlannerTypeOK
  <2>7. PlannerTypeOK'
    BY <1>1, <2>1, <2>2, <2>3, <2>4, <2>5, <2>6 DEF PlannerTypeOK, MemOpsSorted, PageOf
  <2> QED BY <2>5, <2>7 DEF PlannerInv, ScanInv, PagesCovered, ChunkMakesProgress
<1>8. ExecInv' /\ sink_id' = sink_id BY <1>1, <1>2, Untouched
<1>9. PhaseInv' BY <1>1, <1>2, <1>8 DEF PhaseInv, execVars, Inputs
<1>10. RunInv' BY <1>1 DEF RunInv
<1>11. FullInv' BY <1>1, <1>3, <1>4, <1>5, <1>6, <1>8 DEF FullInv, BootPart, b
<1>12. TilingInv' BY <1>1, <1>2, <1>6 DEF TilingInv, LastChunk, b
<1> QED BY <1>7, <1>8, <1>9, <1>10, <1>11, <1>12 DEF DryInv

\* The planner starts with a chunk, and goes on with it.
LEMMA PlanInv == ASSUME DryInv, StartChunk \/ PlanChunk PROVE DryInv'
<1>1. /\ phase = "plan" /\ phase' \in {"plan", "panic"}
      /\ UNCHANGED <<execVars, full_exec, tree, registers, chunks>>
  BY DEF StartChunk, PlanChunk, dryVars
<1>2. ExecInv /\ PlannerInv /\ PhaseInv /\ FullInv /\ TilingInv BY DEF DryInv
<1>3. PlannerInv' /\ proven_trace' = proven_trace /\ plan' \in {"scan", "ready", "panic"}
  <2>1. CASE StartChunk
    <3>1. StartPlan(proven_trace) BY <2>1 DEF StartChunk
    <3>2. proven_trace \in Nat BY <1>2 DEF PlannerInv, PlannerTypeOK
    <3> QED BY <3>1, <3>2, <1>2, StartPlanInv DEF StartPlan
  <2>2. CASE PlanChunk
    <3>1. PlanStep BY <2>2 DEF PlanChunk
    <3>2. PlannerInv' BY <3>1, <1>2, PlannerStepInv
    <3> QED BY <3>1, <3>2 DEF PlanStep, EndOfScan, KnownPage, AddPage
  <2> QED BY <2>1, <2>2
<1>4. ExecInv' /\ sink_id' = sink_id BY <1>1, <1>2, Untouched
<1>5. PhaseInv' BY <1>1, <1>2, <1>3, <1>4 DEF PhaseInv, execVars, Inputs
<1>6. RunInv' BY <1>1 DEF RunInv
<1>7. FullInv' BY <1>1, <1>2, <1>3, <1>4 DEF FullInv
<1>8. TilingInv' BY <1>1, <1>2, <1>3 DEF TilingInv, LastChunk
<1> QED BY <1>3, <1>4, <1>5, <1>6, <1>7, <1>8 DEF DryInv

\* The simulated chunk starts.
LEMMA SimulateChunkInv == ASSUME DryInv, SimulateChunk PROVE DryInv'
<1> DEFINE b == bootloader_size[accessed_pages]
<1>1. /\ phase = "plan" /\ plan = "ready" /\ StartRun(b, registers, LoadPages, Length)
      /\ phase' = "simulate" /\ UNCHANGED <<plannerVars, full_exec, tree, registers, chunks>>
  BY DEF SimulateChunk
<1>2. ExecInv /\ PlannerInv /\ PhaseInv /\ FullInv /\ TilingInv BY DEF DryInv
<1>3. b \in Nat /\ b > 2 /\ Length \in Nat BY <1>2, SizeFacts DEF PlannerInv, PlannerTypeOK
<1>4. Length - b >= 2 BY <1>1, <1>2 DEF PlannerInv, ChunkMakesProgress
<1> HIDE DEF b
<1>5. b < Length BY <1>3, <1>4
<1>6. LoadPages \in Mem
  <2>1. 0 \in Word BY WordAssumption DEF Word
  <2> QED BY <2>1, <1>2 DEF LoadPages, Mem, PhaseInv
<1>7. /\ ExecInv' /\ BootPart(trace', b, sink_id) /\ max_rows' = Length /\ program' = program
      /\ status' \in {"running", "stopping"}
  <2>1. registers \in [regs : Regs, query : Word, pc : RowPc(sink_id)]
    BY <1>2 DEF PhaseInv, Inputs
  <2> QED BY <2>1, <1>1, <1>2, <1>3, <1>5, <1>6, StartRunRows
<1>8. sink_id' = sink_id BY <1>7 DEF sink_id
<1>9. PlannerInv' BY <1>1, <1>2, Untouched
<1>10. PhaseInv' BY <1>1, <1>2, <1>7, <1>8 DEF PhaseInv, plannerVars, Inputs
<1>11. boot' = b BY <1>1 DEF boot, b, plannerVars
<1>12. RunInv' BY <1>1, <1>7, <1>8, <1>11 DEF RunInv
<1>13. FullInv' BY <1>1, <1>2, <1>8 DEF FullInv, plannerVars
<1>14. TilingInv' BY <1>1, <1>2 DEF TilingInv, LastChunk, plannerVars
<1> QED BY <1>7, <1>9, <1>10, <1>12, <1>13, <1>14 DEF DryInv

\* The state for the next chunk, and one more chunk in the result.
LEMMA ReplaceStateInv == ASSUME DryInv, ReplaceState PROVE DryInv'
<1>1. /\ phase = "simulate" /\ status = "finished"
      /\ UNCHANGED <<execVars, plannerVars, full_exec>>
  BY DEF ReplaceState
<1>2. ExecInv /\ PlannerInv /\ PhaseInv /\ RunInv /\ FullInv /\ TilingInv BY DEF DryInv
<1>3. ExecInv' /\ PlannerInv' /\ sink_id' = sink_id BY <1>1, <1>2, Untouched
<1>4. CASE phase' = "panic" /\ UNCHANGED <<tree, registers, chunks>>
  <2>1. PhaseInv' BY <1>1, <1>2, <1>3, <1>4 DEF PhaseInv, execVars, plannerVars, Inputs
  <2>2. FullInv' BY <1>1, <1>2, <1>3, <1>4 DEF FullInv, plannerVars
  <2>3. TilingInv' BY <1>1, <1>2, <1>4 DEF TilingInv
  <2>4. RunInv' BY <1>4 DEF RunInv
  <2> QED BY <1>3, <2>1, <2>2, <2>3, <2>4 DEF DryInv
<1>5. CASE phase' # "panic"
  <2> DEFINE c == [from |-> proven_trace, rows |-> Len(trace), boot |-> bootloader_size[accessed_pages]]
  <2>1. /\ tree' = update_pages /\ registers' = chunk_registers /\ chunks' = Append(chunks, c)
        /\ phase' = "validate"
    BY <1>5 DEF ReplaceState
  <2>2. PICK b \in Nat : b = boot /\ b = bootloader_size[accessed_pages]
    BY <1>1, <1>2, SizeFacts DEF boot, PlannerInv, PlannerTypeOK
  <2>3. /\ BootPart(trace, b, sink_id) /\ max_rows = Length /\ Ended(trace, max_rows, b, sink_id)
    BY <1>1, <1>2, <2>2 DEF RunInv
  <2>4. /\ trace \in Seq(TraceRow) /\ Len(trace) \in Nat /\ mem \in Mem /\ second_last \in Regs
        /\ proven_trace \in Nat
    BY <1>2 DEF ExecInv, ExecTypeOK, PlannerInv, PlannerTypeOK
  <2>5. tree' \in Mem BY <1>2, <2>1, <2>4 DEF update_pages, PhaseInv, Mem
  <2>6. registers' \in [regs : Regs, query : Word, pc : RowPc(sink_id)]
    <3>1. Len(trace) \in (b + 1) .. Len(trace) /\ Len(trace) \in 1 .. Len(trace)
      BY <2>3, <2>4 DEF BootPart
    <3>2. trace[Len(trace)] \in TraceRow BY <3>1, <2>4, Element
    <3>3. trace[Len(trace)].query \in Word BY <3>2 DEF TraceRow
    <3>4. trace[Len(trace)].pc \in RowPc(sink_id) BY <3>1, <2>3 DEF BootPart
    <3> QED BY <3>3, <3>4, <2>1, <2>4 DEF chunk_registers, curr_pc
  <2>7. PhaseInv'
    BY <1>1, <1>2, <1>3, <2>1, <2>5, <2>6 DEF PhaseInv, execVars, plannerVars, Inputs
  <2>8. boot' = b BY <1>1, <2>1, <2>2 DEF boot, plannerVars
  <2>9. RunInv' BY <1>1, <1>3, <2>1, <2>3, <2>8 DEF RunInv, execVars
  <2>10. FullInv' BY <1>1, <1>2, <1>3 DEF FullInv, plannerVars
  <2>11. TilingInv'
    <3>1. c \in Chunk /\ c.from = proven_trace BY <2>2, <2>4 DEF Chunk
    <3>2. c = [from |-> proven_trace, rows |-> Len(trace), boot |-> b] BY <2>2
    <3> HIDE DEF c
    <3>c. chunks \in Seq(Chunk) BY <1>2 DEF TilingInv
    <3>3. /\ Len(chunks) \in Nat
          /\ \A k \in 1 .. (Len(chunks) - 1) : chunks[k + 1].from = EndOf(chunks[k]) - 1
          /\ chunks # << >> => chunks[1].from = bootloader_size[{}]
          /\ proven_trace = IF chunks = << >> THEN bootloader_size[{}] ELSE EndOf(LastChunk) - 1
      <4>1. Len(chunks) \in Nat BY <3>c
      <4> QED BY <4>1, <1>1, <1>2 DEF TilingInv
    <3>4. /\ chunks' \in Seq(Chunk) /\ Len(chunks') = Len(chunks) + 1
          /\ chunks'[Len(chunks) + 1] = c
          /\ \A k \in 1 .. Len(chunks) : chunks'[k] = chunks[k]
      BY <2>1, <3>1, <3>c, AppendFacts
    <3>5. ASSUME NEW k \in 1 .. (Len(chunks') - 1)
          PROVE  chunks'[k + 1].from = EndOf(chunks'[k]) - 1
      <4>1. k \in 1 .. Len(chunks) BY <3>3, <3>4
      <4>2. CASE k = Len(chunks)
        <5>1. chunks # << >> BY <4>1, <4>2
        <5> QED BY <5>1, <4>1, <4>2, <3>1, <3>3, <3>4 DEF LastChunk
      <4>3. CASE k # Len(chunks)
        <5>1. k \in 1 .. (Len(chunks) - 1) /\ k + 1 \in 1 .. Len(chunks) BY <4>1, <4>3, <3>3
        <5> QED BY <5>1, <4>1, <3>3, <3>4
      <4> QED BY <4>2, <4>3
    <3>6. chunks' # << >> /\ chunks'[1].from = bootloader_size[{}]
      <4>1. CASE chunks = << >> BY <4>1, <3>1, <3>3, <3>4
      <4>2. CASE chunks # << >>
        <5>1. 1 \in 1 .. Len(chunks) BY <4>2, <3>3
        <5> QED BY <5>1, <4>2, <3>3, <3>4
      <4> QED BY <4>1, <4>2
    <3>7. LastChunk' = [from |-> proven_trace', rows |-> Len(trace'), boot |-> boot']
      BY <1>1, <2>8, <3>2, <3>3, <3>4 DEF LastChunk, execVars, plannerVars
    <3> QED BY <2>1, <3>4, <3>5, <3>6, <3>7 DEF TilingInv
  <2> QED BY <1>3, <2>7, <2>9, <2>10, <2>11 DEF DryInv
<1> QED BY <1>4, <1>5 DEF ReplaceState

\* A chunk that agrees with the full run and did not use up its rows ends with
\* the last row of the full run: the row jump_to_operation before its last one
\* is found in the full run only there.
LEMMA ShortChunkIsLast ==
    ASSUME DryInv, phase = "validate", NEW b \in Nat, b = bootloader_size[accessed_pages],
           SameTrace(b), IsLastChunk
    PROVE  proven_trace + Len(trace) - b = Len(full_exec)
<1>1. ExecInv /\ PlannerInv /\ PhaseInv /\ RunInv /\ FullInv BY DEF DryInv
<1>2. Len(trace) \in Nat /\ Len(full_exec) \in Nat /\ proven_trace \in Nat /\ Length \in Nat
  BY <1>1, PlannerAssumption
     DEF ExecInv, ExecTypeOK, FullInv, PlannerInv, PlannerTypeOK
<1>3. boot = b /\ status = "finished" BY <1>1 DEF boot, PhaseInv
<1>4. Len(trace) >= b + 3 /\ trace[Len(trace)].pc = sink_id /\ trace[Len(trace) - 1].pc = 1
  <2>1. Ended(trace, max_rows, b, sink_id) /\ max_rows = Length BY <1>1, <1>3 DEF RunInv
  <2> QED BY <2>1 DEF Ended, IsLastChunk
<1> DEFINE t == Len(trace)
<1>5. PICK j \in Nat : t = b + j + 2
  <2>1. t \in Nat /\ t >= b + 3 BY <1>2, <1>4
  <2> HIDE DEF t
  <2>2. t - b - 2 \in Nat /\ t = b + (t - b - 2) + 2 BY <2>1
  <2> QED BY <2>2
<1>6. FullRow(proven_trace + j).pc = 1 /\ FullRow(proven_trace + (j + 1)).pc = sink_id
  <2>1. j \in 0 .. (t - b - 1) /\ j + 1 \in 0 .. (t - b - 1)
    <3> HIDE DEF t
    <3>1. t - b - 1 = j + 1 BY <1>5
    <3> QED BY <3>1
  <2>2. b + j + 1 = Len(trace) - 1 /\ b + (j + 1) + 1 = Len(trace) BY <1>2, <1>5
  <2>3. /\ trace[b + j + 1].pc = FullRow(proven_trace + j).pc
        /\ trace[b + (j + 1) + 1].pc = FullRow(proven_trace + (j + 1)).pc
    BY <2>1 DEF SameTrace
  <2> QED BY <2>2, <2>3, <1>4
<1>7. PICK f \in Nat : f = bootloader_size[{}] BY SizeFacts
<1>8. /\ OneAtEnd(full_exec, f, sink_id) /\ Len(full_exec) > f /\ proven_trace >= f
  BY <1>1, <1>7 DEF FullInv
<1>9. sink_id # 1 BY <1>1, SinkType DEF DEFAULT_PC
<1> DEFINE p == proven_trace + j
<1>10. p \in Nat /\ p >= f /\ FullRow(p).pc = 1 /\ FullRow(p + 1).pc = sink_id
  <2>1. proven_trace + (j + 1) = p + 1 BY <1>2
  <2> QED BY <2>1, <1>2, <1>6, <1>7, <1>8
<1>pj. p = proven_trace + j OBVIOUS
<1> HIDE DEF p
<1>11. p < Len(full_exec)
  <2> SUFFICES ASSUME ~(p < Len(full_exec)) PROVE FALSE
    OBVIOUS
  <2>1. ~(p + 1 < Len(full_exec)) BY <1>2, <1>10
  <2> QED BY <2>1, <1>9, <1>10 DEF FullRow
<1>12. full_exec[p + 1].pc = 1 BY <1>10, <1>11 DEF FullRow
<1>13. p + 1 \in (f + 1) .. Len(full_exec) BY <1>2, <1>7, <1>10, <1>11
<1>14. p + 1 # Len(full_exec)
  <2> SUFFICES ASSUME p + 1 = Len(full_exec) PROVE FALSE
    OBVIOUS
  <2>1. ~(p + 1 < Len(full_exec)) BY <1>2
  <2> QED BY <2>1, <1>9, <1>10, <1>12 DEF FullRow
<1>15. p + 1 = Len(full_exec) - 1 BY <1>8, <1>12, <1>13, <1>14 DEF OneAtEnd
<1>16. p + 2 = Len(full_exec)
  <2>1. PICK q \in Nat : q = p BY <1>10
  <2>2. PICK l \in Nat : l = Len(full_exec) BY <1>2
  <2>3. q + 1 = l - 1 BY <1>15, <2>1, <2>2
  <2>4. q + 2 = l BY <2>3
  <2> QED BY <2>1, <2>2, <2>4
<1>17. proven_trace + t - b = p + 2
  <2> HIDE DEF t
  <2>1. PICK q \in Nat : q = proven_trace BY <1>2
  <2>2. q + (b + j + 2) - b = q + j + 2 OBVIOUS
  <2> QED BY <2>1, <2>2, <1>5, <1>pj
<1> QED BY <1>16, <1>17

\* The chunk is compared with the full run.
LEMMA ValidateChunkInv == ASSUME DryInv, ValidateChunk PROVE DryInv' /\
    (phase' = "plan" => proven_trace' > proven_trace)
<1>1. /\ phase = "validate"
      /\ UNCHANGED <<execVars, accesses, idx, accessed_pages, bootloader_rows,
                     full_exec, tree, registers, chunks>>
  BY DEF ValidateChunk
<1>2. ExecInv /\ PlannerInv /\ PhaseInv /\ RunInv /\ FullInv /\ TilingInv BY DEF DryInv
<1>3. PICK b \in Nat : b = bootloader_size[accessed_pages] /\ b = boot
  BY <1>1, <1>2, SizeFacts DEF boot, PlannerInv, PlannerTypeOK
<1>4. ExecInv' /\ sink_id' = sink_id BY <1>1, <1>2, Untouched
<1>5. /\ Length \in Nat /\ Len(trace) \in Nat /\ Len(trace) <= Length /\ proven_trace \in Nat
      /\ Length - b >= 2
  <2>1. max_rows = Length /\ plan = "ready" /\ status = "finished"
    BY <1>1, <1>2 DEF RunInv, PhaseInv
  <2> QED BY <2>1, <1>2, <1>3, PlannerAssumption
          DEF ExecInv, ExecTypeOK, PlannerInv, PlannerTypeOK, ChunkMakesProgress
<1>6. chunks # << >> /\ LastChunk = [from |-> proven_trace, rows |-> Len(trace), boot |-> b]
  BY <1>1, <1>2, <1>3 DEF TilingInv
<1>7. EndOf(LastChunk) = proven_trace + Len(trace) - b BY <1>6 DEF EndOf
<1>8. CASE phase' \in {"panic", "done"} /\ UNCHANGED <<proven_trace, plan>>
  <2>1. PlannerInv' BY <1>1, <1>2, <1>8, Untouched DEF plannerVars
  <2>2. PhaseInv' BY <1>1, <1>2, <1>4, <1>8 DEF PhaseInv, execVars, Inputs
  <2>3. RunInv' BY <1>8 DEF RunInv
  <2>4. FullInv' BY <1>1, <1>2, <1>4, <1>8 DEF FullInv
  <2>5. phase' = "done" => EndOf(LastChunk) = Len(full_exec)
    <3> SUFFICES ASSUME phase' = "done" PROVE EndOf(LastChunk) = Len(full_exec)
      OBVIOUS
    <3>1. SameTrace(b) /\ IsLastChunk BY <1>3 DEF ValidateChunk
    <3> QED BY <3>1, <1>1, <1>3, <1>7, ShortChunkIsLast
  <2>6. TilingInv'
    <3>1. chunks' = chunks /\ full_exec' = full_exec /\ phase' \in {"panic", "done"}
      BY <1>1, <1>8
    <3> QED BY <3>1, <1>2, <1>6, <2>5 DEF TilingInv, LastChunk
  <2> QED BY <1>4, <1>8, <2>1, <2>2, <2>3, <2>4, <2>6 DEF DryInv
<1>9. CASE phase' = "plan"
  <2>1. /\ ~(Len(trace) < Length) /\ proven_trace' = proven_trace + (Length - b - 1)
        /\ plan' = "idle"
    BY <1>3, <1>9 DEF ValidateChunk, IsLastChunk, new_rows
  <2>2. proven_trace' \in Nat /\ proven_trace' > proven_trace BY <1>3, <1>5, <2>1
  <2>3. PlannerInv'
    <3>1. PlannerTypeOK'
      BY <1>1, <1>2, <2>2 DEF PlannerInv, PlannerTypeOK, MemOpsSorted, PageOf
    <3> QED BY <3>1, <2>1 DEF PlannerInv, ScanInv, PagesCovered, ChunkMakesProgress
  <2>4. PhaseInv' BY <1>1, <1>2, <1>4, <1>9, <2>1 DEF PhaseInv, execVars, Inputs
  <2>5. RunInv' BY <1>9 DEF RunInv
  <2>6. FullInv'
    <3>1. proven_trace >= bootloader_size[{}] /\ bootloader_size[{}] \in Nat
      BY <1>1, <1>2, SizeFacts DEF FullInv
    <3>2. proven_trace' >= bootloader_size[{}] BY <3>1, <2>2, <1>5
    <3> QED BY <3>2, <1>1, <1>2, <1>4 DEF FullInv
  <2>7. TilingInv'
    <3>1. proven_trace' = EndOf(LastChunk) - 1 BY <1>3, <1>5, <1>7, <2>1
    <3> QED BY <3>1, <1>1, <1>2, <1>6, <1>9 DEF TilingInv, LastChunk
  <2> QED BY <1>4, <2>2, <2>3, <2>4, <2>5, <2>6, <2>7 DEF DryInv
<1> QED BY <1>8, <1>9 DEF ValidateChunk

\* Every step of the dry run keeps the invariant.
LEMMA DryStepInv == DryInv /\ [Next]_vars => DryInv'
<1> SUFFICES ASSUME DryInv, [Next]_vars PROVE DryInv'
  OBVIOUS
<1>1. CASE UNCHANGED vars
  <2>1. ExecInv' /\ PlannerInv' /\ sink_id' = sink_id
    BY <1>1, Untouched DEF DryInv, vars
  <2>2. PhaseInv' BY <1>1, <2>1 DEF DryInv, PhaseInv, vars, execVars, plannerVars, dryVars, Inputs
  <2>3. boot' = boot BY <1>1 DEF boot, vars, plannerVars, dryVars
  <2>4. RunInv' BY <1>1, <2>1, <2>3 DEF DryInv, RunInv, vars, execVars, dryVars
  <2>5. FullInv' BY <1>1, <2>1 DEF DryInv, FullInv, vars, plannerVars, dryVars
  <2>6. TilingInv'
    BY <1>1, <2>3 DEF DryInv, TilingInv, LastChunk, vars, execVars, plannerVars, dryVars
  <2> QED BY <2>1, <2>2, <2>4, <2>5, <2>6 DEF DryInv
<1> QED BY <1>1, StartFullRunInv, ExecutorStepInv, FinishFullRunInv, PlanInv, SimulateChunkInv,
           ReplaceStateInv, ValidateChunkInv
        DEF Next, Finished

\* The invariant of the dry run.
LEMMA DryInvariant == Spec => []DryInv
  BY DryInitInv, DryStepInv, PTL DEF Spec

\* The chunks of the dry run cut the trace of the full run, from its first row
\* after the bootloader to its last row, into pieces that overlap in one row: no
\* row is left out, and none is proved beyond the end, whatever pages the chunks
\* need and wherever they end.
THEOREM ChunksTile == Spec => []ChunksTileTheTrace
<1>1. DryInv => ChunksTileTheTrace
  <2> SUFFICES ASSUME DryInv, phase = "done" PROVE ChunksTileTheTrace
    BY DEF ChunksTileTheTrace
  <2>1. TilingInv BY DEF DryInv
  <2>2. /\ chunks[1].from = bootloader_size[{}]
        /\ EndOf(LastChunk) = Len(full_exec)
    BY <2>1 DEF TilingInv
  <2>3. \A k \in 1 .. (Len(chunks) - 1) : chunks[k + 1].from = EndOf(chunks[k]) - 1
    BY <2>1 DEF TilingInv
  <2>4. \A k \in 1 .. (Len(chunks) - 1) :
            chunks[k + 1].from = chunks[k].from + chunks[k].rows - chunks[k].boot - 1
    <3> SUFFICES ASSUME NEW k \in 1 .. (Len(chunks) - 1)
                 PROVE  chunks[k + 1].from = chunks[k].from + chunks[k].rows - chunks[k].boot - 1
      OBVIOUS
    <3>1. chunks[k + 1].from = EndOf(chunks[k]) - 1 BY <2>3
    <3>2. EndOf(chunks[k]) = chunks[k].from + chunks[k].rows - chunks[k].boot BY DEF EndOf
    <3>3. chunks \in Seq(Chunk) BY <2>1 DEF TilingInv
    <3>4. chunks[k] \in Chunk
      <4>1. Len(chunks) \in Nat BY <3>3
      <4>2. k \in 1 .. Len(chunks) BY <4>1
      <4> QED BY <4>2, <3>3, Element
    <3> QED BY <3>1, <3>2, <3>4 DEF Chunk
  <2>5. LET c == chunks[Len(chunks)] IN c.from + c.rows - c.boot = Len(full_exec)
    BY <2>2 DEF EndOf, LastChunk
  <2> QED BY <2>2, <2>4, <2>5, Zenon DEF ChunksTileTheTrace
<1> QED BY <1>1, DryInvariant, PTL

\* Every chunk after which the dry run goes on proves a new row.
THEOREM ProvenGrows == Spec => ProvenTraceGrows
<1>1. DryInv /\ [Next]_vars => [phase = "validate" /\ phase' = "plan" => proven_trace' > proven_trace]_vars
  <2> SUFFICES ASSUME DryInv, Next, phase = "validate", phase' = "plan"
               PROVE  proven_trace' > proven_trace
    OBVIOUS
  <2>1. ValidateChunk
    BY DEF Next, StartFullRun, ExecutorStep, FinishFullRun, StartChunk, PlanChunk, SimulateChunk,
           ReplaceState, Finished
  <2> QED BY <2>1, ValidateChunkInv
<1> QED BY <1>1, DryInvariant, PTL DEF Spec, ProvenTraceGrows

\* In the dry run, too, the accesses are recorded in order, the planned pages
\* cover the chunk, and the registers kept are those before the last row.
THEOREM DryRunComponents ==
    Spec => [](MemOpsInOrder /\ SnapshotOfLastRow /\ PagesCovered /\ ChunkMakesProgress)
<1>1. DryInv => MemOpsInOrder /\ SnapshotOfLastRow /\ PagesCovered /\ ChunkMakesProgress
  BY DEF DryInv, ExecInv, PlannerInv
<1> QED BY <1>1, DryInvariant, PTL
=============================================================================
