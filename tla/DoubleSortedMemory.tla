------------------------- MODULE DoubleSortedMemory -------------------------
(***************************************************************************)
(* The witness generator of the memory machines                            *)
(* (executor/src/witgen/machines/double_sorted_witness_machine_32.rs).  It *)
(* answers the operations of the other machines one by one, in the order   *)
(* in which these happen to be solved, and at the end makes the table of   *)
(* all operations, sorted by address and step, whose rows have to satisfy  *)
(* the constraints of the machine (std/machines/large_field/memory.asm and *)
(* memory_with_bootloader_write.asm).                                      *)
(***************************************************************************)
EXTENDS Integers, FiniteSets, SequencesExt

CONSTANTS
    Addr, Step, Value,     \* numbers of at most 32 bits
    DegreeRange,           \* the possible degree ranges
    PageSize,              \* PAGE_SIZE
    diff_columns_base,
    Modulus                \* of the field

ASSUME MemoryAssumption ==
    /\ Addr \subseteq Nat /\ Step \subseteq Nat
    /\ PageSize \in Nat \ {0}

VARIABLES
    degree_range,    \* bounds on the number of rows, powers of two
    has_bootloader_write_column, \* which of the two machines it is
    trace,           \* (address, step) -> operation
    first_page,      \* PagedData: the first page ...
    pages,           \* ... and the others that were written to
    is_initialized,  \* set of addresses
    latest_step,     \* address -> step
    degree,
    table,           \* the rows, once they are taken
    accepted,        \* history: the operations carried out
    incomplete       \* history: addresses initialized by stores of unknown values

configVars == <<degree_range, has_bootloader_write_column>>
sortedVars == <<configVars, trace, first_page, pages, is_initialized, latest_step, degree, table,
                accepted, incomplete>>

OPERATION_ID_READ == 0
OPERATION_ID_WRITE == 1
OPERATION_ID_BOOTLOADER_WRITE == 2

operation_ids ==
    {OPERATION_ID_READ, OPERATION_ID_WRITE} \cup
    IF has_bootloader_write_column THEN {OPERATION_ID_BOOTLOADER_WRITE} ELSE {}

-----------------------------------------------------------------------------
(* PagedData.                                                              *)

\* Faulty variant: all pages are one.
page_OnlyOne(a) == 0

page(a) == a \div PageSize
offset(a) == a % PageSize
fresh_page == [o \in 0 .. PageSize - 1 |-> 0]

read(a) ==
    IF page(a) = 0 THEN first_page[offset(a)]
    ELSE IF page(a) \in DOMAIN pages THEN pages[page(a)][offset(a)]
    ELSE 0

write(a, v) ==
    IF page(a) = 0
    THEN /\ first_page' = [first_page EXCEPT ![offset(a)] = v]
         /\ UNCHANGED pages
    ELSE /\ pages' = [p \in DOMAIN pages \cup {page(a)} |->
                 IF p # page(a) THEN pages[p]
                 ELSE [IF p \in DOMAIN pages THEN pages[p] ELSE fresh_page
                          EXCEPT ![offset(a)] = v]]
         /\ UNCHANGED first_page

SortedInit ==
    /\ degree_range \in DegreeRange
    /\ has_bootloader_write_column \in BOOLEAN
    /\ trace = <<>>
    /\ first_page = fresh_page
    /\ pages = <<>>
    /\ is_initialized = {}
    /\ latest_step = [a \in Addr |-> 0]
    /\ degree = degree_range.max
    /\ table = <<>>
    /\ accepted = {}
    /\ incomplete = {}
-----------------------------------------------------------------------------
(* process_plookup_internal.                                               *)

\* "must be initialized with a bootloader write"
uninitialized(op, a) ==
    /\ has_bootloader_write_column
    /\ a \notin is_initialized
    /\ op # OPERATION_ID_BOOTLOADER_WRITE

initialize(a) ==
    is_initialized' = IF has_bootloader_write_column THEN is_initialized \cup {a}
                      ELSE is_initialized

\* Faulty variant: operations on an address come in any order.
out_of_order_Allowed(a, s) == FALSE

\* "Expected the step ... to be at least equal to the previous step"
out_of_order(a, s) == s < latest_step[a]

\* Faulty variant: a second operation replaces the first.
duplicate_Replaced(a, s) == FALSE

\* "Already had a memory access"
duplicate(a, s) == <<a, s>> \in DOMAIN trace

exhausted(a, s) == Cardinality(DOMAIN trace \cup {<<a, s>>}) > degree

unrecordable(a, s) == out_of_order(a, s) \/ duplicate(a, s) \/ exhausted(a, s)

\* A store whose value is not known yet: it is tried again later.
Incomplete(op, a) ==
    /\ op # OPERATION_ID_READ
    /\ ~uninitialized(op, a)
    /\ initialize(a)
    /\ incomplete' = incomplete \cup (is_initialized' \ is_initialized)
    /\ UNCHANGED <<configVars, trace, first_page, pages, latest_step, degree, table, accepted>>

\* The operation is recorded with the value v.
Record(op, a, s, v) ==
    /\ ~uninitialized(op, a)
    /\ ~unrecordable(a, s)
    /\ initialize(a)
    /\ trace' = [k \in DOMAIN trace \cup {<<a, s>>} |->
           IF k = <<a, s>> THEN [op |-> op, value |-> v] ELSE trace[k]]
    /\ latest_step' = [latest_step EXCEPT ![a] = s]
    /\ accepted' = accepted \cup {<<op, a, s, v>>}
    /\ UNCHANGED <<configVars, degree, table, incomplete>>

Store(op, a, s, v) ==
    /\ op # OPERATION_ID_READ
    /\ Record(op, a, s, v)
    /\ write(a, v)

Load(a, s) ==
    /\ Record(OPERATION_ID_READ, a, s, read(a))
    /\ UNCHANGED <<first_page, pages>>

\* The operation panics, or fails because the value of a load is known and is
\* another one, or because the rows are exhausted.
Refused(op, a, s, v) ==
    \/ uninitialized(op, a)
    \/ op = OPERATION_ID_READ /\ v # read(a)
    \/ unrecordable(a, s)
-----------------------------------------------------------------------------
(* take_witness_col_values.                                                *)

before(j, k) == j[1] < k[1] \/ (j[1] = k[1] /\ j[2] < k[2])

no_access == [addr |-> Modulus - 1, step |-> 0, value |-> 0, op |-> OPERATION_ID_READ,
              is_mem_op |-> FALSE]

used_rows ==
    IF trace = <<>> THEN <<no_access>>
    ELSE LET keys == SetToSortSeq(DOMAIN trace, before) IN
         [i \in DOMAIN keys |->
             [addr |-> keys[i][1], step |-> keys[i][2], value |-> trace[keys[i]].value,
              op |-> trace[keys[i]].op, is_mem_op |-> TRUE]]

\* next_power_of_two and DegreeRange::fit.
degrees == {2 ^ i : i \in 0 .. degree_range.max} \cap degree_range.min .. degree_range.max
compute_size(n) == CHOOSE d \in degrees : d >= n /\ \A e \in degrees : e >= n => d <= e

padded(rows, size) ==
    LET n == Len(rows) IN
    [i \in 1 .. size |->
        IF i <= n THEN rows[i]
        ELSE [addr |-> rows[n].addr, step |-> (rows[n].step + i - n) % Modulus,
              value |-> rows[n].value, op |-> OPERATION_ID_READ, is_mem_op |-> FALSE]]

\* In the last row, and in the padding, the difference is that of one step.
diff(rows, i) ==
    IF i >= Len(rows) THEN 0
    ELSE IF rows[i].addr # rows[i + 1].addr
         THEN rows[i + 1].addr - rows[i].addr - 1
         ELSE rows[i + 1].step - rows[i].step - 1

change(rows, i) ==
    IF i < Len(rows) THEN rows[i].addr # rows[i + 1].addr
    ELSE has_bootloader_write_column => rows[1].addr # rows[i].addr

witness_col_values(used, size) ==
    LET rows == padded(used, size) IN
    [i \in 1 .. size |->
        [addr |-> rows[i].addr, step |-> rows[i].step, value |-> rows[i].value, op |-> rows[i].op,
         is_mem_op |-> rows[i].is_mem_op, change |-> change(rows, i),
         diff_upper |-> diff(used, i) \div diff_columns_base,
         diff_lower |-> diff(used, i) % diff_columns_base]]

TakeTable ==
    LET used == used_rows
        size == compute_size(Len(used)) IN
    /\ table' = witness_col_values(used, size)
    /\ degree' = size
    /\ trace' = <<>>
    /\ UNCHANGED <<configVars, first_page, pages, is_initialized, latest_step, accepted, incomplete>>
-----------------------------------------------------------------------------
(* Properties.                                                             *)

next(i) == table[(i % Len(table)) + 1]

is_write(row) == row.op # OPERATION_ID_READ
is_bootloader_write(row) == row.op = OPERATION_ID_BOOTLOADER_WRITE

\* The constraints of both machines.
Ordered ==
    \A i \in DOMAIN table : LET row == table[i] IN
        /\ ~row.is_mem_op => ~is_write(row)
        /\ ~is_write(next(i)) /\ ~row.change =>
               next(i).value = row.value \/ (i = Len(table) /\ next(i).addr \in incomplete)
        /\ ~row.change => next(i).addr = row.addr
        /\ row.diff_upper < diff_columns_base /\ row.diff_lower < diff_columns_base
        /\ i # Len(table) =>
               (IF row.change THEN next(i).addr - row.addr ELSE next(i).step - row.step) % Modulus
                   = (1 + row.diff_upper * diff_columns_base + row.diff_lower) % Modulus

\* The constraints on the first access to an address.
ZeroAtFirst ==
    \A i \in DOMAIN table :
        /\ table[i].change /\ ~is_write(next(i)) => next(i).value = 0
        /\ i = Len(table) => table[i].change

BootloaderFirst ==
    \A i \in DOMAIN table :
        /\ table[i].change => is_bootloader_write(next(i)) \/ next(i).addr \in incomplete
        /\ i = Len(table) =>
               \/ table[i].change
               \/ table[i].addr = Modulus - 1
               \/ \A row \in {table[j] : j \in DOMAIN table} : row.addr = table[i].addr

\* In whatever order the operations were solved, the table satisfies the
\* constraints of the machine.  With the column m_is_bootloader_write there are
\* two exceptions: the last row if all operations have the same address, and the
\* first operation on an address for which a store was tried too early.
TableSatisfiesConstraints ==
    table # <<>> =>
        /\ Ordered
        /\ IF has_bootloader_write_column THEN BootloaderFirst ELSE ZeroAtFirst

\* The operations are a permutation of the rows whose selector is set, and fill
\* the smallest table that the degrees allow.
EveryOperationHasItsRow ==
    table # <<>> =>
        LET rows == {i \in DOMAIN table : table[i].is_mem_op} IN
        /\ {<<table[i].op, table[i].addr, table[i].step, table[i].value>> : i \in rows} = accepted
        /\ Cardinality(rows) = Cardinality(accepted)
        /\ Len(table) <= degree_range.max
        /\ Len(table) > degree_range.min => Len(table) < 2 * Cardinality(rows)

contents == [a \in Addr |-> read(a)]
Memory == INSTANCE AddressableMemory WITH mem <- contents

\* Loads return what was stored last, whatever pages the addresses are on.
ImplementsMemory == Memory!MemorySpec
=============================================================================
