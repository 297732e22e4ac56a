--------------------------- MODULE MemoryMachines ---------------------------
(***************************************************************************)
(* The two memories of a chunk while the witness is generated: the inputs  *)
(* of the bootloader, which are looked up in a write-once memory, and the  *)
(* memory that it fills and the program uses.  Their callers use them in   *)
(* any order; an operation that is refused ends witness generation, and    *)
(* otherwise the tables are taken from all machines at the end.            *)
(***************************************************************************)
EXTENDS DoubleSortedMemory, WriteOnceMemory

VARIABLE status  \* "running", "failed" or "done"

machineVars == <<sortedVars, onceVars, status>>

MachinesInit == SortedInit /\ OnceInit /\ status = "running"

Operation ==
    \E op \in operation_ids, a \in Addr :
        \/ Incomplete(op, a)
        \/ \E s \in Step, v \in Value : Store(op, a, s, v)

Read == \E a \in Addr, s \in Step : Load(a, s)

Ask == \E i \in Row, known \in [Column -> Word \cup {None}] : Lookup(i, known)

NothingIsRefused ==
    /\ \A op \in operation_ids, a \in Addr, s \in Step, v \in Value : ~Refused(op, a, s, v)
    /\ \A i \in Row, known \in [Column -> Word \cup {None}] : ~contradicts(i, known)

\* An operation is refused, and the witness generation panics.
Fail ==
    /\ ~NothingIsRefused
    /\ status' = "failed"
    /\ UNCHANGED <<sortedVars, onceVars>>

MachinesNext ==
    /\ status = "running"
    /\ \/ (Operation \/ Read) /\ UNCHANGED <<onceVars, status>>
       \/ Ask /\ UNCHANGED <<sortedVars, status>>
       \/ Fail
       \/ TakeTable /\ TakeColumns /\ status' = "done"

MachinesSpec == MachinesInit /\ [][MachinesNext]_machineVars
=============================================================================
