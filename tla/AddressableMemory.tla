-------------------------- MODULE AddressableMemory --------------------------
(***************************************************************************)
(* What the memory machine promises to its callers: cells that are zero at *)
(* first and hold what was written last.                                   *)
(***************************************************************************)
EXTENDS Naturals

CONSTANTS Addr, Step, Value

VARIABLES
    mem,      \* contents of the cells
    accepted  \* the operations carried out: operation, address, step and value

memoryVars == <<mem, accepted>>

MemoryInit == mem = [a \in Addr |-> 0] /\ accepted = {}

Load(a, s) ==
    /\ accepted' = accepted \cup {<<0, a, s, mem[a]>>}
    /\ UNCHANGED mem

Store(op, a, s, v) ==
    /\ mem' = [mem EXCEPT ![a] = v]
    /\ accepted' = accepted \cup {<<op, a, s, v>>}

MemoryNext ==
    \E a \in Addr, s \in Step :
        Load(a, s) \/ \E op \in {1, 2}, v \in Value : Store(op, a, s, v)

MemorySpec == MemoryInit /\ [][MemoryNext]_memoryVars
=============================================================================
