--------------------------- MODULE WriteOnceMemory ---------------------------
(***************************************************************************)
(* The witness generator of tables that are filled by lookups              *)
(* (executor/src/witgen/machines/write_once_memory.rs), as that of the     *)
(* inputs of the bootloader: a lookup of a row sets the values that are    *)
(* not known yet and asks for the others.  Columns can also be given       *)
(* externally, completely or only their first rows.                        *)
(***************************************************************************)
EXTENDS Naturals, Sequences

CONSTANTS
    None,          \* Option::None
    Row,           \* 0 .. degree - 1, which the keys stand for
    Column,        \* value_polys
    Word,          \* values
    ExternalValues \* what can be given for a column: None or a sequence

ASSUME OnceAssumption ==
    /\ Row \subseteq Nat
    /\ None \notin Word
    /\ \A e \in ExternalValues \ {None} : e \in Seq(Word) /\ e # <<>>

VARIABLES
    external,  \* column -> external values
    data,      \* row -> column -> optional value, for the rows looked up
    columns,   \* the columns, once they are taken
    answered   \* history: the lookups that are complete

onceVars == <<external, data, columns, answered>>

OnceInit ==
    /\ external \in [Column -> ExternalValues]
    /\ data = <<>>
    /\ columns = <<>>
    /\ answered = {}

\* FixedData::external_witness
external_witness(i, c) ==
    IF external[c] = None THEN None ELSE external[c][(i % Len(external[c])) + 1]

\* "If there is an externally provided memory value, use it"
stored_value(i) ==
    [c \in Column |->
        IF external_witness(i, c) # None THEN external_witness(i, c)
        ELSE IF i \in DOMAIN data THEN data[i][c]
        ELSE None]

\* Faulty variant: what the caller knows is not compared with what is stored.
contradicts_Never(i, known) == FALSE

contradicts(i, known) ==
    \E c \in Column : /\ stored_value(i)[c] # None /\ known[c] # None
                      /\ stored_value(i)[c] # known[c]

merged(i, known) ==
    [c \in Column |-> IF stored_value(i)[c] # None THEN stored_value(i)[c] ELSE known[c]]

\* What the caller knows after the lookup.
updated(i, known) ==
    [c \in Column |-> IF known[c] # None THEN known[c] ELSE stored_value(i)[c]]

\* process_plookup_internal, for the row i and the values that the caller knows.
Lookup(i, known) ==
    /\ ~contradicts(i, known)
    /\ data' = [j \in DOMAIN data \cup {i} |-> IF j = i THEN merged(i, known) ELSE data[j]]
    /\ answered' = IF \A c \in Column : merged(i, known)[c] # None
                   THEN answered \cup {<<i, updated(i, known)>>} ELSE answered
    /\ UNCHANGED <<external, columns>>

TakeColumns ==
    /\ columns' = [c \in Column |-> [i \in Row |->
           IF external[c] # None
           THEN IF i < Len(external[c]) THEN external[c][i + 1] ELSE 0
           ELSE IF i \in DOMAIN data /\ data[i][c] # None THEN data[i][c] ELSE 0]]
    /\ UNCHANGED <<external, data, answered>>
-----------------------------------------------------------------------------
(* Properties.                                                             *)

\* Every lookup that was answered is in the table that is made at the end, in
\* whatever order and with whatever parts of the values rows were looked up;
\* except in rows after the end of a column that is "only provided partially".
AnswersAreInTheTable ==
    columns # <<>> =>
        \A e \in answered, c \in Column :
            \/ columns[c][e[1]] = e[2][c]
            \/ external[c] # None /\ e[1] >= Len(external[c])
=============================================================================
