------------------------ MODULE MemoryMachinesProofs ------------------------
(***************************************************************************)
(* The memories answer correctly, for any sets of addresses, steps, values *)
(* and rows, any size of the pages and any external values.                *)
(***************************************************************************)
EXTENDS MemoryMachines, TLAPS

-----------------------------------------------------------------------------
(* PagedData is a memory.                                                  *)

Pages ==
    /\ DOMAIN first_page = 0 .. PageSize - 1
    /\ \A p \in DOMAIN pages : DOMAIN pages[p] = 0 .. PageSize - 1

\* An address is determined by its page and its place there.
LEMMA PageOffset ==
    ASSUME NEW a \in Addr, NEW b \in Addr, page(a) = page(b), offset(a) = offset(b)
    PROVE  a = b
  <1>1. a \in Nat /\ b \in Nat /\ PageSize \in Nat \ {0}
    BY MemoryAssumption
  <1>2. \A n \in Nat : n = PageSize * (n \div PageSize) + (n % PageSize)
    BY <1>1
  <1> QED BY <1>1, <1>2 DEF page, offset

\* Places are within a page.
LEMMA OffsetRange ==
    ASSUME NEW a \in Addr
    PROVE  offset(a) \in 0 .. PageSize - 1
  <1>1. a \in Nat /\ PageSize \in Nat \ {0}
    BY MemoryAssumption
  <1> QED BY <1>1 DEF offset

\* What PagedData::read returns after PagedData::write.
LEMMA ReadAfterWrite ==
    ASSUME Pages, NEW a \in Addr, NEW v, write(a, v)
    PROVE  /\ Pages'
           /\ contents' = [contents EXCEPT ![a] = v]
  <1>0. offset(a) \in 0 .. PageSize - 1
    BY OffsetRange
  <1>1. CASE page(a) = 0
    <2>1. /\ first_page' = [first_page EXCEPT ![offset(a)] = v]
          /\ pages' = pages
      BY <1>1 DEF write
    <2>2. Pages'
      BY <2>1 DEF Pages
    <2>3. ASSUME NEW b \in Addr
          PROVE  read(b)' = IF b = a THEN v ELSE read(b)
      <3>1. CASE page(b) = 0
        <4>1. read(b)' = first_page'[offset(b)] /\ read(b) = first_page[offset(b)]
          BY <3>1 DEF read, page, offset
        <4>2. offset(b) \in 0 .. PageSize - 1
          BY OffsetRange
        <4>3. offset(a) = offset(b) <=> a = b
          BY <1>1, <3>1, PageOffset
        <4> QED BY <1>0, <2>1, <4>1, <4>2, <4>3 DEF Pages
      <3>2. CASE page(b) # 0
        BY <1>1, <2>1, <3>2 DEF read, page, offset
      <3> QED BY <3>1, <3>2
    <2> QED BY <2>2, <2>3 DEF contents
  <1>2. CASE page(a) # 0
    <2>1. /\ first_page' = first_page
          /\ DOMAIN pages' = DOMAIN pages \cup {page(a)}
          /\ \A p \in DOMAIN pages : p # page(a) => pages'[p] = pages[p]
          /\ pages'[page(a)] =
                 [IF page(a) \in DOMAIN pages THEN pages[page(a)] ELSE fresh_page
                     EXCEPT ![offset(a)] = v]
      BY <1>2 DEF write
    <2>2. /\ DOMAIN pages'[page(a)] = 0 .. PageSize - 1
          /\ pages'[page(a)][offset(a)] = v
          /\ \A o \in 0 .. PageSize - 1 :
                 o # offset(a) => pages'[page(a)][o] = IF page(a) \in DOMAIN pages
                                                       THEN pages[page(a)][o] ELSE 0
      BY <1>0, <2>1 DEF Pages, fresh_page
    <2>3. Pages'
      BY <2>1, <2>2 DEF Pages
    <2>4. ASSUME NEW b \in Addr
          PROVE  read(b)' = IF b = a THEN v ELSE read(b)
      <3>0. offset(b) \in 0 .. PageSize - 1
        BY OffsetRange
      <3>1. CASE page(b) = page(a)
        <4>1. read(b)' = pages'[page(a)][offset(b)]
          BY <1>2, <2>1, <3>1 DEF read, page, offset
        <4>2. read(b) = IF page(a) \in DOMAIN pages THEN pages[page(a)][offset(b)] ELSE 0
          BY <1>2, <3>1 DEF read
        <4>3. offset(a) = offset(b) <=> a = b
          BY <3>1, PageOffset
        <4> QED BY <2>2, <3>0, <4>1, <4>2, <4>3
      <3>2. CASE page(b) # page(a)
        BY <2>1, <3>2 DEF read, page, offset
      <3> QED BY <3>1, <3>2
    <2> QED BY <2>3, <2>4 DEF contents
  <1> QED BY <1>1, <1>2

\* The steps of the machines, as far as the memory is concerned.
LEMMA MemorySteps ==
    ASSUME [MachinesNext]_machineVars
    PROVE  \/ \E op \in operation_ids, a \in Addr : Incomplete(op, a)
           \/ \E op \in operation_ids, a \in Addr, s \in Step, v \in Value : Store(op, a, s, v)
           \/ \E a \in Addr, s \in Step : Load(a, s)
           \/ TakeTable
           \/ UNCHANGED sortedVars
  BY DEF MachinesNext, Operation, Read, Fail, machineVars

\* A memory in pages is a memory: the machines implement AddressableMemory (the
\* answers that process_plookup_internal gives).
THEOREM MemoryRefines == MachinesSpec => ImplementsMemory
  <1>1. MachinesInit => Pages /\ Memory!MemoryInit
    <2> SUFFICES ASSUME MachinesInit PROVE Pages /\ Memory!MemoryInit
      OBVIOUS
    <2>1. /\ first_page = [o \in 0 .. PageSize - 1 |-> 0]
          /\ pages = <<>>
          /\ accepted = {}
      BY DEF MachinesInit, SortedInit, fresh_page
    <2>2. \A a \in Addr : read(a) = 0
      BY <2>1, OffsetRange DEF read
    <2> QED BY <2>1, <2>2 DEF Pages, contents, Memory!MemoryInit
  <1>2. ASSUME Pages, [MachinesNext]_machineVars
        PROVE  Pages' /\ [Memory!MemoryNext]_(Memory!memoryVars)
    <2>1. ASSUME UNCHANGED <<first_page, pages>> PROVE Pages'
      BY <1>2, <2>1 DEF Pages
    <2>2. ASSUME UNCHANGED <<first_page, pages>> PROVE contents' = contents
      BY <2>2 DEF contents, read, page, offset
    <2>3. CASE UNCHANGED <<first_page, pages, accepted>>
      BY <2>1, <2>2, <2>3 DEF Memory!memoryVars
    <2>4. CASE \E a \in Addr, s \in Step : Load(a, s)
      <3>1. PICK a \in Addr, s \in Step : Load(a, s)
        BY <2>4
      <3>2. accepted' = accepted \cup {<<0, a, s, contents[a]>>}
        BY <3>1 DEF Load, Record, contents, OPERATION_ID_READ
      <3>3. contents' = contents
        BY <2>2, <3>1 DEF Load
      <3>4. Memory!Load(a, s)
        BY <3>2, <3>3 DEF Memory!Load
      <3> QED BY <2>1, <3>1, <3>4 DEF Load, Memory!MemoryNext
    <2>5. CASE \E op \in operation_ids, a \in Addr, s \in Step, v \in Value : Store(op, a, s, v)
      <3>1. PICK op \in operation_ids, a \in Addr, s \in Step, v \in Value : Store(op, a, s, v)
        BY <2>5
      <3>2. op \in {1, 2}
        BY <3>1 DEF Store, operation_ids, OPERATION_ID_READ, OPERATION_ID_WRITE,
                    OPERATION_ID_BOOTLOADER_WRITE
      <3>3. Pages' /\ contents' = [contents EXCEPT ![a] = v]
        BY <1>2, <3>1, ReadAfterWrite DEF Store
      <3>4. Memory!Store(op, a, s, v)
        BY <3>1, <3>3 DEF Store, Record, Memory!Store
      <3> QED BY <3>2, <3>3, <3>4 DEF Memory!MemoryNext
    <2> QED
      BY <1>2, <2>3, <2>4, <2>5, MemorySteps DEF Incomplete, TakeTable, sortedVars
  <1> QED BY <1>1, <1>2, PTL DEF MachinesSpec, ImplementsMemory, Memory!MemorySpec
-----------------------------------------------------------------------------
(* The trace, sorted by address and step, is that of a memory, although    *)
(* the operations on different addresses come in any order.                *)

recorded(a, t) == <<a, t>> \in DOMAIN trace
value_of(a, t) == trace[<<a, t>>].value

\* A load has the value of the operation on its address that is the last one
\* before it in the order of the steps, and 0 if there is none: this is what the
\* constraints say of neighbouring rows.
LoadsFollowTheTrace ==
    \A a \in Addr, s \in Step :
        recorded(a, s) /\ trace[<<a, s>>].op = OPERATION_ID_READ =>
            \/ value_of(a, s) = 0 /\ \A t \in Step : t < s => ~recorded(a, t)
            \/ \E t \in Step : /\ t < s /\ recorded(a, t) /\ value_of(a, t) = value_of(a, s)
                               /\ \A u \in Step : t < u /\ u < s => ~recorded(a, u)

\* The latest step of an address is that of its last operation, whose value is
\* the contents of the memory.
LatestIsLast ==
    /\ latest_step \in [Addr -> Nat]
    /\ \A a \in Addr, t \in Step : recorded(a, t) =>
           t <= latest_step[a] /\ latest_step[a] \in Step /\ recorded(a, latest_step[a])
    /\ \A a \in Addr :
           IF latest_step[a] \in Step /\ recorded(a, latest_step[a])
           THEN value_of(a, latest_step[a]) = contents[a]
           ELSE contents[a] = 0

\* Recording an operation, of which read and write differ only in the contents.
LEMMA RecordKeepsTrace ==
    ASSUME LatestIsLast, LoadsFollowTheTrace,
           NEW op, NEW a \in Addr, NEW s \in Step, NEW v, Record(op, a, s, v),
           op = OPERATION_ID_READ => v = contents[a],
           contents' = [contents EXCEPT ![a] = v]
    PROVE  LatestIsLast' /\ LoadsFollowTheTrace'
  <1>0. Step \subseteq Nat /\ s \in Nat
    BY MemoryAssumption
  <1>1. /\ DOMAIN trace' = DOMAIN trace \cup {<<a, s>>}
        /\ trace'[<<a, s>>] = [op |-> op, value |-> v]
        /\ \A k \in DOMAIN trace : k # <<a, s>> => trace'[k] = trace[k]
        /\ latest_step' = [latest_step EXCEPT ![a] = s]
    BY DEF Record
  <1>2. ~recorded(a, s) /\ latest_step[a] <= s
    BY <1>0 DEF Record, unrecordable, out_of_order, duplicate, recorded, LatestIsLast
  <1>3. \A t \in Step : recorded(a, t) => t < s /\ t <= latest_step[a]
    BY <1>0, <1>2 DEF LatestIsLast
  <1>4. \A b \in Addr, t \in Step :
            /\ recorded(b, t)' <=> recorded(b, t) \/ (b = a /\ t = s)
            /\ recorded(b, t) => trace'[<<b, t>>] = trace[<<b, t>>]
    BY <1>1, <1>2 DEF recorded
  <1>5. contents \in [Addr -> {contents[b] : b \in Addr}]
    BY DEF contents
  <1>6. LatestIsLast'
    <2>1. latest_step' \in [Addr -> Nat]
      BY <1>0, <1>1 DEF LatestIsLast
    <2>2. ASSUME NEW b \in Addr, NEW t \in Step, recorded(b, t)'
          PROVE  t <= latest_step'[b] /\ latest_step'[b] \in Step
                 /\ <<b, latest_step'[b]>> \in DOMAIN trace'
      BY <1>0, <1>1, <1>3, <1>4, <2>2 DEF LatestIsLast, recorded
    <2>3. ASSUME NEW b \in Addr
          PROVE  IF latest_step'[b] \in Step /\ <<b, latest_step'[b]>> \in DOMAIN trace'
                 THEN trace'[<<b, latest_step'[b]>>].value = contents'[b]
                 ELSE contents'[b] = 0
      <3>1. CASE b = a
        BY <1>1, <1>5, <3>1 DEF LatestIsLast
      <3>2. CASE b # a
        <4>1. latest_step'[b] = latest_step[b] /\ contents'[b] = contents[b]
          BY <1>1, <3>2 DEF LatestIsLast
        <4>2. <<b, latest_step[b]>> \in DOMAIN trace' <=> recorded(b, latest_step[b])
          BY <1>1, <3>2 DEF recorded
        <4>3. latest_step[b] \in Step /\ recorded(b, latest_step[b]) =>
                  trace'[<<b, latest_step[b]>>].value = contents[b]
          BY <1>4 DEF LatestIsLast, value_of
        <4> QED BY <4>1, <4>2, <4>3 DEF LatestIsLast
      <3> QED BY <3>1, <3>2
    <2> QED BY <2>1, <2>2, <2>3 DEF LatestIsLast, recorded, value_of
  <1>7. LoadsFollowTheTrace'
    <2> DEFINE rec(b, t) == <<b, t>> \in DOMAIN trace'
               val(b, t) == trace'[<<b, t>>].value
    <2>0. ASSUME NEW b \in Addr, NEW t \in Step
          PROVE  /\ rec(b, t) <=> recorded(b, t) \/ (b = a /\ t = s)
                 /\ recorded(b, t) => val(b, t) = value_of(b, t)
                 /\ recorded(b, t) => trace'[<<b, t>>].op = trace[<<b, t>>].op
      BY <1>4 DEF recorded, value_of
    <2>1. val(a, s) = v /\ trace'[<<a, s>>].op = op
      BY <1>1
    <2>2. ASSUME NEW b \in Addr, NEW r \in Step, rec(b, r),
                 trace'[<<b, r>>].op = OPERATION_ID_READ
          PROVE  \/ val(b, r) = 0 /\ \A t \in Step : t < r => ~rec(b, t)
                 \/ \E t \in Step : /\ t < r /\ rec(b, t) /\ val(b, t) = val(b, r)
                                    /\ \A u \in Step : t < u /\ u < r => ~rec(b, u)
      <3> HIDE DEF rec, val
      <3>1. CASE recorded(b, r)
        <4>1. \A t \in Step : t < r => (rec(b, t) <=> recorded(b, t))
          <5>1. ASSUME b = a, NEW t \in Step, t < r PROVE t # s
            BY <1>0, <1>3, <3>1, <5>1
          <5> QED BY <2>0, <5>1
        <4>2. trace[<<b, r>>].op = OPERATION_ID_READ
          BY <2>0, <2>2, <3>1
        <4>3. \/ value_of(b, r) = 0 /\ \A t \in Step : t < r => ~recorded(b, t)
              \/ \E t \in Step : /\ t < r /\ recorded(b, t) /\ value_of(b, t) = value_of(b, r)
                                 /\ \A u \in Step : t < u /\ u < r => ~recorded(b, u)
          BY <3>1, <4>2 DEF LoadsFollowTheTrace
        <4>4. CASE value_of(b, r) = 0 /\ \A t \in Step : t < r => ~recorded(b, t)
          BY <2>0, <3>1, <4>1, <4>4
        <4>5. CASE \E t \in Step : /\ t < r /\ recorded(b, t) /\ value_of(b, t) = value_of(b, r)
                                   /\ \A u \in Step : t < u /\ u < r => ~recorded(b, u)
          <5>1. PICK t \in Step : /\ t < r /\ recorded(b, t) /\ value_of(b, t) = value_of(b, r)
                                  /\ \A u \in Step : t < u /\ u < r => ~recorded(b, u)
            BY <4>5
          <5>2. rec(b, t) /\ val(b, t) = val(b, r)
            BY <2>0, <3>1, <5>1
          <5> QED BY <4>1, <5>1, <5>2
        <4> QED BY <4>3, <4>4, <4>5
      <3>2. CASE ~recorded(b, r)
        <4>1. b = a /\ r = s
          BY <2>0, <2>2, <3>2
        <4>2. val(b, r) = contents[a]
          BY <2>1, <2>2, <4>1
        <4>3. ASSUME NEW l \in Step, l = latest_step[a], recorded(a, l)
              PROVE  /\ l < r /\ rec(b, l) /\ val(b, l) = val(b, r)
                     /\ \A u \in Step : l < u /\ u < r => ~rec(b, u)
          <5>1. l < s /\ \A u \in Step : recorded(a, u) => u <= l
            BY <1>3, <4>3
          <5>2. value_of(a, l) = contents[a]
            BY <4>3 DEF LatestIsLast
          <5>3. \A u \in Step : l < u /\ u < r => ~rec(b, u)
            <6>1. ASSUME NEW u \in Step, l < u, u < r PROVE u # s /\ ~recorded(b, u)
              BY <1>0, <4>1, <5>1, <6>1
            <6> QED BY <2>0, <6>1
          <5> QED BY <2>0, <4>1, <4>2, <4>3, <5>1, <5>2, <5>3
        <4>4. CASE latest_step[a] \in Step /\ recorded(a, latest_step[a])
          BY <4>3, <4>4
        <4>5. CASE ~(latest_step[a] \in Step /\ recorded(a, latest_step[a]))
          <5>1. contents[a] = 0 /\ \A t \in Step : ~recorded(a, t)
            BY <4>5 DEF LatestIsLast
          <5>2. \A t \in Step : t < r => ~rec(b, t)
            <6>1. ASSUME NEW t \in Step, t < r PROVE t # s /\ ~recorded(b, t)
              BY <1>0, <4>1, <5>1, <6>1
            <6> QED BY <2>0, <6>1
          <5> QED BY <4>2, <5>1, <5>2
        <4> QED BY <4>4, <4>5
      <3> QED BY <3>1, <3>2
    <2> QED BY <2>2 DEF LoadsFollowTheTrace, recorded, value_of, OPERATION_ID_READ
  <1> QED BY <1>6, <1>7

\* As long as witness generation runs, the trace is consistent: for any number of
\* addresses and steps, in whatever order process_plookup_internal is called.
THEOREM TraceIsConsistent == MachinesSpec => [](status = "running" => LoadsFollowTheTrace)
  <1> DEFINE Inv == Pages /\ (status = "running" => LatestIsLast /\ LoadsFollowTheTrace)
  <1>1. MachinesInit => Inv
    <2> SUFFICES ASSUME MachinesInit PROVE Inv
      OBVIOUS
    <2>1. /\ first_page = [o \in 0 .. PageSize - 1 |-> 0]
          /\ pages = <<>> /\ trace = <<>> /\ latest_step = [a \in Addr |-> 0]
      BY DEF MachinesInit, SortedInit, fresh_page
    <2>2. \A a \in Addr : contents[a] = 0
      BY <2>1, OffsetRange DEF contents, read
    <2>3. LatestIsLast /\ LoadsFollowTheTrace
      BY <2>1, <2>2 DEF LatestIsLast, LoadsFollowTheTrace, recorded
    <2> QED BY <2>1, <2>3 DEF Pages
  <1>2. ASSUME Inv, [MachinesNext]_machineVars
        PROVE  Inv'
    <2>1. ASSUME UNCHANGED <<first_page, pages>> PROVE Pages' /\ contents' = contents
      BY <1>2, <2>1 DEF Pages, contents, read, page, offset
    <2>2. CASE UNCHANGED <<first_page, pages, trace, latest_step>>
      <3>1. LatestIsLast /\ LoadsFollowTheTrace => LatestIsLast' /\ LoadsFollowTheTrace'
        BY <2>1, <2>2 DEF LatestIsLast, LoadsFollowTheTrace, recorded, value_of, OPERATION_ID_READ
      <3>2. status' = "running" => status = "running"
        BY <1>2 DEF MachinesNext, Fail, machineVars
      <3> QED BY <1>2, <2>1, <2>2, <3>1, <3>2
    <2>3. CASE status = "running" /\ \E a \in Addr, s \in Step : Load(a, s)
      <3>1. PICK a \in Addr, s \in Step : Load(a, s)
        BY <2>3
      <3>2. read(a) = contents[a] /\ contents' = [contents EXCEPT ![a] = read(a)] /\ Pages'
        BY <2>1, <3>1 DEF Load, contents
      <3>3. LatestIsLast' /\ LoadsFollowTheTrace'
        BY <1>2, <2>3, <3>1, <3>2, RecordKeepsTrace DEF Load
      <3> QED BY <3>2, <3>3
    <2>4. CASE /\ status = "running"
               /\ \E op \in operation_ids, a \in Addr, s \in Step, v \in Value : Store(op, a, s, v)
      <3>1. PICK op \in operation_ids, a \in Addr, s \in Step, v \in Value : Store(op, a, s, v)
        BY <2>4
      <3>2. Pages' /\ contents' = [contents EXCEPT ![a] = v]
        BY <1>2, <3>1, ReadAfterWrite DEF Store
      <3>3. LatestIsLast' /\ LoadsFollowTheTrace'
        BY <1>2, <2>4, <3>1, <3>2, RecordKeepsTrace DEF Store
      <3> QED BY <3>2, <3>3
    <2>5. CASE TakeTable /\ status' = "done"
      BY <2>1, <2>5 DEF TakeTable
    <2> QED
      BY <1>2, <2>2, <2>3, <2>4, <2>5 DEF MachinesNext, Operation, Read, Fail, Incomplete,
                                          machineVars, sortedVars
  <1>3. Inv => (status = "running" => LoadsFollowTheTrace)
    OBVIOUS
  <1> QED BY <1>1, <1>2, <1>3, PTL DEF MachinesSpec
-----------------------------------------------------------------------------
(* The write-once memory.                                                  *)

\* What is stored for a row agrees with the external values and with all answers.
DataAgrees ==
    /\ external \in [Column -> ExternalValues]
    /\ \A i \in DOMAIN data, c \in Column :
           external[c] # None => data[i][c] = external_witness(i, c)
    /\ \A e \in answered :
           /\ e[1] \in Row /\ e[1] \in DOMAIN data
           /\ \A c \in Column : e[2][c] = data[e[1]][c] /\ data[e[1]][c] # None

\* External values are values.
LEMMA ExternalIsKnown ==
    ASSUME NEW i \in Row, NEW c \in Column, external \in [Column -> ExternalValues],
           external[c] # None
    PROVE  /\ external_witness(i, c) # None
           /\ i < Len(external[c]) => external_witness(i, c) = external[c][i + 1]
  <1>1. /\ external[c] \in Seq(Word)
        /\ external[c] # <<>>
        /\ i \in Nat
        /\ None \notin Word
    BY OnceAssumption
  <1>2. Len(external[c]) \in Nat \ {0}
    BY <1>1
  <1>3. i % Len(external[c]) \in 0 .. Len(external[c]) - 1
    BY <1>1, <1>2
  <1>4. external_witness(i, c) = external[c][(i % Len(external[c])) + 1]
    BY DEF external_witness
  <1>5. external[c][(i % Len(external[c])) + 1] \in Word
    BY <1>1, <1>2, <1>3
  <1>6. i < Len(external[c]) => i % Len(external[c]) = i
    BY <1>1, <1>2
  <1> QED BY <1>1, <1>4, <1>5, <1>6

\* A lookup keeps what is stored, and what it answers is stored.
LEMMA LookupAgrees ==
    ASSUME DataAgrees, NEW i \in Row, NEW known, Lookup(i, known)
    PROVE  DataAgrees'
  <1>1. /\ external' = external
        /\ DOMAIN data' = DOMAIN data \cup {i}
        /\ data'[i] = merged(i, known)
        /\ \A j \in DOMAIN data : j # i => data'[j] = data[j]
    BY DEF Lookup
  <1>2. \A j, c : external_witness(j, c)' = external_witness(j, c)
    BY <1>1 DEF external_witness
  <1>3. ASSUME NEW c \in Column
        PROVE  /\ external[c] # None => data'[i][c] = external_witness(i, c)
               /\ i \in DOMAIN data /\ data[i][c] # None => data'[i][c] = data[i][c]
    <2>1. data'[i][c] = IF stored_value(i)[c] # None THEN stored_value(i)[c] ELSE known[c]
      BY <1>1 DEF merged
    <2>2. stored_value(i)[c] = IF external_witness(i, c) # None THEN external_witness(i, c)
                               ELSE IF i \in DOMAIN data THEN data[i][c]
                               ELSE None
      BY DEF stored_value
    <2>3. external[c] = None => external_witness(i, c) = None
      BY DEF external_witness
    <2> QED BY <2>1, <2>2, <2>3, ExternalIsKnown DEF DataAgrees
  <1>4. \A j \in DOMAIN data', c \in Column :
            external'[c] # None => data'[j][c] = external_witness(j, c)'
    BY <1>1, <1>2, <1>3 DEF DataAgrees
  <1>5. ASSUME NEW e \in answered'
        PROVE  /\ e[1] \in Row /\ e[1] \in DOMAIN data'
               /\ \A c \in Column : e[2][c] = data'[e[1]][c] /\ data'[e[1]][c] # None
    <2>1. CASE e \in answered
      <3>1. /\ e[1] \in Row /\ e[1] \in DOMAIN data
            /\ \A c \in Column : e[2][c] = data[e[1]][c] /\ data[e[1]][c] # None
        BY <2>1 DEF DataAgrees
      <3>2. \A c \in Column : data'[e[1]][c] = data[e[1]][c]
        BY <1>1, <1>3, <3>1
      <3> QED BY <1>1, <3>1, <3>2
    <2>2. CASE e \notin answered
      <3>1. /\ e = <<i, updated(i, known)>>
            /\ \A c \in Column : merged(i, known)[c] # None
        BY <2>2 DEF Lookup
      <3>2. \A c \in Column : updated(i, known)[c] = merged(i, known)[c]
        BY <3>1 DEF Lookup, contradicts, updated, merged
      <3> QED BY <1>1, <3>1, <3>2
    <2> QED BY <2>1, <2>2
  <1> QED BY <1>1, <1>4, <1>5 DEF DataAgrees

\* The columns contain the answers.
LEMMA ColumnsAgree ==
    ASSUME DataAgrees, TakeColumns
    PROVE  DataAgrees' /\ AnswersAreInTheTable'
  <1>1. external' = external /\ data' = data /\ answered' = answered
    BY DEF TakeColumns
  <1>2. DataAgrees'
    BY <1>1 DEF DataAgrees, external_witness
  <1>3. ASSUME NEW e \in answered, NEW c \in Column, external[c] = None \/ e[1] < Len(external[c])
        PROVE  columns'[c][e[1]] = e[2][c]
    <2>1. /\ e[1] \in Row /\ e[1] \in DOMAIN data
          /\ e[2][c] = data[e[1]][c] /\ data[e[1]][c] # None
      BY DEF DataAgrees
    <2>2. columns'[c][e[1]] =
              IF external[c] # None
              THEN IF e[1] < Len(external[c]) THEN external[c][e[1] + 1] ELSE 0
              ELSE IF e[1] \in DOMAIN data /\ data[e[1]][c] # None THEN data[e[1]][c] ELSE 0
      BY <2>1 DEF TakeColumns
    <2>3. CASE external[c] = None
      BY <2>1, <2>2, <2>3
    <2>4. CASE external[c] # None
      <3>1. external_witness(e[1], c) = external[c][e[1] + 1]
        BY <1>3, <2>1, <2>4, ExternalIsKnown DEF DataAgrees
      <3>2. data[e[1]][c] = external_witness(e[1], c)
        BY <2>1, <2>4 DEF DataAgrees
      <3> QED BY <1>3, <2>1, <2>2, <2>4, <3>1, <3>2
    <2> QED BY <2>3, <2>4
  <1>4. ASSUME NEW e \in answered, NEW c \in Column, external[c] # None
        PROVE  e[1] \in Nat /\ Len(external[c]) \in Nat
    <2>1. e[1] \in Row /\ external[c] \in ExternalValues \ {None}
      BY <1>4 DEF DataAgrees
    <2>2. external[c] \in Seq(Word)
      BY <2>1, OnceAssumption
    <2>3. Len(external[c]) \in Nat
      BY <2>2
    <2>4. e[1] \in Nat
      BY <2>1, OnceAssumption
    <2> QED BY <2>3, <2>4
  <1>5. AnswersAreInTheTable'
    BY <1>1, <1>3, <1>4 DEF AnswersAreInTheTable
  <1> QED BY <1>2, <1>5

\* Lookups that process_plookup_internal answers are in the columns that
\* take_witness_col_values makes, for any external values.
THEOREM AnswersAreKept == MachinesSpec => []AnswersAreInTheTable
  <1> DEFINE Inv == /\ DataAgrees
                    /\ status = "running" => columns = <<>>
                    /\ AnswersAreInTheTable
  <1>1. MachinesInit => Inv
    BY DEF MachinesInit, OnceInit, DataAgrees, AnswersAreInTheTable
  <1>2. ASSUME Inv, [MachinesNext]_machineVars
        PROVE  Inv'
    <2>1. CASE UNCHANGED onceVars /\ (status' # status => status' # "running")
      <3>1. DataAgrees'
        BY <1>2, <2>1 DEF DataAgrees, onceVars, external_witness
      <3>2. AnswersAreInTheTable'
        BY <1>2, <2>1 DEF AnswersAreInTheTable, onceVars
      <3> QED BY <1>2, <2>1, <3>1, <3>2 DEF onceVars
    <2>2. CASE status = "running" /\ Ask /\ status' = status
      <3>1. PICK i \in Row, known \in [Column -> Word \cup {None}] : Lookup(i, known)
        BY <2>2 DEF Ask
      <3>2. columns = <<>> /\ columns' = columns
        BY <1>2, <2>2, <3>1 DEF Lookup
      <3>3. AnswersAreInTheTable'
        BY <3>2 DEF AnswersAreInTheTable
      <3>4. DataAgrees'
        BY <1>2, <3>1, LookupAgrees
      <3> QED BY <3>2, <3>3, <3>4
    <2>3. CASE TakeColumns /\ status' = "done"
      BY <1>2, <2>3, ColumnsAgree
    <2> QED
      BY <1>2, <2>1, <2>2, <2>3 DEF MachinesNext, Fail, machineVars
  <1>3. Inv => AnswersAreInTheTable
    OBVIOUS
  <1> QED BY <1>1, <1>2, <1>3, PTL DEF MachinesSpec
=============================================================================
