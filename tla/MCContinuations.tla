-------------------------- MODULE MCContinuations --------------------------
(* Small programs over three one-word pages and chunks of twelve rows. *)
EXTENDS Continuations, FiniteSetsExt

I(op, rs, rd, k, addr, target) ==
    [op |-> op, rs |-> rs, rd |-> rd, k |-> k, addr |-> addr, target |-> target]

Load(a) == I("mload", 0, 1, 0, a, 0)
Store(a) == I("mstore", 1, 0, 0, a, 0)
Inc == I("compute", 1, 1, 1, 1, 0)
Query == I("assign", 1, 0, 0, 1, 0)
Ret == I("return", 0, 0, 0, 1, 0)
Hash(a) == I("poseidon_gl", 0, 0, 0, a, 0)
Branch(k, t) == I("branch", 1, 0, k, 1, t)
Goto(t) == I("jump", 0, 1, 0, 1, t)

Menu == {Store(1), Load(1), Store(2), Inc, Query}

\* Straight code that may end in another page (too many pages for a chunk if
\* all of them are used at once), code that starts with a precompile (so that
\* it is never the repeated row of a chunk), a loop over a counter in memory,
\* and a linked jump.
MCPrograms ==
    {body \o <<Ret>> : body \in [1 .. 5 -> Menu]}
    \cup UNION {{body \o <<Load(3), Ret>> : body \in [1 .. n -> Menu]} : n \in 2 .. 3}
    \cup {<<Hash(2)>> \o body \o <<Ret>> : body \in [1 .. 3 -> Menu]}
    \cup {<<a, Load(1), Inc, Store(1), b, Branch(2, 4), Ret>> : a \in Menu, b \in Menu}
    \cup {<<Goto(6), Ret, Inc, a, b, Goto(4)>> : a \in Menu, b \in Menu}

\* Programs in which a precompile permutes a block of memory in place.
MCInPlacePrograms ==
    {body \o <<Ret>> : body \in [1 .. 6 -> {Inc, Hash(1), Load(1)}]}

MCInitialMemory == [a \in Address |-> a % WordSize]
\* add_wrap
MCCompute == [x \in Word \X Word |-> (x[1] + x[2]) % WordSize]
MCPoseidon == [w \in Word |-> (w + 1) % WordSize]

\* Constant part, part per page, and part per bit of the page number.
MCBootloaderSize ==
    [pages \in SUBSET Page |-> 4 + MapThenSumSet(LAMBDA p : IF p = 3 THEN 4 ELSE 2, pages)]
=============================================================================
