---------------------------- MODULE MCExploration ----------------------------
(* Small multi-threaded programs, as the evaluator sees them, for TLC.      *)
EXTENDS Exploration

CONSTANTS
  gx, gy,              \* global variables
  main_r, main_c,      \* registers of main and of the functions it calls
  thread_r, thread_c,  \* registers of the second thread
  mtx,                 \* a mutex
  handle1, handle2     \* the handles of threads

(* instructions; jumps are forward unless the name says otherwise *)
Nothing == [v \in {} |-> 0]
Put(v, o) == [w \in {v} |-> o]

Local(v, o)  == [op |-> "local", moves |-> Put(v, o)]
LoadI(v, o)  == [op |-> "load", moves |-> Put(v, o)]
StoreI(v, o) == [op |-> "store", moves |-> Put(v, o)]
Input(v)     == [op |-> "input", to |-> v]
Icmp(v, a, b) == [op |-> "icmp", to |-> v, a |-> a, b |-> b]
JumpI(n)     == [op |-> "jump", target |-> n, backward |-> {}]
JumpBack(n)  == [op |-> "jump", target |-> n, backward |-> {n}]
Br(v, t, f)  == [op |-> "br", cond |-> v, on_true |-> t, on_false |-> f, backward |-> {}]
Spin(v, t, f) == [op |-> "br", cond |-> v, on_true |-> t, on_false |-> f, backward |-> {f}]
Case(n, t)   == [value |-> n, target |-> t]
Phi(v, f)    == [op |-> "phi", to |-> v, incoming |-> f]
Assume(v)    == [op |-> "assume", cond |-> v]
AssertI(v)   == [op |-> "assert", cond |-> v]
Op(name)     == [op |-> name]
On(name, s)  == [op |-> name, slot |-> s]
Create(s, f) == [op |-> "create", slot |-> s, function |-> f, moves |-> Nothing]
CreateWith(s, f, moves) == [op |-> "create", slot |-> s, function |-> f, moves |-> moves]
CallI(f)     == [op |-> "call", function |-> f, moves |-> Nothing]
CallWith(f, moves) == [op |-> "call", function |-> f, moves |-> moves]
Ret          == [op |-> "ret", moves |-> Nothing]
RetWith(moves) == [op |-> "ret", moves |-> moves]

Fun(body)    == [atomic |-> FALSE, body |-> body]
Atomic(body) == [atomic |-> TRUE, body |-> body]
Prog1(main)  == [f \in {"main"} |-> Fun(main)]
Prog2(main, worker) == [f \in {"main", "t1"} |-> IF f = "main" THEN Fun(main) ELSE worker]
Prog3(main, worker, other) ==
  [f \in {"main", "t1", "t2"} |-> CASE f = "main" -> Fun(main)
                                    [] f = "t1" -> worker
                                    [] f = "t2" -> other]

(* x is 1 when the mutex is free again; the assertion holds inside the lock *)
Locked(locking) == Prog2(
  <<Create(handle1, "t1"), On("lock", mtx), StoreI(gx, 1), LoadI(main_r, gx),
    Icmp(main_c, main_r, 1), AssertI(main_c), On("unlock", mtx), On("join", handle1), Ret>>,
  Fun(IF locking THEN <<On("lock", mtx), StoreI(gx, 2), StoreI(gx, 0), On("unlock", mtx), Ret>>
                 ELSE <<StoreI(gx, 2), StoreI(gx, 0), Ret>>))

(* the same with atomic sections, one of them nested *)
Sections(atomic) == Prog3(
  <<Create(handle1, "t1"), Op("atomic_begin"), StoreI(gx, 1), CallI("t2"), LoadI(main_r, gx),
    Icmp(main_c, main_r, 1), AssertI(main_c), Op("atomic_end"), Ret>>,
  [atomic |-> FALSE, body |-> <<IF atomic THEN Op("atomic_begin") ELSE Op("ignored"),
                                StoreI(gx, 2), StoreI(gx, 1),
                                IF atomic THEN Op("atomic_end") ELSE Op("ignored"), Ret>>],
  Atomic(<<StoreI(gy, 1), Ret>>))

(* main waits for the other thread, then sees what it stored *)
Joined == Prog2(
  <<CreateWith(handle1, "t1", Put(thread_r, 2)), On("join", handle1), LoadI(main_r, gx),
    Icmp(main_c, main_r, 2), AssertI(main_c), Ret>>,
  Fun(<<StoreI(gx, thread_r), Ret>>))

(* threads end in any order; one of them holds the lock while main ends *)
Ending == Prog3(
  <<Create(handle1, "t1"), Create(handle2, "t2"), StoreI(gy, 1), On("join", handle1),
    LoadI(main_r, gx), Icmp(main_c, main_r, 1), AssertI(main_c), Ret>>,
  Fun(<<On("lock", mtx), StoreI(gx, 1), On("unlock", mtx), Ret>>),
  Fun(<<On("lock", mtx), LoadI(thread_c, gy), On("unlock", mtx), StoreI(gy, 2), Ret>>))

(* main spins until the other thread has stored *)
Spinning == Prog2(
  <<Create(handle1, "t1"), LoadI(main_r, gx), Icmp(main_c, main_r, 1), Spin(main_c, 5, 2),
    LoadI(main_r, gy), Icmp(main_c, main_r, 1), AssertI(main_c), Ret>>,
  Fun(<<StoreI(gy, 1), StoreI(gx, 1), Ret>>))

(* symbolic data: input, every branch of a switch, a PHI, a call, a loop *)
Symbolic(faulty) == Prog2(
  <<Input(main_r), [op |-> "switch", cond |-> main_r, cases |-> <<Case(0, 3), Case(1, 5)>>,
                default |-> 7, backward |-> {}],
    StoreI(gx, 0), JumpI(8),
    Local(main_c, main_r), JumpI(8),
    JumpI(8),
    Phi(thread_r, [n \in {4, 6, 7} |-> IF n = 4 THEN 0 ELSE main_r]),
    Phi(thread_c, [n \in {4, 6, 7} |-> CASE n = 4 -> 0 [] n = 6 -> main_r [] n = 7 -> 2]),
    CallWith("t1", Put(gy, thread_r)),
    Icmp(main_c, thread_r, IF faulty THEN thread_c ELSE gx), Br(main_c, 13, 10),
    Icmp(main_c, main_r, thread_c), AssertI(main_c), Ret>>,
  Fun(<<Op("ignored"), Local(main_c, gy), RetWith(Put(gx, main_c))>>))

(* an assumption cuts the paths that would fail *)
Assuming == Prog1(
  <<Input(main_r), Assume(main_r), Icmp(main_c, main_r, 0), Br(main_c, 5, 6), Op("error"),
    StoreI(gx, main_r), Ret>>)

(* a thread ends the program while another one is on its way *)
Exiting == Prog2(
  <<Create(handle1, "t1"), StoreI(gx, 1), StoreI(gx, 2), Ret>>,
  Fun(<<LoadI(thread_r, gx), Icmp(thread_c, thread_r, 2), Br(thread_c, 4, 5), Op("exit"), Ret>>))

(* on one of two branches that end alike main calls an ldv_ function *)
CallsLdv == Prog2(
  <<Create(handle1, "t1"), Input(main_r), Icmp(main_c, main_r, 0), Br(main_c, 5, 6), Op("ldv_"),
    StoreI(gx, 1), Ret>>,
  Fun(<<StoreI(gy, 1), Ret>>))

(* two threads made of short blocks, main of two and the other of one; all
   the blocks touch shared variables, and none branches on unknown data *)
Blocks(reg, flag) ==
  {<<StoreI(gx, 1)>>,
   <<LoadI(reg, gx), StoreI(gy, reg)>>,
   <<LoadI(reg, gy), Icmp(flag, reg, 1), AssertI(flag)>>,
   <<On("lock", mtx), StoreI(gx, 2), StoreI(gy, 1), On("unlock", mtx)>>,
   <<Op("atomic_begin"), StoreI(gy, 2), LoadI(reg, gx), StoreI(gy, reg), Op("atomic_end")>>,
   <<On("lock", mtx), LoadI(reg, gx), On("unlock", mtx), Local(flag, reg), StoreI(gy, flag)>>}

BlockPrograms ==
  {Prog2(<<Create(handle1, "t1")>> \o first \o second \o <<Ret>>, Fun(only \o <<Ret>>)) :
     first, second \in Blocks(main_r, main_c), only \in Blocks(thread_r, thread_c)}

RegularPrograms == BlockPrograms \cup
  {Locked(TRUE), Locked(FALSE), Sections(TRUE), Sections(FALSE), Joined, Ending, Spinning,
   Symbolic(TRUE), Symbolic(FALSE), Assuming, Exiting, CallsLdv}

(* The other thread waits for main's first store, then stores to y; main's
   second store to y may come after that one.  Of the two branches main can
   take in between, the other thread is started from one only. *)
Branching == Prog2(
  <<Create(handle1, "t1"), Input(main_r), StoreI(gx, 1), Icmp(main_c, main_r, 0),
    Br(main_c, 6, 8), StoreI(gy, 1), JumpI(9), StoreI(gy, 2), On("join", handle1),
    LoadI(main_r, gy), Icmp(main_c, main_r, 2), Br(main_c, 13, 14), Op("error"), Ret>>,
  Fun(<<LoadI(thread_r, gx), Icmp(thread_c, thread_r, 1), Spin(thread_c, 4, 1),
        StoreI(gy, 0), Ret>>))
BranchingPrograms == {Branching}

(* Two PHI nodes at the head of a loop exchange the values of two registers.
   After one round the second one is zero, and main reaches the error. *)
Exchanging == Prog1(
  <<JumpI(2), Phi(main_r, [n \in {1, 7} |-> IF n = 1 THEN 0 ELSE main_c]),
    Phi(main_c, [n \in {1, 7} |-> IF n = 1 THEN 1 ELSE main_r]),
    LoadI(thread_r, gx), Br(thread_r, 8, 6), StoreI(gx, 1), JumpBack(2),
    Br(main_c, 10, 9), Op("error"), Ret>>)
ExchangingPrograms == {Exchanging}

(* no program ends a thread inside an atomic section or starts too many, and
   no other one has a PHI node that reads what the PHI node before it writes *)
ASSUME ProgramsAreDisciplinedAssumption ==
  ProgramsAreDisciplined <=> Programs # ExchangingPrograms
ASSUME NoThreadExitsAssumption == NoThreadExits
=============================================================================
