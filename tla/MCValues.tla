------------------------------ MODULE MCValues ------------------------------
(* Instances of Values: a global, the frames of two threads, one function. *)
EXTENDS Values

MCFrame ==
  [globals |-> <<2>>,              \* g
   main    |-> <<2, 2, 2, 1, 3>>,  \* x, y, z, c, w
   other   |-> <<2>>,              \* o
   callee  |-> <<2, 2>>]           \* its parameter p and a register r
MCThreads    == <<"globals", "main", "other">>
MCGlobalInit == <<2>>
MCMachineWidths == {2, 3}

g == Cell("globals", 1)
x == Cell("main", 1)
y == Cell("main", 2)
z == Cell("main", 3)
c == Cell("main", 4)
w == Cell("main", 5)
o == Cell("other", 1)
p == Cell("callee", 1)
r == Cell("callee", 2)
Num(n) == Constant(n, 2)

InputTo(res)          == [do |-> "Input", res |-> res]
Move(res, a)          == [do |-> "Copy", res |-> res, a |-> a]
Compute(op, res, a, b) == [do |-> "Arithmetic", op |-> op, res |-> res, a |-> a, b |-> b]
Extend(op, res, a)    == [do |-> "Convert", op |-> op, res |-> res, a |-> a]
Test(op, res, a, b)   == [do |-> "Compare", op |-> op, res |-> res, a |-> a, b |-> b]
On(kind, a)           == [do |-> kind, a |-> a]

CallOn(a) ==
  [do |-> "Call", caller |-> "main", frame |-> "callee", args |-> <<[param |-> p, arg |-> a]>>]
ReturnTo(res) == [do |-> "Return", res |-> res, a |-> r, frame |-> "callee"]

(***************************************************************************)
(* Two values, known or not, related or not; every operation on them; then *)
(* what overwrites the operands, decides on the result or calls; then the  *)
(* same cells again, as the body of a loop would.                          *)
(***************************************************************************)
MCMenus ==
  << {InputTo(x), Move(x, g), Move(x, Num(3))},
     {InputTo(y), InputTo(o), Move(y, Num(1)), Move(y, x)},
     {Compute(op, z, x, y) : op \in BinaryOps}
       \cup {Test(op, c, x, y) : op \in Predicates}
       \cup {Extend("ZExt", w, x), Extend("SExt", w, x), Extend("Trunc", c, y), Move(g, x),
             CallOn(x), [do |-> "Switch", a |-> x, cases |-> <<0, 3>>], On("Assume", x)},
     {Move(x, z), InputTo(x), Move(y, Num(2)), Compute("Add", r, p, o), Compute("Mul", r, p, p),
      [do |-> "Select", res |-> z, c |-> c, a |-> x, b |-> y],
      On("Branch", c), On("Assert", c), Test("ULT", c, w, Constant(5, 3)), Test("SGE", c, z, Num(1)),
      CallOn(Num(2))},
     {ReturnTo(z), Compute("Sub", z, x, y), Move(o, x), On("Branch", c), Extend("Trunc", z, w),
      On("Assume", z)},
     {ReturnTo(x), Test("EQ", c, z, x), Test("SLT", c, x, y), On("Assert", z)} >>
=============================================================================
