------------------------------ MODULE MCStores ------------------------------
(* Instances of Stores: one-bit cells, a global, two threads, one function. *)
EXTENDS Stores, Propositions

MCFrame   == [globals |-> <<1>>, main |-> <<1, 1>>, other |-> <<1>>, callee |-> <<1>>]
MCThreads == <<"globals", "main", "other">>

g == Cell("globals", 1)
t == Cell("main", 1)
y == Cell("main", 2)
o == Cell("other", 1)
p == Cell("callee", 1)
Bit(n) == Constant(n, 1)

InputTo(res)         == [do |-> "Input", uses |-> {res}, res |-> res]
MoveTo(res, a)       == [do |-> "Move", uses |-> {res, a}, res |-> res, a |-> a]
Put(res, op, a, b)   == [do |-> "Compute", uses |-> {res, a, b}, op |-> op, res |-> res, a |-> a, b |-> b]
When(op, a, b)       == [do |-> "Prune", uses |-> {a, b}, op |-> op, a |-> a, b |-> b]
CallOn(a)            == [do |-> "Call", uses |-> {a}, caller |-> "main", frame |-> "callee", arg |-> a]
Leave                == [do |-> "Return", uses |-> {p}, frame |-> "callee"]
Along(guard)         == [do |-> "PropGuard", uses |-> {}, guard |-> guard]

(* what an automaton's edge says of g, which is in the segment with number 0 *)
Off == negation(binary_op("TIMP", binary_op("TEQUAL", ident(0, 1), sized(0, 1)),
                                  binary_op("TCNE", ident(0, 1), sized(0, 1))))

(***************************************************************************)
(* Inputs of both threads; what relates them, tests them and hands them to *)
(* the function; what overwrites them while conditions still speak of the  *)
(* old values; and the input again, as the body of a loop does.            *)
(***************************************************************************)
MCMenus ==
  << {InputTo(t), InputTo(o)},
     {CallOn(t), MoveTo(y, t), Put(y, "And", t, o), When("EQ", t, Bit(1))},
     {When("EQ", p, Bit(0)), When("NE", y, t), MoveTo(g, t), When("ULE", o, t)},
     {Leave, InputTo(t), Put(g, "Xor", y, o)},
     {InputTo(t), CallOn(y), When("EQ", y, Bit(1)), Along(Off)},
     {Leave, When("ULT", t, o)} >>
=============================================================================
