---------------------------- MODULE MCEvaluator ----------------------------
(* Programs for Evaluator: the matrix of pending operations, each waiting on
   a slow call, and the programs of the disagreements. *)
EXTENDS Evaluator

I(n) == <<"lit", Int_(n)>>
V(n) == <<"path", n>>
Bin(l, op, r) == <<"binary", op, l, r>>
If(c, t, f) == <<"if", c, t, f>>
Call(f, x) == <<"call", f, <<x>> >>
Let(n, x) == <<n, x>>
Fun(input, defs) == [inputs |-> <<input>>, defs |-> defs, outputs |-> {"result"}]
Result(input, x) == Fun(input, << Let("result", x) >>)

Down(n) == Bin(V(n), "-", I(1))

\* walker = recur go: function k: if k <= 0: 7 else: go(k - 1)
Walker == Let("walker", <<"recur", "go", "k", If(Bin(V("k"), "<=", I(0)), I(7), Call("go", Down("k"))), {}>>)
Walk == Call("walker", V("n"))
Main(defs) == Fun("n", <<Walker>> \o defs)
Walks(x) == Main(<< Let("result", x) >>)
Flags == Let("flags", <<"machine", "buffer", <<I(1), I(0)>> >>)
Flag == <<"index", V("flags"), I(0)>>
Pair(l, r) == <<"record", "Pair", << <<"left", l>>, <<"right", r>> >> >>
Pick(n, r) == <<"field", n, r>>
Quote(x, free) == <<"quote", x, free>>

Fns ==
  [right    |-> Walks(Bin(<<"evaluate", Quote(Bin(I(1), "+", I(2)), {})>>, "+", Walk)),
   left     |-> Walks(Bin(Walk, "+", I(3))),
   named    |-> Walks(Bin(I(3), "+", Call("Slow", V("n")))),
   unary    |-> Walks(<<"neg", Walk>>),
   index    |-> Walks(<<"index", <<"list", <<I(2), I(5)>> >>, Bin(Walk, "-", I(7))>>),
   cond     |-> Walks(If(Bin(Walk, "=", I(7)), I(11), I(22))),
   then     |-> Walks(If(Bin(I(0), "<=", V("n")), Bin(Walk, "+", I(3)), I(0))),
   sequence |-> Main(<< Let("items", <<"list", <<I(3), Walk>> >>),
                        Let("result", Bin(<<"index", V("items"), I(0)>>, "+", <<"index", V("items"), I(1)>>)) >>),
   record   |-> Main(<< Let("packed", Pair(I(3), Walk)),
                        Let("result", Bin(Pick("left", V("packed")), "+", Pick("right", V("packed")))) >>),
   match    |-> Walks(<<"match", Walk, << <<I(7), I(11)>> >>, I(22)>>),
   bound    |-> Walks(<<"match", Walk, << <<I(6), I(0)>>, <<<<"bind", "w">>, Bin(V("w"), "+", Walk)>> >>, I(22)>>),
   open     |-> Main(<< Let("packed", <<"record", "Box", << <<"repr", I(7)>> >> >>),
                        Let("result", <<"open", "Box", "value", V("packed"), Bin(V("value"), "+", Walk)>>) >>),
   effects  |-> Main(<< Flags, Let("sum", Bin(Call("Bump", V("flags")), "+", Walk)),
                        Let("result", Bin(V("sum"), "+", Bin(Flag, "*", I(100)))) >>),
   machine  |-> Main(<< Flags, Let("quotient", <<"machine", "int_quot", <<Call("Bump", V("flags")), Walk>> >>),
                        Let("result", Bin(V("quotient"), "+", Bin(Flag, "*", I(100)))) >>),
   shorted  |-> Walks(Bin(Bin(Walk, "=", I(0)), "and", V("trap"))),
   captured |-> Main(<< Let("one", Call("adder", I(1))), Let("two", Call("adder", V("n"))),
                        Let("result", Bin(Call("one", I(3)), "+", Bin(Walk, "*", Call("two", I(3))))) >>),
   cases    |-> Walks(<<"cases", << <<Bin(Walk, "=", I(6)), I(1)>>, <<Bin(I(7), "=", Walk), I(4)>> >>, I(0)>>),
   packed   |-> Main(<< Let("vec", <<"pack", "Vec", <<I(2), <<"list", <<I(3), Walk>> >> >> >>),
                        Let("result", <<"index", Pick("data", V("vec")), I(1)>>) >>),
   valued   |-> Main(<< Let("f", V("Slow")), Let("result", Bin(Call("f", V("n")), "+", Walk)) >>),
   curried  |-> Fun("n", << Let("f", V("plus")), Let("result", <<"call", "f", <<I(1), V("n")>> >>) >>),
   plus     |-> [inputs |-> <<"a", "b">>, defs |-> << Let("result", Bin(V("a"), "+", Call("Slow", V("b")))) >>,
                 outputs |-> {"result"}],
   several  |-> Main(<< Let("both", Call("parts", V("n"))),
                        Let("result", Bin(Pick("lo", V("both")), "+", Pick("hi", V("both")))) >>),
   parts    |-> [inputs |-> <<"n">>, defs |-> << Let("lo", Bin(V("n"), "+", I(1))), Let("hi", Call("Slow", V("n"))) >>,
                 outputs |-> {"lo", "hi"}],
   measured |-> Main(<< Let("cost", <<"cost", <<"function", "x", Bin(V("x"), "+", V("n")), {"n"}>>, V("n"), I(9)>>),
                        Let("result", Bin(Pick("work", V("cost")), "+", Walk)) >>),
   shared   |-> Main(<< Let("pair", <<"list", <<V("n"), Walk>> >>), Let("one", Call("fact_head", V("pair"))),
                        Let("result", Bin(V("one"), "+", Call("fact_head", V("pair")))) >>),
   fact_head |-> Result("pair", Call("Slow", <<"index", V("pair"), I(0)>>)),
   grown    |-> Result("n", <<"call", "build", <<<<"list", <<I(3)>> >>, V("n")>> >>),
   build    |-> [inputs |-> <<"xs", "k">>, outputs |-> {"result"},
                 defs |-> << Let("result", If(Bin(V("k"), "<=", I(0)), V("xs"),
                                              <<"call", "build", <<<<"cons", V("xs"), <<"list", <<Call("Slow", V("k"))>> >>, TRUE>>,
                                                                   Down("k")>>, {"xs"}>>)) >>],
   unbound  |-> Walks(Bin(Walk, "+", <<"evaluate", Quote(Bin(V("n"), "+", Call("sum", I(1))), {"n", "sum"})>>)),
   negative |-> Main(<< Let("size", Bin(Walk, "-", I(8))),
                        Let("result", <<"machine", "buffer", <<V("size"), I(0)>> >>) >>),
   deep     |-> Result("n", Bin(I(1), "+", Call("deep", V("n")))),
   sum      |-> Result("n", If(Bin(V("n"), "<=", I(0)), I(0), Bin(V("n"), "+", Call("sum", Down("n"))))),
   adder    |-> Result("k", <<"function", "x", Bin(V("x"), "+", V("k")), {"k"}>>),
   Slow     |-> Result("n", If(Bin(V("n"), "<=", I(0)), I(7), Call("Slow", Down("n")))),
   Bump     |-> Fun("flags", << Let("wrote", <<"machine", "buffer_set", <<V("flags"), I(0), Bin(Flag, "+", I(1))>> >>),
                                Let("result", Flag) >>),
   fib      |-> Result("n", If(Bin(V("n"), "<=", I(1)), V("n"),
                               Bin(Call("fib", Down("n")), "+", Call("fib", Bin(V("n"), "-", I(2)))))),
   tree     |-> Result("n", If(Bin(V("n"), "<=", I(1)), V("n"),
                               Bin(Call("tree", Down("n")), "+", Call("Slow", V("n"))))),
   inv      |-> Main(<< Let("packed", <<"record", "Kept", << <<"lo", I(1)>>, <<"hi", Walk>> >> >>),
                        Let("result", Pick("hi", V("packed"))) >>),
   range    |-> Main(<< Let("items", <<"range", I(6), If(Bin(I(0), "<=", V("n")), I(8), I(9))>>),
                        Let("result", <<"index", V("items"), I(1)>>) >>),
   scoped   |-> Main(<< Let("box", <<"record", "Box", << <<"repr", I(7)>> >> >>),
                        Let("y", Bin(<<"open", "Box", "n", V("box"), Bin(V("n"), "+", I(1))>>, "+", Call("inner", V("box")))),
                        Let("result", Bin(V("n"), "*", V("y"))) >>),
   inner    |-> Result("box", <<"open", "Box", "m", V("box"), Bin(V("m"), "+", I(1))>>),
   quoted   |-> Main(<< Let("result", <<"evaluate", Quote(Call("sum", I(7)), {"sum"})>>) >>),
   failing  |-> Main(<< Let("box", <<"pack", "Box", <<I(7)>> >>),
                        Let("y", Bin(Bin(<<"open", "Box", "n", V("box"), Bin(V("n"), "+", Call("walker", I(1)))>>, "+",
                                         Pick("work", <<"cost", <<"function", "x", <<"open", "Box", "m", V("x"), V("trap")>>, {}>>, V("box"), I(9)>>)),
                                     "+", Call("walker", I(1)))),
                        Let("result", Bin(V("n"), "*", V("y"))) >>),
   replay   |-> Main(<< Flags, Let("add", <<"function", "x", Bin(V("x"), "+", I(1)), {}>>),
                        Let("y", Bin(I(1), "+", Call("add", Call("Bump", V("flags"))))),
                        Let("result", Bin(V("y"), "+", Bin(Flag, "*", I(100)))) >>)
  ]

Type(kind, invariants) == [kind |-> kind, invariants |-> invariants]

Objs == [Pair |-> Type("record", <<>>),
         Box  |-> Type("abstract", <<>>),
         Vec  |-> Type("package", << Bin(I(0), "<=", V("n")) >>),
         Kept |-> Type("record", << Bin(V("lo"), "<=", V("hi")), Bin(I(0), "<=", V("lo")) >>)]

On(names) == {<<f, <<Int_(2)>> >> : f \in names}

\* One program for each operation that can wait, and three that end in a fault.
Matrix == On({"right", "left", "named", "unary", "index", "cond", "then", "sequence", "record",
              "match", "bound", "open", "effects", "machine", "shorted", "tree", "captured",
              "cases", "packed", "valued", "several", "measured", "shared", "grown", "deep", "unbound", "negative"})

\* The programs on which a resume and a straight run part.
Efib == {<<"fib", <<Int_(4)>> >>}
Einv == On({"inv"})
Erange == On({"range"})
Escoped == On({"scoped"})
Ereplay == On({"replay"})
Ecurried == On({"curried"})
Equoted == On({"quoted"})
Egrown == {<<"grown", <<Int_(6)>> >>}
Efailing == On({"failing"})
=============================================================================
