------------------------------ MODULE Evaluator ------------------------------
(***************************************************************************)
(* The resumable evaluator of emath-exec-ir (constructor_layer): a program *)
(* runs under a work limit; when the limit is hit the evaluation unwinds   *)
(* and leaves, in each frame, the operations that were waiting (konts).    *)
(* The engine is then saved, and a later call resumes it under a new       *)
(* limit from those frames.                                                *)
(*                                                                         *)
(* Evaluation is a function of the engine, so it is written as recursive   *)
(* operators that take an engine and return [e |-> engine, v |-> value];   *)
(* the steps of the specification are the calls a host makes: one run, then*)
(* resumes, each with any slice of work; or runs that start over and carry *)
(* the facts found so far.  Values, expressions and faults are tuples whose*)
(* first member is a tag.                                                  *)
(***************************************************************************)
EXTENDS Integers, Sequences, SequencesExt, FiniteSetsExt, TLC

CONSTANTS
    Functions,   \* name |-> [inputs, defs: seq of <<name, expr>>, outputs]
    Facts,       \* names of the fact functions
    Objects,     \* record type |-> [kind, invariants: predicates over its fields]
    MaxDepth,    \* calls that may be open at once
    Entries,     \* the calls a host starts: <<name, arguments>>
    Slices,      \* units of work granted to a run or to a resume
    MaxResumes,  \* bound on the resumes of one evaluation
    Rework       \* units of work a resume of these programs may repeat

VARIABLES
    entry,       \* the call being evaluated
    engine,      \* the engine as the last checkpoint saved it
    outcome,     \* its value or fault, or Pending
    resumes      \* resumes made so far

vars == <<entry, engine, outcome, resumes>>

-----------------------------------------------------------------------------
(* Results, values and the engine                                          *)

Ok(e, v)    == [e |-> e, v |-> v]
Fault(code) == <<"fault", code>>
Unit        == <<"unit", 0>>
Pending     == <<"pending", 0>>
Int_(n)     == <<"int", n>>
Bool(b)     == <<"bool", b>>

Failed(r)    == r.v[1] = "fault"
Exhausted(r) == r.v = Fault("budget_exhausted")

Then(r, F(_, _)) == IF Failed(r) THEN r ELSE F(r.e, r.v)

Charge(e) ==
    LET spent == [e EXCEPT !.work = @ + 1]
    IN  Ok(spent, IF spent.work > spent.limit THEN Fault("budget_exhausted") ELSE Unit)

Top(e)      == Len(e.frames)
Bind(e, n, v) == [e EXCEPT !.env = (n :> v) @@ @]

\* The memo policy of a run that never suspends (facts_only_memo): frames keep
\* nothing for a resume.
Pin(e) == IF e.facts THEN e ELSE [e EXCEPT !.frames[Top(e)].env = e.env]

\* Mutant: the definition a frame has reached is not recorded.
PinOnly(e, n) == Pin(e)

SetNext(e, n) == IF e.facts THEN e ELSE [Pin(e) EXCEPT !.frames[Top(e)].next = n]

Push(e, name, kind) ==
    [e EXCEPT !.frames = Append(@, [function |-> name, kind |-> kind, next |-> "",
                                    env |-> IF e.facts THEN <<>> ELSE e.env, kont |-> <<>>])]

Pop(e) == [e EXCEPT !.frames = Front(@)]

\* A call: its frame, one level down, unless the cap is reached.  It returns
\* with the caller's bindings back, and its frame goes unless the work ran out
\* inside it.
Descend(e, name, kind) == [Push(e, name, kind) EXCEPT !.depth = @ + 1]

Ascend(e, r) ==
    LET back == [r.e EXCEPT !.env = e.env]
    IN  [r EXCEPT !.e = IF Exhausted(r) THEN back ELSE [Pop(back) EXCEPT !.depth = @ - 1]]

Call_(e, name, kind, Body(_)) ==
    IF e.depth >= MaxDepth THEN Ok(e, Fault("recursion_depth_exceeded"))
    ELSE LET r == Body(Descend(e, name, kind)) IN Ascend(e, r)

Position(e) == <<Top(e), Len(e.frames[Top(e)].kont)>>

\* Mutant: the waiting operations go above what the child left.
InsertKontsOnTop(r, at, konts) ==
    IF at[1] > Top(r.e) THEN r
    ELSE [r EXCEPT !.e.frames[at[1]].kont = @ \o konts]

\* The waiting operations go below what the child left, in the frame that was
\* current when the child started.
InsertKonts(r, at, konts) ==
    IF r.e.facts \/ at[1] > Top(r.e) THEN r
    ELSE [r EXCEPT !.e.frames[at[1]].kont =
            LET depth == Min({at[2], Len(@)})
            IN  SubSeq(@, 1, depth) \o konts \o SubSeq(@, depth + 1, Len(@))]

Again(x) == [k |-> "EvalExpr", x |-> x]

Scalar(v) == v[1] \in {"int", "bool"}

RECURSIVE Memoizable(_)
Memoizable(v) ==
    CASE v[1] = "seq"    -> \A i \in DOMAIN v[2] : Memoizable(v[2][i])
      [] v[1] = "record" -> \A f \in DOMAIN v[3] : Memoizable(v[3][f])
      [] OTHER           -> v[1] \notin {"closure", "code", "buffer"}

Remember(e, keyed, key, v) ==
    IF ~keyed \/ ~Memoizable(v) THEN e
    ELSE [e EXCEPT !.memo = IF e.facts THEN @ @@ (key :> v) ELSE (key :> v) @@ @]

Keyed(name, vals) ==
    \A i \in DOMAIN vals : Scalar(vals[i]) \/ (name \in Facts /\ Memoizable(vals[i]))

\* A caller whose result is a tail call is remembered with it.
TailKeyed(e, name, vals) == (name \in Facts \/ e.facts) /\ Keyed(name, vals)

ClosureKeyed(e, c, arg) ==
    /\ ~e.facts \/ c.self # ""
    /\ Scalar(arg)
    /\ \A n \in DOMAIN c.env : Scalar(c.env[n])

MultiOutput(name) == Cardinality(Functions[name].outputs) > 1

FunctionResult(e, name) ==
    LET outs == Functions[name].outputs
    IN  Ok(e, IF ~(outs \subseteq DOMAIN e.env) THEN Fault("unbound")
              ELSE IF MultiOutput(name) THEN <<"record", name, Restrict(e.env, outs)>>
              ELSE e.env[CHOOSE out \in outs : TRUE])

\* While the arguments of a tail call are evaluated, a list that a name read
\* nowhere else binds is taken out of the environment as a cons reads it.
NoMove == [names |-> {}, env |-> <<>>]

Release(e, x, v) ==
    LET Without(env) == Restrict(env, DOMAIN env \ {x[2]})
    IN  IF /\ x[1] = "path" /\ v[1] = "seq"
           /\ x[2] \in e.move.names \cap DOMAIN e.env
           /\ e.env = e.move.env /\ e.env[x[2]] = v
          THEN [e EXCEPT !.env = Without(@), !.move.env = Without(@),
                         !.frames[Top(e)].env = Without(@)]
          ELSE e

-----------------------------------------------------------------------------
(* Primitive operations on values                                          *)

Arith(op, l, r) ==
    IF l[1] # "int" \/ r[1] # "int" THEN
        IF op = "=" /\ l[1] = r[1] THEN Bool(l = r) ELSE Fault("type")
    ELSE CASE op = "+"  -> Int_(l[2] + r[2])
           [] op = "-"  -> Int_(l[2] - r[2])
           [] op = "*"  -> Int_(l[2] * r[2])
           [] op = "<=" -> Bool(l[2] <= r[2])
           [] op = "="  -> Bool(l[2] = r[2])

IndexOf(e, s, i) ==
    LET items == IF s[1] = "buffer" THEN e.heap[s[2]] ELSE s[2]
    IN  IF i[1] # "int" THEN Fault("type")
        ELSE IF i[2] + 1 \in DOMAIN items THEN items[i[2] + 1] ELSE Fault("invalid_index")

JoinValues(front, back, spread) ==
    IF back[1] # "seq" \/ (spread /\ front[1] # "seq") THEN Fault("type")
    ELSE <<"seq", (IF spread THEN front[2] ELSE <<front>>) \o back[2]>>

\* The arguments evaluated so far of a machine operation; a wrong one is
\* refused before the next is evaluated.
Admitted(op, done) ==
    \A i \in DOMAIN done :
        CASE op = "buffer"     -> i = 1 => done[i][1] = "int"
          [] op = "buffer_set" -> /\ i = 1 => done[i][1] = "buffer"
                                  /\ i = 2 => done[i][1] = "int"
          [] OTHER             -> done[i][1] = "int"

ApplyMachine(e, op, args) ==
    CASE op = "buffer" ->
            IF args[1][2] \in 0 .. 4000000
              THEN Ok([e EXCEPT !.heap = Append(@, [i \in 1 .. args[1][2] |-> args[2]])],
                      <<"buffer", Len(e.heap) + 1>>)
              ELSE Ok(e, Fault(IF args[1][2] < 0 THEN "invalid_index" ELSE "overflow"))
      [] op = "buffer_set" ->
            IF args[2][2] + 1 \notin DOMAIN e.heap[args[1][2]]
              THEN Ok(e, Fault("invalid_index"))
              ELSE Ok([e EXCEPT !.heap[args[1][2]][args[2][2] + 1] = args[3]], Unit)
      [] op = "int_quot" ->
            Ok(e, IF args[2][2] = 0 THEN Fault("division_by_zero")
                  ELSE Int_(args[1][2] \div args[2][2]))

-----------------------------------------------------------------------------
(* Evaluation                                                              *)

\* What refers back to evaluation goes through one operator, which takes a job.
RECURSIVE Do(_, _)
Eval(e, x)               == Do(e, <<"eval", x>>)
EvalTail(e, x)           == Do(e, <<"tail", x>>)
ApplyFn(e, name, vals)   == Do(e, <<"function", name, vals>>)
ApplyValue(e, f, args)   == Do(e, <<"value", f, args>>)
Evaluate(e, call)        == Do(e, <<"host", call>>)
FinishFromStack(e)       == Do(e, <<"stack">>)

Waiting(r, at, konts) == IF Failed(r) THEN InsertKonts(r, at, konts) ELSE r
EvalWith(e, x, konts) == Waiting(Eval(e, x), Position(e), konts)

\* The body of a binder: `saved` is what the caller goes back to.
EvalScoped(e, body, saved) ==
    LET r == EvalWith(Pin(e), body, <<[k |-> "RestoreEnv", env |-> saved], Again(body)>>)
        back == [r.e EXCEPT !.env = saved, !.swapped = @ \/ Failed(r)]
    IN  [r EXCEPT !.e = IF Failed(r) THEN back ELSE Pin(back)]

\* Items left to right, for an operation waiting on all of them.
RECURSIVE EvalItems(_, _)
EvalItems(e, kont) ==
    IF kont.k = "MachineCall" /\ ~Admitted(kont.name, kont.done) THEN Ok(e, Fault("type"))
    ELSE IF kont.rest = <<>> THEN Ok(e, <<"items", kont.done>>)
    ELSE LET item == Head(kont.rest)
             waiting == [kont EXCEPT !.rest = Tail(@)]
         IN  Then(EvalWith(e, item, <<waiting, Again(item)>>),
                  LAMBDA d, v : EvalItems(d, [waiting EXCEPT !.done = Append(@, v)]))

RECURSIVE Fields(_, _), Invariants(_, _)
Fields(e, kont) ==
    IF kont.rest = <<>> THEN Ok(e, <<"fields", kont.done>>)
    ELSE LET field == Head(kont.rest)
             waiting == [kont EXCEPT !.rest = Tail(@), !.current = field[1], !.x = field[2]]
         IN  Then(EvalWith(e, field[2], <<waiting, Again(field[2])>>),
                  LAMBDA d, v : Fields(d, [waiting EXCEPT !.done = (field[1] :> v) @@ @]))

Checked(e, kont, v) ==
    IF v = Bool(TRUE) THEN Invariants(e, kont) ELSE Ok(e, Fault("object_invariant_failed"))

Invariants(e, kont) ==
    IF kont.rest = <<>> THEN Ok(e, <<"record", kont.type, kont.fields>>)
    ELSE LET predicate == Head(kont.rest)
             waiting == [kont EXCEPT !.rest = Tail(@), !.x = predicate]
         IN  Then(EvalWith(e, predicate, <<waiting, Again(predicate)>>),
                  LAMBDA d, v : Checked(d, waiting, v))

FinishInvariants(e, kont) == [Invariants(e, kont) EXCEPT !.e.env = kont.env]

\* A record, once its type's invariants hold of its fields.
FinishRecord(e, type, fields) ==
    LET waiting == [k |-> "RecordInvariant", type |-> type, fields |-> fields,
                    rest |-> Objects[type].invariants, x |-> <<>>, env |-> e.env]
    IN  IF waiting.rest = <<>> THEN Ok(e, <<"record", type, fields>>)
        ELSE FinishInvariants(Pin([e EXCEPT !.env = fields @@ @]), waiting)

\* Its fields in source order.
FinishFields(e, kont) ==
    Then(Fields(e, kont), LAMBDA d, v : FinishRecord(d, kont.type, v[2]))

Pack(e, type, vals) ==
    CASE Objects[type].kind = "abstract" ->
            Ok(e, IF Len(vals) # 1 THEN Fault("arity")
                  ELSE <<"record", type, [repr |-> vals[1]]>>)
      [] Objects[type].kind = "package" ->
            IF Len(vals) < 2 THEN Ok(e, Fault("arity"))
            ELSE IF vals[1][1] = "int" /\ vals[2][1] = "seq" /\ vals[1][2] # Len(vals[2][2])
              THEN Ok(e, Fault("invalid_index"))
            ELSE FinishRecord(e, type, [n |-> vals[1], data |-> vals[2]])
      [] OTHER -> Ok(e, Fault("type"))

FinishItems(e, kont) ==
    Then(EvalItems(e, kont),
         LAMBDA d, v : CASE kont.k = "SeqItems"    -> Ok(d, <<"seq", v[2]>>)
                         [] kont.k = "PackArgs"    -> Pack(d, kont.type, v[2])
                         [] kont.k = "MachineCall" -> ApplyMachine(d, kont.name, v[2])
                         [] kont.k = "FnCall"      -> ApplyFn(d, kont.name, v[2])
                         [] kont.k = "CallArgs"    -> ApplyValue(d, kont.callee, v[2]))

Pending_(k, rest) == [k |-> k, done |-> <<>>, rest |-> rest]
FnCall(name, args) == Pending_("FnCall", args) @@ [name |-> name]
CallArgs(callee, args) == Pending_("CallArgs", args) @@ [callee |-> callee]
MachineCall(op, args) == Pending_("MachineCall", args) @@ [name |-> op]
PackArgs(type, args) == Pending_("PackArgs", args) @@ [type |-> type]

EvalFn(e, name, args) ==
    IF Len(args) # Len(Functions[name].inputs) THEN Ok(e, Fault("arity"))
    ELSE Call_(e, name, "Function", LAMBDA inside : FinishItems(inside, FnCall(name, args)))

Closure(e, name) == name \in DOMAIN e.env /\ e.env[name][1] = "closure"

EvalCall(e, name, args) ==
    IF Closure(e, name)
      THEN IF Len(args) = 1
             THEN Then(Charge(e), LAMBDA c, u : FinishItems(c, CallArgs(e.env[name], args)))
             ELSE Then(EvalWith(e, <<"path", name>>,
                                <<[k |-> "CallCallee", x |-> <<"path", name>>, args |-> args]>>),
                       LAMBDA d, f : FinishItems(d, CallArgs(f, args)))
      ELSE IF name \in DOMAIN Functions THEN EvalFn(e, name, args)
      ELSE Ok(e, Fault("unbound"))

\* Quoted code runs in no environment, in a frame of its own, which does not
\* count as a call; without a frame in a run that never suspends.  Code with a
\* free name that is no function is refused.  A function it names is the one
\* it was quoted with: Functions does not change, and stale_dependency is not met.
EvalCode(e, code) ==
    IF code[1] # "code" THEN Ok(e, code)
    ELSE IF ~(code[3] \subseteq DOMAIN Functions) THEN Ok(e, Fault("unbound_code"))
    ELSE LET closed == [e EXCEPT !.env = <<>>]
             inside == IF e.facts THEN closed ELSE Push(closed, "__quote", "Expression")
             r == EvalWith(inside, code[2], <<Again(code[2])>>)
             back == [r.e EXCEPT !.env = e.env, !.swapped = @ \/ Failed(r)]
         IN  [r EXCEPT !.e = IF e.facts \/ Exhausted(r) THEN back ELSE Pop(back)]

\* quote.cost: f applied to x under a limit of its own, from an empty memo
\* which is dropped afterwards; a fault is a measurement, unless it is the
\* work of the whole run that ran out.
MeasureCost(e, f, x, limit) ==
    LET r == ApplyValue([e EXCEPT !.memo = <<>>, !.facts = TRUE,
                                  !.limit = Min({@, e.work + limit})], f, <<x>>)
        work == r.e.work - e.work
        back == [e EXCEPT !.work = r.e.work, !.heap = r.e.heap, !.swapped = r.e.swapped]
    IN  Ok(back,
           IF Exhausted(r) /\ r.e.work > e.limit THEN r.v
           ELSE <<"record", "Cost",
                  IF Failed(r)
                    THEN [done |-> Bool(FALSE), work |-> Int_(Min({work, limit})),
                          fault |-> <<"str", r.v[2]>>]
                    ELSE [done |-> Bool(TRUE), work |-> Int_(work), value |-> r.v]>>)

EvalCost(e, x) ==
    Then(Then(Eval(e, x[2]), EvalCode), LAMBDA d, f :
        Then(Eval(d, x[3]), LAMBDA g, input :
            Then(Eval(g, x[4]), LAMBDA h, limit :
                IF limit[1] = "int" /\ limit[2] >= 0 THEN MeasureCost(h, f, input, limit[2])
                ELSE Ok(h, Fault("type")))))

ShortCircuit(op, l) ==
    \/ op = "and" /\ l = Bool(FALSE)
    \/ op = "or"  /\ l = Bool(TRUE)

FinishBinary(e, op, l, r) ==
    Ok(e, IF op \notin {"and", "or"} THEN Arith(op, l, r)
          ELSE IF r[1] = "bool" THEN r ELSE Fault("type"))

FinishBinaryLeft(e, op, l, right) ==
    IF op \in {"and", "or"} /\ l[1] # "bool" THEN Ok(e, Fault("type"))
    ELSE IF ShortCircuit(op, l) THEN Ok(e, l)
    ELSE Then(EvalWith(e, right, <<[k |-> "BinRight", x |-> right, op |-> op, left |-> l]>>),
              LAMBDA d, r : FinishBinary(d, op, l, r))

FinishIf(e, c, x) ==
    CASE c = Bool(TRUE)  -> EvalWith(e, x[3], <<[k |-> "IfThen", x |-> x[3]]>>)
      [] c = Bool(FALSE) -> EvalWith(e, x[4], <<[k |-> "IfElse", x |-> x[4]]>>)
      [] OTHER           -> Ok(e, Fault("type"))

FinishIndex(e, s, index) ==
    IF s[1] \notin {"seq", "buffer"} THEN Ok(e, Fault("type"))
    ELSE Then(EvalWith(e, index, <<[k |-> "IndexAfterSeq", x |-> index, seq |-> s]>>),
              LAMBDA d, i : Ok(d, IndexOf(d, s, i)))

\* A pattern is <<"bind", name>>, which takes the scrutinee, or an expression
\* whose value is compared with it.
PatternBinds(e, scrutinee, pattern) ==
    IF pattern[1] = "bind" THEN Ok(Bind(e, pattern[2], scrutinee), Bool(TRUE))
    ELSE Then(Eval(e, pattern),
              LAMBDA d, v : Ok(d, IF v[1] = "bool" THEN v ELSE Bool(v = scrutinee)))

RECURSIVE MatchArms(_, _)
TakeArm(e, kont, taken) ==
    LET value == Head(kont.arms)[2]
    IN  IF taken THEN EvalWith(Pin(e), value, <<Again(value)>>)
        ELSE MatchArms(e, [kont EXCEPT !.arms = Tail(@)])

MatchArms(e, kont) ==
    IF kont.arms = <<>> THEN EvalWith(e, kont.otherwise, <<Again(kont.otherwise)>>)
    ELSE LET r == PatternBinds(e, kont.scrutinee, Head(kont.arms)[1])
         IN  IF Failed(r) THEN InsertKonts(r, Position(e), <<kont>>)
             ELSE TakeArm(r.e, kont, r.v = Bool(TRUE))

ChooseMatch(e, scrutinee, x) ==
    MatchArms(e, [k |-> "MatchArm", scrutinee |-> scrutinee, arms |-> x[3], otherwise |-> x[4]])

FinishCons(e, head, x) ==
    Then(EvalWith(e, x[3], <<[k |-> "ConsAfterHead", x |-> x[3], cons |-> x, head |-> head]>>),
         LAMBDA d, back : Ok(Release(d, x[3], back), JoinValues(head, back, x[4])))

\* Arms without a scrutinee: the first whose condition holds.
RECURSIVE CasesArms(_, _, _)
TakeCase(e, kont, c) ==
    CASE c = Bool(TRUE)  -> EvalWith(e, kont.value, <<Again(kont.value)>>)
      [] c = Bool(FALSE) -> CasesArms(e, kont.rest, kont.otherwise)
      [] OTHER           -> Ok(e, Fault("type"))

CasesArms(e, arms, otherwise) ==
    IF arms = <<>> THEN EvalWith(e, otherwise, <<Again(otherwise)>>)
    ELSE LET cond == Head(arms)[1]
             kont == [k |-> "CasesArm", x |-> cond, value |-> Head(arms)[2],
                      rest |-> Tail(arms), otherwise |-> otherwise]
         IN  Then(EvalWith(e, cond, <<kont>>), LAMBDA d, c : TakeCase(d, kont, c))

\* open type name = packed: body.  An abstract object opens to its
\* representation, another to itself.
FinishOpen(e, x, packed) ==
    IF packed[1] # "record" THEN Ok(e, Fault("type"))
    ELSE IF packed[2] # x[2] THEN Ok(e, Fault("type"))
    ELSE LET opened == IF Objects[x[2]].kind = "abstract" THEN packed[3]["repr"] ELSE packed
         IN  EvalScoped(Bind(e, x[3], opened), x[5], e.env)

FinishProject(e, name, v) ==
    Ok(e, IF v[1] = "record" /\ name \in DOMAIN v[3] THEN v[3][name] ELSE Fault("unbound"))

Upto(from, to) ==
    IF from[1] # "int" \/ to[1] # "int" THEN Fault("type")
    ELSE <<"seq", [i \in 1 .. (to[2] - from[2] + 1) |-> Int_(from[2] + i - 1)]>>

Lambda(param, body, self, env) ==
    <<"closure", [param |-> param, body |-> body, self |-> self, env |-> env]>>

\* A named function as a value: a curried closure over its inputs that calls it.
FunctionValue(name) ==
    LET inputs == Functions[name].inputs
        call == <<"call", name, [i \in DOMAIN inputs |-> <<"path", inputs[i]>>]>>
        body == FoldRight(LAMBDA input, inner : <<"function", input, inner, ToSet(inputs)>>,
                          Tail(inputs), call)
    IN  Lambda(Head(inputs), body, "", <<>>)

PathValue(e, name) ==
    IF name \in DOMAIN e.env THEN e.env[name]
    ELSE IF name \in DOMAIN Functions THEN FunctionValue(name)
    ELSE Fault("unbound")

EvalFresh(e, x) ==
    CASE x[1] = "lit"   -> Ok(e, x[2])
      [] x[1] = "path"  -> Ok(e, PathValue(e, x[2]))
      [] x[1] = "neg"   ->
            Then(EvalWith(e, x[2], <<[k |-> "UnaryAfter", x |-> x[2]]>>),
                 LAMBDA d, v : Ok(d, Arith("-", Int_(0), v)))
      [] x[1] = "binary" ->
            Then(EvalWith(e, x[3], <<[k |-> "BinLeft", x |-> x[3], op |-> x[2], right |-> x[4]]>>),
                 LAMBDA d, l : FinishBinaryLeft(d, x[2], l, x[4]))
      [] x[1] = "if"    ->
            Then(EvalWith(e, x[2], <<[k |-> "IfAfterCond", x |-> x[2], if |-> x]>>),
                 LAMBDA d, c : FinishIf(d, c, x))
      [] x[1] = "list"  -> FinishItems(e, Pending_("SeqItems", x[2]))
      [] x[1] = "cons"  ->
            Then(EvalWith(e, x[2], <<[k |-> "ConsLeft", x |-> x[2], cons |-> x]>>),
                 LAMBDA d, head : FinishCons(Release(d, x[2], head), head, x))
      [] x[1] = "index" ->
            Then(EvalWith(e, x[2], <<[k |-> "IndexBeforeSeq", x |-> x[2], index |-> x[3]]>>),
                 LAMBDA d, s : FinishIndex(d, s, x[3]))
      [] x[1] = "record" ->
            FinishFields(e, [k |-> "RecordFields", type |-> x[2], done |-> <<>>, rest |-> x[3],
                             current |-> "", x |-> <<>>])
      [] x[1] = "field" ->
            Then(EvalWith(e, x[3], <<[k |-> "ProjectField", x |-> x[3], name |-> x[2]]>>),
                 LAMBDA d, v : FinishProject(d, x[2], v))
      [] x[1] = "open"  ->
            Then(EvalWith(e, x[4], <<[k |-> "OpenAfterPacked", x |-> x[4], open |-> x]>>),
                 LAMBDA d, v : FinishOpen(d, x, v))
      [] x[1] = "match" ->
            Then(EvalWith(e, x[2], <<[k |-> "MatchWaiting", x |-> x[2], match |-> x]>>),
                 LAMBDA d, v : ChooseMatch(d, v, x))
      [] x[1] = "cases"    -> CasesArms(e, x[2], x[3])
      [] x[1] = "pack"     -> FinishItems(e, PackArgs(x[2], x[3]))
      [] x[1] = "function" ->
            Ok(e, Lambda(x[2], x[3], "", Restrict(e.env, x[4] \cap DOMAIN e.env)))
      [] x[1] = "recur" ->
            Ok(e, Lambda(x[3], x[4], x[2], Restrict(e.env, x[5] \cap DOMAIN e.env)))
      [] x[1] = "cost"  -> EvalCost(e, x)
      [] x[1] = "quote" -> Ok(e, <<"code", x[2], x[3]>>)
      [] x[1] = "evaluate" -> Then(Eval(e, x[2]), LAMBDA d, v : EvalCode(d, v))
      [] x[1] = "range" ->
            Then(Eval(e, x[2]),
                 LAMBDA d, from : Then(Eval(d, x[3]), LAMBDA g, to : Ok(g, Upto(from, to))))
      [] x[1] = "machine" -> FinishItems(e, MachineCall(x[2], x[3]))
      [] x[1] = "call"  -> EvalCall(e, x[2], x[3])

\* A call has a fourth member when an argument of it is a cons: the names its
\* arguments read once.
StartMove(e, x) == [e EXCEPT !.move = [names |-> x[4], env |-> e.env]]

Moving(e, x, Args(_)) ==
    IF Len(x) < 4 THEN Args(e) ELSE [Args(StartMove(e, x)) EXCEPT !.e.move = e.move]

\* An expression in tail position: a call of a function or of a local closure
\* is handed back, <<"tail", name, args>> or <<"apply", closure, args>>, for
\* the caller's frame to be reused.
EvalTailFresh(e, x) ==
    CASE x[1] = "if" ->
            Then(EvalWith(e, x[2], <<[k |-> "IfAfterCond", x |-> x[2], if |-> x]>>),
                 LAMBDA d, c : IF c[1] # "bool" THEN Ok(d, Fault("type"))
                               ELSE EvalTail(d, IF c[2] THEN x[3] ELSE x[4]))
      [] x[1] = "call" /\ Closure(e, x[2]) ->
            Then(EvalItems(e, CallArgs(e.env[x[2]], x[3])),
                 LAMBDA d, v : Ok(d, <<"apply", e.env[x[2]], v[2]>>))
      [] x[1] = "call" /\ ~Closure(e, x[2]) /\ x[2] \in DOMAIN Functions ->
            Then(Moving(e, x, LAMBDA d : EvalItems(d, FnCall(x[2], x[3]))),
                 LAMBDA d, v : Ok(d, <<"tail", x[2], v[2]>>))
      [] OTHER -> Eval(e, x)

-----------------------------------------------------------------------------
(* Calls                                                                   *)

Enter(e, name, kind, env) ==
    [e EXCEPT !.env = env,
              !.frames[Top(e)] = [function |-> name, kind |-> kind, next |-> "",
                                  env |-> IF e.facts THEN <<>> ELSE env, kont |-> <<>>]]

Bound(names, vals) == [n \in ToSet(names) |-> vals[CHOOSE i \in DOMAIN names : names[i] = n]]

Finished(e, call, d, v) ==
    Then(FunctionResult(Bind(e, d, v), call[1]),
         LAMBDA g, w : Ok(Remember(SetNext(g, "__done"), Keyed(call[1], call[2]),
                                   <<"call">> \o call, w), w))

RECURSIVE RunDefs(_, _, _)
RunDefs(e, call, i) ==
    LET defs == Functions[call[1]].defs
        name == defs[i][1]
    IN  IF i < Len(defs)
          THEN Then(Eval(SetNext(e, name), defs[i][2]),
                    LAMBDA d, v : RunDefs(Bind(d, name, v), call, i + 1))
        ELSE IF MultiOutput(call[1])
          THEN Then(Eval(SetNext(e, name), defs[i][2]),
                    LAMBDA d, v : Finished(d, call, name, v))
          ELSE Then(EvalTail(SetNext(e, name), defs[i][2]),
                    LAMBDA d, v :
                        CASE v[1] = "tail"  ->
                                Then(ApplyFn(d, v[2], v[3]),
                                     LAMBDA g, w :
                                        Ok(Remember(g, TailKeyed(g, call[1], call[2]),
                                                    <<"call">> \o call, w), w))
                          [] v[1] = "apply" -> Then(ApplyValue(d, v[2], v[3]),
                                                    LAMBDA g, w : Finished(g, call, name, w))
                          [] OTHER          -> Finished(d, call, name, v))

\* ApplyFn: the frame is already there, the caller's own for a tail call.
CallFunction(e, name, vals) ==
    LET f == Functions[name]
        key == <<"call", name, vals>>
    IN  IF Keyed(name, vals) /\ key \in DOMAIN e.memo THEN Ok(e, e.memo[key])
        ELSE IF Len(vals) # Len(f.inputs) THEN Ok(e, Fault("arity"))
        ELSE Then(Charge(Enter(e, name, "Function", Bound(f.inputs, vals))),
                  LAMBDA c, u : RunDefs(c, <<name, vals>>, 1))

\* Mutant: the key of a closure call is without its bindings.
ClosureKeyOfBody(f, arg) == <<"closure", [f[2] EXCEPT !.env = <<>>], arg>>

ClosureKey(f, arg) == <<"closure", f[2], arg>>

RememberClosure(e, f, arg, v) ==
    Remember(e, ClosureKeyed(e, f[2], arg), ClosureKey(f, arg), v)

Completed(e, f, arg) == ClosureKeyed(e, f[2], arg) /\ ClosureKey(f, arg) \in DOMAIN e.memo

\* One frame for a chain of closures that call one another in tail position.
RECURSIVE Chain(_, _, _)
Chain(e, f, arg) ==
    LET c == f[2]
        env == (c.param :> arg) @@ (IF c.self = "" THEN <<>> ELSE c.self :> f) @@ c.env
        entered == SetNext(Enter(e, c.self, "Expression", env), "body")
        r == Then(Charge(entered), LAMBDA d, u : EvalTail(d, c.body))
    IN  IF Completed(e, f, arg) THEN Ok(e, e.memo[ClosureKey(f, arg)])
        ELSE IF Failed(r) THEN InsertKonts(r, Position(entered), <<Again(c.body)>>)
        ELSE CASE r.v[1] = "tail" ->
                    Then(ApplyFn(r.e, r.v[2], r.v[3]),
                         LAMBDA d, v : Ok(RememberClosure(d, f, arg, v), v))
               [] r.v[1] = "apply" ->
                    LET one == Chain(r.e, r.v[2], r.v[3][1])
                    IN  IF Len(r.v[3]) = 1 THEN one
                        ELSE Then(one, LAMBDA d, v : ApplyValue(d, v, Tail(r.v[3])))
               [] OTHER -> Ok(RememberClosure(r.e, f, arg, r.v), r.v)

\* ApplyValue: a closure takes one argument; the others apply to what it returns.
CallValue(e, f, args) ==
    IF f[1] # "closure" THEN Ok(e, Fault("type"))
    ELSE IF args = <<>> THEN Ok(e, f)
    ELSE LET arg == args[1]
             Applied(c, u) == Call_(c, f[2].self, "Expression", LAMBDA inside : Chain(inside, f, arg))
             r == IF Completed(e, f, arg) THEN Ok(e, e.memo[ClosureKey(f, arg)])
                  ELSE Then(Then(Charge(e), Applied),
                            LAMBDA d, v : Ok(RememberClosure(d, f, arg, v), v))
         IN  IF Len(args) = 1 THEN r
             ELSE Then(r, LAMBDA d, v : ApplyValue(d, v, Tail(args)))

-----------------------------------------------------------------------------
(* Resume                                                                  *)

\* The definitions from the i-th on, in the frame of the function itself.
RECURSIVE RunFrom(_, _, _), ReturnInto(_, _), Unwind(_, _)
RunFrom(e, name, i) ==
    LET defs == Functions[name].defs
    IN  IF i > Len(defs) THEN FunctionResult(e, name)
        ELSE Then(Eval(SetNext(e, defs[i][1]), defs[i][2]),
                  LAMBDA d, v : RunFrom(Bind(d, defs[i][1], v), name, i + 1))

DefAt(name, d) ==
    SelectInSeq(Functions[name].defs, LAMBDA def : def[1] = d)

\* The value of the definition a frame was in is known: the rest of them run.
FinishAfterValue(e, v) ==
    LET frame == Last(e.frames)
    IN  IF frame.kind = "Expression" \/ frame.next = "__done" THEN Ok(e, v)
        ELSE IF frame.next = "" THEN RunFrom(e, frame.function, 1)
        ELSE RunFrom(Bind(e, frame.next, v), frame.function, DefAt(frame.function, frame.next) + 1)

\* What a waiting operation does with the value it waited for.
Consume(e, kont, v) ==
    CASE kont.k \in {"EvalExpr", "IfThen", "IfElse"} -> Ok(e, v)
      [] kont.k \in {"SeqItems", "FnCall", "CallArgs", "MachineCall", "PackArgs"} ->
            FinishItems(e, [kont EXCEPT !.done = Append(@, v)])
      [] kont.k = "RestoreEnv"      -> Ok([e EXCEPT !.env = kont.env], v)
      [] kont.k = "UnaryAfter"      -> Ok(e, Arith("-", Int_(0), v))
      [] kont.k = "BinLeft"         -> FinishBinaryLeft(e, kont.op, v, kont.right)
      [] kont.k = "BinRight"        -> FinishBinary(e, kont.op, kont.left, v)
      [] kont.k = "IfAfterCond"     -> FinishIf(e, v, kont.if)
      [] kont.k = "CallCallee"      -> FinishItems(e, CallArgs(v, kont.args))
      [] kont.k = "IndexBeforeSeq"  -> FinishIndex(e, v, kont.index)
      [] kont.k = "IndexAfterSeq"   -> Ok(e, IndexOf(e, kont.seq, v))
      [] kont.k = "ProjectField"    -> FinishProject(e, kont.name, v)
      [] kont.k = "OpenAfterPacked" -> FinishOpen(e, kont.open, v)
      [] kont.k = "MatchWaiting"    -> ChooseMatch(e, v, kont.match)
      [] kont.k = "MatchArm"        ->
            TakeArm(e, kont, v = Bool(TRUE) \/ (v[1] # "bool" /\ v = kont.scrutinee))
      [] kont.k = "ConsLeft"        -> FinishCons(e, v, kont.cons)
      [] kont.k = "ConsAfterHead"   -> Ok(e, JoinValues(kont.head, v, kont.cons[4]))
      [] kont.k = "CasesArm"        -> TakeCase(e, kont, v)
      [] kont.k = "RecordFields"    ->
            FinishFields(e, [kont EXCEPT !.done = (kont.current :> v) @@ @])
      [] kont.k = "RecordInvariant" ->
            [Checked(e, kont, v) EXCEPT !.e.env = kont.env]

\* The top operation has no value waiting above it: it evaluates its operand
\* again, staying below it meanwhile.
Drained(e, kont) ==
    CASE kont.k \in {"SeqItems", "FnCall", "CallArgs", "MachineCall", "PackArgs"} -> FinishItems(e, kont)
      [] kont.k = "MatchArm"   -> MatchArms(e, kont)
      [] kont.k = "RestoreEnv" -> Ok(e, Fault("incompatible_checkpoint"))
      [] OTHER -> Then(EvalWith(e, kont.x, <<kont>>), LAMBDA d, v : Consume(d, kont, v))

TopKont(e) == Last(Last(e.frames).kont)
PopKont(e) == [e EXCEPT !.frames[Top(e)].kont = Front(@)]

ReturnInto(e, v) ==
    IF Last(e.frames).kont = <<>> THEN FinishAfterValue(e, v)
    ELSE Then(Consume(PopKont(e), TopKont(e), v), ReturnInto)

ResumeCurrent(e) ==
    LET frame == Last(e.frames)
    IN  IF frame.kont # <<>> THEN Then(Drained(PopKont(e), TopKont(e)), ReturnInto)
        ELSE IF frame.kind # "Function" THEN Ok(e, Fault("incompatible_checkpoint"))
        ELSE RunFrom(e, frame.function,
                     IF frame.next = "" THEN 1 ELSE DefAt(frame.function, frame.next))

\* A failed step of a resume keeps the bindings as they now stand in the frame
\* that took it, unless a binder below has already kept its own.
PinResumed(r, i) ==
    IF ~Failed(r) THEN r
    ELSE IF r.e.swapped THEN [r EXCEPT !.e.swapped = FALSE]
    ELSE IF i > Top(r.e) THEN r
    ELSE [r EXCEPT !.e.frames[i].env = r.e.env]

Unwind(e, v) ==
    IF Top(e) = 1 THEN Ok(Pop(e), v)
    ELSE LET caller == [Pop(e) EXCEPT !.env = e.frames[Top(e) - 1].env, !.depth = Top(e) - 1]
         IN  Then(PinResumed(ReturnInto(caller, v), Top(caller)), Unwind)

\* The depth of a resumed engine is the number of its frames.
ResumeStack(e) ==
    LET inside == [e EXCEPT !.env = Last(e.frames).env, !.depth = Top(e)]
    IN  Then(PinResumed(ResumeCurrent(inside), Top(inside)), Unwind)

HostCall(e, call) ==
    LET inputs == Functions[call[1]].inputs
    IN  EvalFn([e EXCEPT !.env = Bound(inputs, call[2])], call[1],
               [i \in DOMAIN inputs |-> <<"path", inputs[i]>>])

Do(e, job) ==
    CASE job[1] = "eval"     -> Then(Charge(e), LAMBDA c, u : EvalFresh(c, job[2]))
      [] job[1] = "tail"     -> EvalTailFresh(e, job[2])
      [] job[1] = "function" -> CallFunction(e, job[2], job[3])
      [] job[1] = "value"    -> CallValue(e, job[2], job[3])
      [] job[1] = "host"     -> HostCall(e, job[2])
      [] job[1] = "stack"    -> ResumeStack(e)

-----------------------------------------------------------------------------
(* The calls of a host                                                     *)

Fresh == [env |-> <<>>, work |-> 0, limit |-> 0, frames |-> <<>>, heap |-> <<>>,
          memo |-> <<>>, swapped |-> FALSE, depth |-> 0, facts |-> FALSE, move |-> NoMove]

Unlimited == 100000

Straight(call) == Evaluate([Fresh EXCEPT !.limit = Unlimited], call)

StraightOf == [call \in Entries |-> Straight(call)]

Init ==
    /\ entry \in Entries
    /\ engine = Fresh
    /\ outcome = Pending
    /\ resumes = 0

\* A host call returns a value, a fault, or a checkpoint of the engine.
Return(r) ==
    /\ outcome' = IF Exhausted(r) THEN Pending ELSE r.v
    /\ engine' = [r.e EXCEPT !.env = <<>>, !.swapped = FALSE, !.limit = 0, !.depth = 0]
    /\ UNCHANGED entry

Run(slice) ==
    /\ engine = Fresh
    /\ outcome = Pending
    /\ Return(Evaluate([engine EXCEPT !.limit = slice], entry))
    /\ UNCHANGED resumes

Resume(slice) ==
    /\ engine.frames # <<>>
    /\ outcome = Pending
    /\ resumes < MaxResumes
    /\ Return(FinishFromStack([engine EXCEPT !.limit = engine.work + slice]))
    /\ resumes' = resumes + 1

FactsOf(memo) == Restrict(memo, {key \in DOMAIN memo : key[1] = "call" /\ key[2] \in Facts})

\* A host that carries facts runs the call from its start each time, with the
\* facts of the runs before, and keeps those of this one whatever its outcome.
KeepFacts(r) ==
    /\ outcome' = IF Exhausted(r) THEN Pending ELSE r.v
    /\ engine' = [Fresh EXCEPT !.memo = FactsOf(r.e.memo)]
    /\ UNCHANGED entry

Carried(slice) ==
    /\ engine.frames = <<>>
    /\ outcome = Pending
    /\ KeepFacts(Evaluate([Fresh EXCEPT !.limit = slice, !.facts = TRUE, !.memo = engine.memo], entry))
    /\ UNCHANGED resumes

Next == \E slice \in Slices : Run(slice) \/ Resume(slice) \/ Carried(slice)

Spec == Init /\ [][Next]_vars

-----------------------------------------------------------------------------
(* Properties                                                              *)

\* Wherever a run is cut and however often it is resumed, the host gets the
\* value or the fault an unlimited run gives (tests/constructor_cutover.rs,
\* "resume-matches"): each operation kept in a frame keeps the operands that
\* were done, the bindings it was reached under and its place below what its
\* child left.
ResumedAsStraight == outcome # Pending => outcome = StraightOf[entry].v

\* A resume repeats little: besides the work of an unlimited run, the engine
\* has spent at most Rework units for each resume, so that any slice above
\* Rework gets to the end.  What a program repeats depends on it, and Rework is
\* given for the Entries.  It fails when a checkpoint loses a completed operand.
ReworkBounded == engine.work <= StraightOf[entry].e.work + (resumes + 1) * Rework

\* A remembered call is the truth in any environment and at any time: what the
\* memo holds under a key is what the call of that key gives to an empty
\* engine, for a closure under the bindings the key carries.
CallOfKey(key) ==
    Do([Fresh EXCEPT !.limit = Unlimited],
       IF key[1] = "call" THEN <<"host", <<key[2], key[3]>> >>
       ELSE <<"value", <<"closure", key[2]>>, <<key[3]>> >>).v

MemoIsTruth == \A key \in DOMAIN engine.memo : engine.memo[key] = CallOfKey(key)

=============================================================================
