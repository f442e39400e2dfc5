---------------------------- MODULE FormulaLanguage ----------------------------
(***************************************************************************)
(* The language of calculation formulas: common/utils/cel-evaluator.ts.     *)
(* A Pratt parser makes a tree of a sequence of tokens, and evalNode walks  *)
(* it.                                                                     *)
(*                                                                         *)
(* A token is a record: its type t and what it holds, v.  Strings are left  *)
(* out, and so is round.  A number is a fraction, as Decimal's digits do    *)
(* not matter here, and a unit is a tuple of the factors that combineUnits  *)
(* writes after one another.                                                *)
(***************************************************************************)
EXTENDS Integers, FiniteSets, SequencesExt

CONSTANT MaxHeight   \* how deep the trees of formulas are nested (a bound)

ASSUME LanguageAssumption == MaxHeight \in Nat

Token(type, what) == [t |-> type, v |-> what]
Op(o) == Token("op", o)
Mark(type) == Token(type, "")

UnaryOps == {"-", "+", "!"}
BinaryOps == {"||", "&&", "==", "!=", "<", "<=", ">", ">=", "+", "-", "*", "/", "%"}

Tokens == [t : {"num"}, v : Int] \cup [t : {"bool"}, v : BOOLEAN]
             \cup [t : {"ident"}, v : STRING] \cup [t : {"op"}, v : UnaryOps \cup BinaryOps]
             \cup [t : {"nil", "lparen", "rparen", "comma", "qmark", "colon"}, v : {""}]

\* Trees: the type of a node, what it holds, and its parts in the order of the text.
Num(n) == <<"num", n, <<>>>>
Ref(name) == <<"ref", name, <<>>>>
Unary(op, arg) == <<"unary", op, <<arg>>>>
Bin(op, left, right) == <<"bin", op, <<left, right>>>>
Cond(test, then, else) == <<"cond", "", <<test, then, else>>>>
Call(name, args) == <<"call", name, args>>

\* The trees with their parts in S, and those of bounded height.
NodesOver(S) ==
    ({"num"} \X Int \X {<<>>}) \cup ({"bool"} \X BOOLEAN \X {<<>>})
       \cup ({"nil"} \X {""} \X {<<>>}) \cup ({"ref"} \X STRING \X {<<>>})
       \cup ({"unary"} \X UnaryOps \X [1 .. 1 -> S])
       \cup ({"bin"} \X BinaryOps \X [1 .. 2 -> S])
       \cup ({"cond"} \X {""} \X [1 .. 3 -> S])
       \cup ({"call"} \X STRING \X Seq(S))
nodesUpTo[height \in 0 .. MaxHeight] ==
    IF height = 0 THEN {} ELSE NodesOver(nodesUpTo[height - 1])
Node == nodesUpTo[MaxHeight]

-------------------------------------------------------------------------------
(* Parser.                                                                   *)

\* binaryBp: how tightly an operator binds to its left; one more to its right.
bindsLeft(op) == CASE op = "||" -> 2
                   [] op = "&&" -> 4
                   [] op \in {"==", "!="} -> 6
                   [] op \in {"<", "<=", ">", ">="} -> 8
                   [] op \in {"+", "-"} -> 10
                   [] op \in {"*", "/", "%"} -> 12
                   [] OTHER -> -1
bindsAlike(op) == bindsLeft(op)
bindsRight(op) == bindsLeft(op) + 1

\* What a parsing method returns: the tree, and the position it got to; or it throws.
Throws == [node |-> <<"error">>, pos |-> 0]
Threw(result) == result.pos = 0
Parsed(node, pos) == [node |-> node, pos |-> pos]

TypeAt(toks, pos) == IF pos <= Len(toks) THEN toks[pos].t ELSE "eof"
IsOp(toks, pos, ops) == TypeAt(toks, pos) = "op" /\ toks[pos].v \in ops

\* The calls of the parsing methods: which method, from where, for parseExpression with
\* what minBp and how many rounds of its loop.  In what follows, p is what they return.
MethodCalls(toks) == {"expression", "unary", "primary", "args"}
                  \X (1 .. Len(toks) + 1) \X (0 .. 13) \X (0 .. Len(toks))

Called(p, method, pos) == p[<<method, pos, 0, 0>>]

\* Each round reads a token or more, so that there are no more rounds than tokens.
parseExpression(toks, p, pos, minBp) == p[<<"expression", pos, minBp, Len(toks)>>]

\* A round of the loop of parseExpression, which has read lhs; it stays at lhs when it ends.
extend(toks, p, lhs, minBp) ==
    IF Threw(lhs) THEN Throws
    ELSE IF TypeAt(toks, lhs.pos) = "qmark" /\ minBp <= 1
    THEN LET then == parseExpression(toks, p, lhs.pos + 1, 0)
             else == parseExpression(toks, p, then.pos + 1, 1)
         IN IF Threw(then) THEN Throws
            ELSE IF TypeAt(toks, then.pos) # "colon" THEN Throws
            ELSE IF Threw(else) THEN Throws
            ELSE Parsed(Cond(lhs.node, then.node, else.node), else.pos)
    ELSE IF TypeAt(toks, lhs.pos) = "op" /\ bindsLeft(toks[lhs.pos].v) >= 0
                                         /\ bindsLeft(toks[lhs.pos].v) >= minBp
    THEN LET rhs == parseExpression(toks, p, lhs.pos + 1, bindsRight(toks[lhs.pos].v))
         IN IF Threw(rhs) THEN Throws
            ELSE Parsed(Bin(toks[lhs.pos].v, lhs.node, rhs.node), rhs.pos)
    ELSE lhs

parseUnary(toks, p, pos) ==
    IF IsOp(toks, pos, UnaryOps)
    THEN LET arg == Called(p, "unary", pos + 1)
         IN IF Threw(arg) THEN Throws ELSE Parsed(Unary(toks[pos].v, arg.node), arg.pos)
    ELSE Called(p, "primary", pos)

parsePrimary(toks, p, pos) ==
    CASE TypeAt(toks, pos) \in {"num", "bool", "nil"} ->
            Parsed(<<toks[pos].t, toks[pos].v, <<>>>>, pos + 1)
      [] TypeAt(toks, pos) = "lparen" ->
            LET inner == parseExpression(toks, p, pos + 1, 0)
            IN IF Threw(inner) THEN Throws
               ELSE IF TypeAt(toks, inner.pos) # "rparen" THEN Throws
               ELSE Parsed(inner.node, inner.pos + 1)
      [] TypeAt(toks, pos) = "ident" /\ TypeAt(toks, pos + 1) # "lparen" ->
            Parsed(Ref(toks[pos].v), pos + 1)
      [] TypeAt(toks, pos) = "ident" /\ TypeAt(toks, pos + 1) = "lparen" ->
            LET args == IF TypeAt(toks, pos + 2) = "rparen" THEN Parsed(<<>>, pos + 2)
                        ELSE Called(p, "args", pos + 2)
            IN IF Threw(args) THEN Throws
               ELSE IF TypeAt(toks, args.pos) # "rparen" THEN Throws
               ELSE Parsed(Call(toks[pos].v, args.node), args.pos + 1)
      [] OTHER -> Throws

\* The arguments of a call from pos on.
parseArgs(toks, p, pos) ==
    LET arg == parseExpression(toks, p, pos, 0)
        rest == Called(p, "args", arg.pos + 1)
    IN IF Threw(arg) THEN Throws
       ELSE IF TypeAt(toks, arg.pos) # "comma" THEN Parsed(<<arg.node>>, arg.pos)
       ELSE IF Threw(rest) THEN Throws
       ELSE Parsed(<<arg.node>> \o rest.node, rest.pos)

Method(toks, p, call) ==
    CASE call[1] = "args" -> parseArgs(toks, p, call[2])
      [] call[1] = "primary" -> parsePrimary(toks, p, call[2])
      [] call[1] = "unary" -> parseUnary(toks, p, call[2])
      [] call[1] = "expression" /\ call[4] = 0 -> Called(p, "unary", call[2])
      [] OTHER -> extend(toks, p, p[<<"expression", call[2], call[3], call[4] - 1>>], call[3])

Parser(toks) == LET p[call \in MethodCalls(toks)] == Method(toks, p, call) IN p

\* parse(), which refuses trailing input.
Parse(toks) ==
    LET result == parseExpression(toks, Parser(toks), 1, 0)
    IN IF ~Threw(result) /\ result.pos = Len(toks) + 1 THEN result.node ELSE Throws.node

-------------------------------------------------------------------------------
(* Evaluator.                                                                *)

Error == [kind |-> "error"]
Nil == [kind |-> "nil"]
Boolean(b) == [kind |-> "bool", b |-> b]
\* unit is a tuple; the empty one is none.
Number(n, d, unit) == [kind |-> "num", n |-> IF d < 0 THEN -n ELSE n,
                       d |-> IF d < 0 THEN -d ELSE d, unit |-> unit]

IsNumber(x) == x.kind = "num"
IsZero(x) == x.n = 0
Compare(x, y) == x.n * y.d - y.n * x.d

truthy(x) == CASE x.kind = "bool" -> x.b
               [] x.kind = "num" -> ~IsZero(x)
               [] OTHER -> FALSE

sameValue(x, y) == CASE IsNumber(x) /\ IsNumber(y) -> Compare(x, y) = 0
                     [] x.kind = "bool" /\ y.kind = "bool" -> x.b = y.b
                     [] OTHER -> x.kind = y.kind

\* requireSameUnit: a number without a unit goes with any.
SameUnit(x, y) == x.unit = y.unit \/ x.unit = <<>> \/ y.unit = <<>>

\* combineUnits does not cancel: kwh * kgco2e/kwh is just that.
combineUnits(l, r, op) == IF l = <<>> /\ r = <<>> THEN <<>> ELSE l \o <<op>> \o r

\* evalBin after both operands are evaluated.
Arithmetic(op, l, r) ==
    IF ~(IsNumber(l) /\ IsNumber(r)) THEN Error
    ELSE CASE op \in {"<", "<=", ">", ">="} ->
                IF ~SameUnit(l, r) THEN Error
                ELSE Boolean(CASE op = "<" -> Compare(l, r) < 0
                               [] op = "<=" -> Compare(l, r) <= 0
                               [] op = ">" -> Compare(l, r) > 0
                               [] OTHER -> Compare(l, r) >= 0)
           [] op \in {"+", "-"} ->
                IF ~SameUnit(l, r) THEN Error
                ELSE Number(IF op = "+" THEN l.n * r.d + r.n * l.d ELSE l.n * r.d - r.n * l.d,
                            l.d * r.d, l.unit)
           [] op = "*" -> Number(l.n * r.n, l.d * r.d, combineUnits(l.unit, r.unit, "*"))
           [] op = "/" -> IF IsZero(r) THEN Error
                          ELSE Number(l.n * r.d, l.d * r.n, combineUnits(l.unit, r.unit, "/"))
           [] OTHER -> IF IsZero(r) THEN Error   \* of positive numbers
                       ELSE Number((l.n * r.d) % (r.n * l.d), l.d * r.d, l.unit)

AddUp(args) == FoldLeft(LAMBDA x, y : Arithmetic("+", x, y), args[1], Tail(args))

\* evalCall, of arguments that are evaluated; sum and its like want one unit.
evalCall(name, args) ==
    LET units == {args[i].unit : i \in {j \in DOMAIN args : IsNumber(args[j])}}
        numbers == \A i \in DOMAIN args : IsNumber(args[i])
        given == {i \in DOMAIN args : args[i].kind # "nil"}
    IN CASE name = "coalesce" ->
                IF given = {} THEN Nil
                ELSE args[CHOOSE i \in given : \A j \in given : i <= j]
         [] name \in {"sum", "avg"} /\ args = <<>> -> Number(0, 1, <<>>)
         [] name \in {"sum", "avg", "min", "max"} /\ args # <<>> ->
                IF ~numbers \/ Cardinality(units) > 1 THEN Error
                ELSE CASE name = "sum" -> AddUp(args)
                       [] name = "avg" -> [AddUp(args) EXCEPT !.d = @ * Len(args)]
                       [] name = "min" -> args[CHOOSE i \in DOMAIN args :
                                               \A j \in DOMAIN args : Compare(args[i], args[j]) <= 0]
                       [] OTHER -> args[CHOOSE i \in DOMAIN args :
                                        \A j \in DOMAIN args : Compare(args[i], args[j]) >= 0]
         [] name = "ratio" /\ Len(args) = 2 /\ numbers -> Arithmetic("/", args[1], args[2])
         [] name = "abs" /\ args # <<>> /\ IsNumber(args[1]) ->
                IF args[1].n < 0 THEN Number(-args[1].n, args[1].d, args[1].unit) ELSE args[1]
         [] OTHER -> Error

\* evalNode, value being its results for the parts; context has the values of references.
Evaluate(value, node, context) ==
    LET part(i) == value[node[3][i]]
    IN CASE node[1] = "num" -> Number(node[2], 1, <<>>)
         [] node[1] = "bool" -> Boolean(node[2])
         [] node[1] = "nil" -> Nil
         [] node[1] = "ref" -> IF node[2] \in DOMAIN context THEN context[node[2]] ELSE Error
         [] node[1] = "unary" ->
               LET arg == part(1)
               IN CASE arg = Error -> Error
                    [] node[2] = "+" -> arg
                    [] node[2] = "!" -> Boolean(~truthy(arg))
                    [] OTHER -> IF IsNumber(arg) THEN Number(-arg.n, arg.d, arg.unit) ELSE Error
         [] node[1] = "bin" ->
               LET l == part(1)
                   r == part(2)
               IN CASE l = Error -> Error
                    [] node[2] = "&&" -> IF ~truthy(l) THEN Boolean(FALSE)
                                         ELSE IF r = Error THEN Error ELSE Boolean(truthy(r))
                    [] node[2] = "||" -> IF truthy(l) THEN Boolean(TRUE)
                                         ELSE IF r = Error THEN Error ELSE Boolean(truthy(r))
                    [] r = Error -> Error
                    [] node[2] = "==" -> Boolean(sameValue(l, r))
                    [] node[2] = "!=" -> Boolean(~sameValue(l, r))
                    [] OTHER -> Arithmetic(node[2], l, r)
         [] node[1] = "cond" ->
               LET test == part(1)
               IN IF test = Error THEN Error ELSE part(IF truthy(test) THEN 2 ELSE 3)
         [] node[1] = "call" ->
               LET args == [i \in DOMAIN node[3] |-> part(i)]
               IN IF \E i \in DOMAIN args : args[i] = Error THEN Error ELSE evalCall(node[2], args)
evalNode(node, context) ==
    LET value[n \in Node] == Evaluate(value, n, context) IN value[node]

-------------------------------------------------------------------------------
(* What the parser promises.                                                 *)

\* How tightly a tree holds together: the operators of the language in order.
Level(node) == CASE node[1] = "cond" -> 1
                 [] node[1] = "bin" -> CASE node[2] = "||" -> 2
                                         [] node[2] = "&&" -> 4
                                         [] node[2] \in {"==", "!="} -> 6
                                         [] node[2] \in {"<", "<=", ">", ">="} -> 8
                                         [] node[2] \in {"+", "-"} -> 10
                                         [] OTHER -> 12
                 [] node[1] = "unary" -> 14
                 [] OTHER -> 15

\* A tree written with as few parentheses as its operators allow: a binary operator
\* takes the operators of its own level on its left, a conditional on its right.
\* text has what is written for the parts.
Placed(text, node, level) ==
    IF Level(node) < level THEN <<Mark("lparen")>> \o text[node] \o <<Mark("rparen")>> ELSE text[node]
Listed(text, args) ==
    FlattenSeq([i \in DOMAIN args |->
        Placed(text, args[i], 0) \o (IF i < Len(args) THEN <<Mark("comma")>> ELSE <<>>)])
Composed(text, node) ==
    LET part(i, level) == Placed(text, node[3][i], level)
    IN CASE node[1] = "ref" -> <<Token("ident", node[2])>>
         [] node[1] = "unary" -> <<Op(node[2])>> \o part(1, 14)
         [] node[1] = "bin" -> part(1, Level(node)) \o <<Op(node[2])>> \o part(2, Level(node) + 1)
         [] node[1] = "cond" ->
               part(1, 2) \o <<Mark("qmark")>> \o part(2, 0) \o <<Mark("colon")>> \o part(3, 1)
         [] node[1] = "call" ->
               <<Token("ident", node[2]), Mark("lparen")>> \o Listed(text, node[3]) \o <<Mark("rparen")>>
         [] OTHER -> <<Token(node[1], node[2])>>
texts[node \in Node] == Composed(texts, node)
Written(node) == texts[node]

\* Parsing what is written for a tree gives that tree back: precedence, associativity
\* and the nesting of conditionals are those of the language, and no formula of it is
\* refused.
WrittenIsParsed(node) == Parse(Written(node)) = node

\* Nor is anything accepted that is not a formula: a text that parses is, but for
\* parentheses, the one written for its tree.
WithoutParentheses(toks) ==
    FlattenSeq([i \in DOMAIN toks |-> IF toks[i].t \in {"lparen", "rparen"} THEN <<>> ELSE <<toks[i]>>])
ParsedIsWritten(toks) ==
    LET node == Parse(toks)
    IN node # Throws.node => WithoutParentheses(Written(node)) = WithoutParentheses(toks)
===============================================================================
