---------------------------- MODULE PolicyRules ----------------------------
(***************************************************************************)
(* The rule language of the policy (packages/policy/src/rules.ts): a       *)
(* condition is a string such as                                           *)
(*                                                                         *)
(*     not (liquidity < 5 or amountUsd > 100) && simulationOk              *)
(*                                                                         *)
(* which tokenize cuts into tokens and a recursive-descent Parser evaluates *)
(* while it reads them.  Below a condition is its sequence of tokens.      *)
(*                                                                         *)
(* A JavaScript value is a pair of its kind and its content.  Strings are  *)
(* names, such as "solana": none of them reads as a number.                *)
(***************************************************************************)
EXTENDS Integers, Sequences

Undefined == <<"undefined">>
Num(n)    == <<"number", n>>
Bool(b)   == <<"boolean", b>>
Str(s)    == <<"string", s>>

\* Number(v): nothing where JavaScript has NaN.
NumberOf(v) ==
  CASE v[1] = "number"  -> {v[2]}
    [] v[1] = "boolean" -> {IF v[2] THEN 1 ELSE 0}
    [] OTHER            -> {}

\* Boolean(v); no string here is empty.
Truthy(v) ==
  CASE v[1] = "number"  -> v[2] # 0
    [] v[1] = "boolean" -> v[2]
    [] v[1] = "string"  -> TRUE
    [] OTHER            -> FALSE

\* Parser.compare: == and != are strict; an order with a NaN is false both ways.
Compare(left, op, right) ==
  LET Ordered(Holds(_, _)) ==
        \E l \in NumberOf(left) : \E r \in NumberOf(right) : Holds(l, r)
  IN CASE op = "==" -> left = right
       [] op = "!=" -> left # right
       [] op = ">"  -> Ordered(LAMBDA l, r : l > r)
       [] op = ">=" -> Ordered(LAMBDA l, r : l >= r)
       [] op = "<"  -> Ordered(LAMBDA l, r : l < r)
       [] op = "<=" -> Ordered(LAMBDA l, r : l <= r)

-----------------------------------------------------------------------------
(* Tokens.                                                                  *)

Ident(path)  == [type |-> "ident", value |-> path]
Literal(v)   == [type |-> "literal", value |-> v]
Op(o)        == [type |-> "op", value |-> o]
Sign(t)      == [type |-> t, value |-> t]   \* lparen rparen and or not eof

\* getByPath over the context, given as a function from paths to values.
GetByPath(env, path) == IF path \in DOMAIN env THEN env[path] ELSE Undefined

-----------------------------------------------------------------------------
(* The Parser.  P[<<n, p>>] is what the method n returns and where it leaves *)
(* pos, when it is called at position p.  Both sides of an `or` or an `and` *)
(* are evaluated: the second must be read even if it cannot matter.         *)

Nonterminals == {"orExpr", "orRest", "andExpr", "andRest", "notExpr", "comparison", "primary"}

Result(v, p) == [val |-> v, pos |-> p]

\* Mutant: the second side is not read once the first has decided.
OrElseLazily(left, right) == IF left.val THEN left ELSE right

\* left || right and left && right, where right was parsed behind left.
OrElse(left, right)  == Result(left.val \/ right.val, right.pos)
AndAlso(left, right) == Result(left.val /\ right.val, right.pos)

Peek(tokens, p) == IF p <= Len(tokens) THEN tokens[p] ELSE Sign("eof")

\* One method, where P is what the methods return.
Method(tokens, env, P, n, p) ==
  CASE n = "orExpr" ->
         LET a == P[<<"andExpr", p>>] IN OrElse(a, P[<<"orRest", a.pos>>])
    [] n = "orRest" ->
         IF Peek(tokens, p).type # "or" THEN Result(FALSE, p)
         ELSE LET a == P[<<"andExpr", p + 1>>] IN OrElse(a, P[<<"orRest", a.pos>>])
    [] n = "andExpr" ->
         LET a == P[<<"notExpr", p>>] IN AndAlso(a, P[<<"andRest", a.pos>>])
    [] n = "andRest" ->
         IF Peek(tokens, p).type # "and" THEN Result(TRUE, p)
         ELSE LET a == P[<<"notExpr", p + 1>>] IN AndAlso(a, P[<<"andRest", a.pos>>])
    [] n = "notExpr" ->
         IF Peek(tokens, p).type = "not"
         THEN LET a == P[<<"comparison", p + 1>>] IN Result(~a.val, a.pos)
         ELSE P[<<"comparison", p>>]
    [] n = "comparison" ->
         LET l == P[<<"primary", p>>]
         IN IF Peek(tokens, l.pos).type = "op"
            THEN LET r == P[<<"primary", l.pos + 1>>]
                 IN Result(Compare(l.val, Peek(tokens, l.pos).value, r.val), r.pos)
            ELSE Result(Truthy(l.val), l.pos)
    [] n = "primary" ->
         CASE Peek(tokens, p).type = "lparen" ->
                LET e == P[<<"orExpr", p + 1>>]
                IN Result(Bool(e.val),
                          IF Peek(tokens, e.pos).type = "rparen" THEN e.pos + 1 ELSE e.pos)
           [] Peek(tokens, p).type = "literal" -> Result(Peek(tokens, p).value, p + 1)
           [] Peek(tokens, p).type = "ident"   -> Result(GetByPath(env, Peek(tokens, p).value), p + 1)
           [] OTHER                            -> Result(Undefined, p + 1)

Parser(tokens, env) ==
  LET P[c \in Nonterminals \X Nat] == Method(tokens, env, P, c[1], c[2]) IN P

Parse(tokens, env) == Parser(tokens, env)[<<"orExpr", 1>>]

\* What is left behind the expression is ignored.
EvaluateCondition(tokens, env) == Parse(tokens, env).val

\* evaluateRules: the first rule that matches and says anything but allow.
Firing(rules, env) ==
  {i \in DOMAIN rules : rules[i].action # "allow" /\ EvaluateCondition(rules[i].condition, env)}

EvaluateRules(rules, env) ==
  LET fires == Firing(rules, env)
  IN IF fires = {} THEN "allow"
     ELSE rules[CHOOSE i \in fires : \A j \in fires : i <= j].action

=============================================================================
