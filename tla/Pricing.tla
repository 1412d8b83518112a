------------------------------ MODULE Pricing ------------------------------
(***************************************************************************)
(* Pricing by rules: the expressions of a rule, their evaluation and the   *)
(* amount they make (middleware-openapi/src/expr.ts, evaluator.ts).        *)
(*                                                                         *)
(* A JSON document is the function of its leaves: from paths, which are    *)
(* sequences of keys, to scalars.  A scalar is itself a document whose one *)
(* path is empty, and no document at all is the empty function.            *)
(* Numbers are exact fractions: the code's are doubles, so their drift and *)
(* negative zero are left out.  Of expressions, so are jsonSize(), array   *)
(* indices, and the operators and functions of expr-eval other than the    *)
(* four of arithmetic (remainder, power, comparisons, ?:, min, round...).  *)
(***************************************************************************)
EXTENDS Integers, Sequences, FiniteSets, SequencesExt

CONSTANTS
    Scale,      \* COEFFICIENT_SCALE
    MaxFixed,   \* from here on toFixed() has no decimals: 1e21
    Assets      \* the keys of x-faremeter-assets

ASSUME PricingConstants == Scale \in Nat \ {0} /\ MaxFixed \in Nat

-----------------------------------------------------------------------------
(* Documents. *)

Frac(n, d) == [t |-> "num", n |-> n, d |-> d]  \* n / d, in lowest terms if read
Num(n)     == Frac(n, 1)
Text(n)    == [t |-> "str", n |-> n, d |-> 1]      \* its digits: header values
Null       == [t |-> "null", n |-> 0, d |-> 1]
NaN        == [t |-> "nan", n |-> 0, d |-> 1]      \* neither is nor spells a number
Empty      == [t |-> "obj", n |-> 0, d |-> 1]      \* the empty object: no leaves

Absent  == [p \in {} |-> Null]
Leaf(v) == [p \in {<<>>} |-> v]

IsDocument(doc) ==
    /\ DOMAIN doc \subseteq Seq(STRING)
    /\ \A p \in DOMAIN doc : doc[p].n \in Int /\ doc[p].d \in Nat \ {0}

(* What is found in doc at path; Absent if there is nothing.               *)
At(doc, path) ==
    LET below == {p \in DOMAIN doc : IsPrefix(path, p)}
    IN  [q \in {SubSeq(p, Len(path) + 1, Len(p)) : p \in below} |->
            doc[path \o q]]

Present(doc) == DOMAIN doc # {}

(* doc with value at path: what stood at, above or below it gives way.     *)
PutAt(doc, path, value) ==
    LET kept == {p \in DOMAIN doc : ~IsPrefix(p, path) /\ ~IsPrefix(path, p)}
        new  == {path \o q : q \in DOMAIN value}
    IN  [p \in kept \cup new |->
            IF p \in kept THEN doc[p]
            ELSE value[SubSeq(p, Len(path) + 1, Len(p))]]

(* The context that expressions are evaluated in: buildContext() with the  *)
(* request's body (its headers, query and path are not priced here),       *)
(* withResponse() with the response's status, headers and body.            *)
BuildContext(body) == PutAt(Absent, <<"request", "body">>, body)

WithResponse(ctx, response) == PutAt(ctx, <<"response">>, response)

-----------------------------------------------------------------------------
(* Expressions.  An expression is the function of its nodes: from the       *)
(* address of a node, which is the sequence of the operands "a" and "b"    *)
(* that lead to it, to a constant, a reference or an operator.             *)

Const(c) == Leaf([k |-> "const", c |-> c])
Ref(p)   == Leaf([k |-> "ref", p |-> p])

Operator(k, a, b) ==
    [p \in {<<>>} \cup {<<"a">> \o q : q \in DOMAIN a}
                  \cup {<<"b">> \o q : q \in DOMAIN b} |->
        CASE p = <<>>                    -> [k |-> k]
          [] p # <<>> /\ p[1] = "a"      -> a[Tail(p)]
          [] OTHER                       -> b[Tail(p)]]

Arithmetic == {"plus", "minus", "times", "divide"}

IsOperator(node) == node.k \in Arithmetic \cup {"coalesce"}

Side == {"a", "b"}

Operands(p) == {Append(p, x) : x \in Side}

(* The nodes form a finite tree in which an operator has two operands and  *)
(* nothing else has any.                                                   *)
IsExpression(e) ==
    /\ IsFiniteSet(DOMAIN e) /\ DOMAIN e \subseteq Seq(Side) /\ <<>> \in DOMAIN e
    /\ \A p \in DOMAIN e :
          \/ IsOperator(e[p]) /\ Operands(p) \subseteq DOMAIN e
          \/ e[p].k = "const" /\ e[p].c.n \in Int /\ e[p].c.d \in Nat \ {0}
          \/ e[p].k = "ref" /\ e[p].p \in Seq(STRING) \ {<<>>}
    /\ \A p \in DOMAIN e \ {<<>>} :
          \E q \in DOMAIN e : IsOperator(e[q]) /\ p \in Operands(q)

Plus(a, b)     == Operator("plus", a, b)
Minus(a, b)    == Operator("minus", a, b)
Times(a, b)    == Operator("times", a, b)
Divide(a, b)   == Operator("divide", a, b)
Coalesce(a, b) == Operator("coalesce", a, b)

(* The operand of an expression; At() is the expression at an address.     *)
Operand(e, ab) == At(e, <<ab>>)

(* Does p come before q in source order?                                   *)
Before(p, q) ==
    \/ IsPrefix(p, q)
    \/ \E n \in 1..Len(p) : /\ n <= Len(q) /\ SubSeq(p, 1, n - 1) = SubSeq(q, 1, n - 1)
                            /\ p[n] = "a" /\ q[n] = "b"

First(addresses) == CHOOSE p \in addresses : \A q \in addresses : Before(p, q)

(* The references of an expression, coalesce() or not.                     *)
ExtractPlainRefs(e) == {e[p].p : p \in {p \in DOMAIN e : e[p].k = "ref"}}

Coalesces(e) == {p \in DOMAIN e : e[p].k = "coalesce"}

(* A reference is nil when it has no node or is null.                      *)
Nil(ctx, ref) == ~Present(At(ctx, ref)) \/ At(ctx, ref) = Leaf(Null)

(* Every reference in e replaced by its value.                             *)
Substitute(e, ctx) ==
    [p \in DOMAIN e |-> IF e[p].k = "ref"
                        THEN [k |-> "bound", v |-> At(ctx, e[p].p)]
                        ELSE e[p]]

(* What replaces a coalesce(): the primary, its references substituted, if *)
(* none of them is nil, and the fallback as it stands otherwise.           *)
Collapse(e, ctx) ==
    IF \E ref \in ExtractPlainRefs(Operand(e, "a")) : Nil(ctx, ref)
    THEN Operand(e, "b")
    ELSE Substitute(Operand(e, "a"), ctx)

(* e with the coalesce() at p collapsed.                                   *)
CollapseAt(e, p, ctx) ==
    LET new  == Collapse(At(e, p), ctx)
        kept == {q \in DOMAIN e : ~IsPrefix(p, q)}
    IN  [q \in kept \cup {p \o r : r \in DOMAIN new} |->
            IF q \in kept THEN e[q] ELSE new[SubSeq(q, Len(p) + 1, Len(q))]]

(* Mutant: the first coalesce() in source order is collapsed first.        *)
CollapseFirst(e, ctx) == CollapseAt(e, First(Coalesces(e)), ctx)

(* findInnermostCoalesce(): the first coalesce() with no other inside it   *)
(* is collapsed.                                                           *)
Innermost(e) ==
    {p \in Coalesces(e) : \A q \in Coalesces(e) : IsPrefix(p, q) => p = q}

CollapseInnermost(e, ctx) == CollapseAt(e, First(Innermost(e)), ctx)

(* Collapsing is over when there is none left: none adds another.          *)
CollapseAll(e, ctx) ==
    LET step[n \in 0..Cardinality(Coalesces(e))] ==
            CASE n = 0 -> e
              [] n > 0 /\ Coalesces(step[n - 1]) # {} ->
                    CollapseInnermost(step[n - 1], ctx)
              [] OTHER -> step[n - 1]
    IN  step[Cardinality(Coalesces(e))]

(* expr-eval, external: a substituted value is itself, an operator makes   *)
(* numbers of its operands; null counts as zero.                           *)
Scalar(doc) == IF DOMAIN doc = {<<>>} /\ doc[<<>>] # Empty THEN doc[<<>>] ELSE NaN

(* With a denominator of zero it is infinity, of the sign of the numerator.*)
Quotient(n, d) == IF n = 0 /\ d = 0 THEN NaN ELSE Frac(n, d)

Negative(x) == Frac(-x.n, x.d)
OneOver(x)  == IF x.n < 0 THEN Frac(-x.d, -x.n) ELSE Frac(x.d, x.n)

Sum(a, b) ==
    IF a.d = 0 /\ b.d = 0 /\ a.n * b.n > 0 THEN Frac(a.n, 0)
    ELSE Quotient(a.n * b.d + b.n * a.d, a.d * b.d)

Product(a, b) == Quotient(a.n * b.n, a.d * b.d)

Compute(k, a, b) ==
    CASE NaN \in {a, b} -> NaN
      [] NaN \notin {a, b} /\ k = "plus"   -> Sum(a, b)
      [] NaN \notin {a, b} /\ k = "minus"  -> Sum(a, Negative(b))
      [] NaN \notin {a, b} /\ k = "times"  -> Product(a, b)
      [] NaN \notin {a, b} /\ k \notin {"plus", "minus", "times"} ->
            Product(a, OneOver(b))

Evaluate(e) ==
    LET value[p \in DOMAIN e] ==
            CASE e[p].k = "const" -> e[p].c
              [] e[p].k = "bound" -> Scalar(e[p].v)
              [] OTHER -> Compute(e[p].k, value[Append(p, "a")], value[Append(p, "b")])
    IN  value[<<>>]

(* resolveExpression(): the coefficient, or an error when a reference that *)
(* no coalesce() guards has no node or the value is not a finite number.   *)
Failed == [ok |-> FALSE, n |-> 0, d |-> 1]

ResolveExpression(e, ctx) ==
    LET plain == CollapseAll(e, ctx)
        value == Evaluate(Substitute(plain, ctx))
    IN  IF /\ \A ref \in ExtractPlainRefs(plain) : Present(At(ctx, ref))
           /\ value.t = "num" /\ value.d # 0
        THEN [ok |-> TRUE, n |-> value.n, d |-> value.d]
        ELSE Failed

-----------------------------------------------------------------------------
(* Rules.  A rule has a match, capture and optionally (a set of at most    *)
(* one) authorize; a match is a path, and a filter names the values it     *)
(* admits.                                                                 *)

IsResponse(ref) == ref # <<>> /\ ref[1] = "response"

ReadsResponse(e) == \E ref \in ExtractPlainRefs(e) : IsResponse(ref)

(* validateExpressions(): what runs before the response may not read it.   *)
ValidRule(rule) ==
    /\ ~IsResponse(rule.match.path)
    /\ \A e \in rule.authorize : ~ReadsResponse(e)
    /\ rule.authorize = {} => ~ReadsResponse(rule.capture)

(* validateRateKeys(): every rate is for a known asset.                    *)
ValidRates(rates) == DOMAIN rates \subseteq Assets

Matches(rule, ctx) ==
    LET node == At(ctx, rule.match.path)
    IN  IF rule.match.filter = {} THEN Present(node)
                                  ELSE Scalar(node) \in rule.match.filter

(* coefficientToScaledBigInt(): the coefficient n / d in units of          *)
(* 1 / Scale, rounded to the nearest, halves up, as toFixed() does; from    *)
(* MaxFixed on it is rounded to a whole number first, by Math.round().     *)
Rounded(n, d) == (2 * n + d) \div (2 * d)

CoefficientToScaled(n, d) ==
    IF n >= MaxFixed * d THEN Rounded(n, d) * Scale ELSE Rounded(n * Scale, d)

(* buildResult(): of the rounded coefficient times the rate, what is not   *)
(* whole is charged as a whole unit; a negative coefficient is an error.   *)
CoefficientAmount(scaled, rate) == (scaled * rate + Scale - 1) \div Scale

NoAmount == [a \in {} |-> 0]

BuildResult(coefficient, rates) ==
    IF coefficient.ok /\ coefficient.n >= 0
    THEN [res |-> "matched",
          amount |-> [a \in DOMAIN rates |->
                        CoefficientAmount(CoefficientToScaled(coefficient.n, coefficient.d),
                                          rates[a])]]
    ELSE [res |-> "error", amount |-> NoAmount]

(* evaluateRules(): the first rule that matches prices the request; for    *)
(* authorize, one without authorize is priced by its capture.              *)
EvaluateRules(op, phase, ctx) ==
    LET request == PutAt(Absent, <<"request">>, At(ctx, <<"request">>))
        matching == {i \in DOMAIN op.rules : Matches(op.rules[i], request)}
        i == CHOOSE m \in matching : \A o \in matching : m <= o
        rule == op.rules[i]
        expr == IF phase = "authorize" /\ rule.authorize # {}
                THEN CHOOSE e \in rule.authorize : TRUE
                ELSE rule.capture
        exprCtx == IF phase = "capture" THEN ctx ELSE request
    IN  IF matching = {}
        THEN [res |-> "unmatched", amount |-> NoAmount, hasAuthorize |-> FALSE]
        ELSE LET r == BuildResult(ResolveExpression(expr, exprCtx), op.rates)
             IN  [res |-> r.res, amount |-> r.amount,
                  hasAuthorize |-> rule.authorize # {}]

(* toPricing(): amounts of zero, and assets that are not known, are no     *)
(* price.                                                                  *)
ToPricing(amount) ==
    [a \in {a \in DOMAIN amount \cap Assets : amount[a] # 0} |-> amount[a]]

-----------------------------------------------------------------------------
(* What an expression means, said without rewriting it, for the values env *)
(* of its references: its value and the references it depends on.          *)
(* coalesce(a, b) is a if everything a depends on has a value, and b       *)
(* otherwise.                                                              *)

HasValue(env, refs) == \A r \in refs : Present(env[r]) /\ env[r] # Leaf(Null)

Both(k, a, b) == [value |-> Compute(k, a.value, b.value), refs |-> a.refs \cup b.refs]

Meaning(e, env) ==
    LET of[p \in DOMAIN e] ==
            CASE e[p].k = "const"    -> [value |-> e[p].c, refs |-> {}]
              [] e[p].k = "ref"      -> [value |-> Scalar(env[e[p].p]), refs |-> {e[p].p}]
              [] e[p].k = "coalesce" -> IF HasValue(env, of[Append(p, "a")].refs)
                                        THEN of[Append(p, "a")]
                                        ELSE of[Append(p, "b")]
              [] OTHER -> Both(e[p].k, of[Append(p, "a")], of[Append(p, "b")])
    IN  of[<<>>]

(* A number that is not negative, as it is charged for: the nearest        *)
(* multiple of 1 / Scale, counted in these, and from MaxFixed on the       *)
(* nearest whole number; of two that are as near, the larger.              *)
Nearest(n, d) ==
    CHOOSE m \in 0..n : (2 * m - 1) * d <= 2 * n /\ 2 * n < (2 * m + 1) * d

Charged(n, d) ==
    IF n < MaxFixed * d THEN Nearest(n * Scale, d) ELSE Nearest(n, d) * Scale

(* The price of an expression: for each asset the least amount that covers *)
(* the rate times what is charged for; {} if the expression has no price.  *)
Price(e, env, rates) ==
    LET meaning == Meaning(e, env)
        value == meaning.value
        units == Charged(value.n, value.d)
    IN  IF /\ \A r \in meaning.refs : Present(env[r])
           /\ value.t = "num" /\ value.d # 0 /\ value.n >= 0
        THEN {[a \in DOMAIN rates |->
                 CHOOSE least \in 0..(units * rates[a]) :
                    /\ least * Scale >= units * rates[a]
                    /\ (least - 1) * Scale < units * rates[a]]}
        ELSE {}
=============================================================================
