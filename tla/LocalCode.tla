------------------------------ MODULE LocalCode ------------------------------
(***************************************************************************)
(* The bounded syntax helpers of src/domain/local-code-semantics.ts: the   *)
(* scan that respects quotes, the split into statements, the recognition   *)
(* of one direct call, and the grammar of effect free scalars with its     *)
(* lexer.  Each is checked against a second definition on every short      *)
(* text: the state is the text, and a step appends to it.                  *)
(***************************************************************************)
EXTENDS Naturals, Sequences, SequencesExt, FiniteSets

CONSTANTS TextKinds,    \* "split", "call", "scalar", "tokens"
          TextOf(_),    \* what a text of that kind is made of
          MaxText(_)    \* and its length

VARIABLES kind, text

localVars == <<kind, text>>

LocalInit == kind = "split" /\ text = <<>>

LocalNext ==
  \/ text = <<>> /\ kind' \in TextKinds \ {kind} /\ UNCHANGED text
  \/ /\ Len(text) < MaxText(kind)
     /\ \E c \in TextOf(kind) : text' = Append(text, c)
     /\ UNCHANGED kind

LocalSpec == LocalInit /\ [][LocalNext]_localVars

-----------------------------------------------------------------------------
(* Statements and calls.  "'" is a quote, "NL" the end of a line; "()." is an empty list of   *)
(* arguments with a selection from the result, which no parenthesis around it notices.      *)

\* Quote and escape state over the characters read so far.
Quoting(q, c) ==
  CASE q = "escaped" -> "quoted"
    [] q = "quoted" /\ c = "\\" -> "escaped"
    [] q = "quoted" /\ c = "'" -> "plain"
    [] q = "plain" /\ c = "'" -> "quoted"
    [] OTHER -> q

Emit(s) == IF s.buf = <<>> THEN s ELSE [s EXCEPT !.out = Append(@, s.buf), !.buf = <<>>]

\* A line that ends in an operator goes on in the next one.
Continues(buf) == buf # <<>> /\ Last(buf) = ","

\* One character of splitLocalStatements; a line's end closes the statement unless
\* something is open.
SplitStep(s, c) ==
  IF c = "NL" THEN IF s.depth = 0 /\ s.q = "plain" /\ ~Continues(s.buf) THEN Emit(s) ELSE s
  ELSE LET t == [s EXCEPT !.buf = Append(@, c), !.q = Quoting(s.q, c)]
       IN  CASE s.q # "plain" -> t
             [] c = "(" -> [t EXCEPT !.depth = @ + 1]
             [] c = ")" -> [t EXCEPT !.depth = IF @ = 0 THEN 0 ELSE @ - 1]
             [] c = ";" /\ s.depth = 0 -> Emit(t)
             [] OTHER -> t

SplitFrom(src) ==
  FoldLeft(SplitStep, [out |-> <<>>, buf |-> <<>>, depth |-> 0, q |-> "plain"], src)

\* Mutant: what is still open at the end is dropped.
SplitDropsTail(src) == SplitFrom(src).out

SplitLocalStatements(src) == Emit(SplitFrom(src)).out

\* closingParenthesis: the partner of the parenthesis at i, or 0.
ClosingParenthesis(src, i) ==
  LET walk == FoldLeft(LAMBDA s, j :
                 IF j < i \/ s.at # 0 THEN s
                 ELSE LET d == IF s.q # "plain" THEN s.depth
                               ELSE s.depth + (IF src[j] = "(" THEN 1 ELSE 0) - (IF src[j] = ")" THEN 1 ELSE 0)
                      IN  [q |-> Quoting(s.q, src[j]), depth |-> d,
                           at |-> IF s.q = "plain" /\ src[j] = ")" /\ d = 0 THEN j ELSE 0],
                 [q |-> "plain", depth |-> 0, at |-> 0], [j \in DOMAIN src |-> j])
  IN  walk.at

\* extractLocalCallSites: the parentheses that a name precedes and that close.  An empty list
\* that is selected from has been taken away before.
CallSites(src) ==
  {i \in DOMAIN src : /\ src[i] = "(" /\ i > 1 /\ src[i - 1] = "a"
                       /\ ClosingParenthesis(src, i) # 0}

\* Mutant: a second call in the arguments is not looked for.
DirectIfClosed(src) ==
  \E i \in DOMAIN src :
    /\ src[i] = "(" /\ i > 1 /\ \A j \in 1..(i - 1) : src[j] = "a"
    /\ ClosingParenthesis(src, i) = Len(src)

\* directLocalCallExpression, for a src without wrappers
DirectCall(src) ==
  \E i \in DOMAIN src :
    /\ src[i] = "(" /\ i > 1 /\ \A j \in 1..(i - 1) : src[j] = "a"
    /\ ClosingParenthesis(src, i) = Len(src)
    /\ Cardinality(CallSites(src)) = 1

-----------------------------------------------------------------------------
(* tokenizeScalarExpression, over characters; <<"null">> when it refuses. *)

ScalarPunctuation ==
  {<<">", ">", ">">>, <<"=", "=", "=">>, <<"!", "=", "=">>, <<"*", "*">>, <<"=", "=">>, <<"!", "=">>,
   <<"<", "=">>, <<">", "=">>, <<"<", "<">>, <<">", ">">>, <<"-">>, <<"*">>, <<"<">>, <<">">>, <<"!">>}
Comparisons == {p \in ScalarPunctuation : Last(p) = "=" }

StartsWith(src, i, p) == i + Len(p) - 1 <= Len(src) /\ SubSeq(src, i, i + Len(p) - 1) = p
Longest(src, i, ps) ==
  {p \in ps : StartsWith(src, i, p) /\ \A o \in ps : StartsWith(src, i, o) => Len(o) <= Len(p)}

\* An update or assignment form at i: only a comparison may stand there.
Guarded(src, i) ==
  \/ StartsWith(src, i, <<"-", "-">>) \/ StartsWith(src, i, <<"=">>)
  \/ i < Len(src) /\ src[i + 1] = "="

\* Mutant: a double minus is read as two negations.
TokenAtLax(src, i) == Longest(src, i, ScalarPunctuation)

TokenAt(src, i) == Longest(src, i, IF Guarded(src, i) THEN Comparisons ELSE ScalarPunctuation)

RECURSIVE Tokenize(_, _)
Tokenize(src, i) ==
  IF i > Len(src) THEN <<>>
  ELSE IF src[i] = " " THEN Tokenize(src, i + 1)
  ELSE LET found == IF src[i] = "a" THEN {<<"a">>} ELSE TokenAt(src, i)
       IN  IF found = {} THEN <<"null">>
           ELSE LET p == CHOOSE p \in found : TRUE
                    rest == Tokenize(src, i + Len(p))
                IN  IF rest # <<>> /\ Last(rest) = "null" THEN <<"null">> ELSE <<p>> \o rest

-----------------------------------------------------------------------------
(* parseEffectFreeScalar: recursive descent from position i, to the position *)
(* after what was read, or 0.  "id" and "size" are identifiers, "-" every    *)
(* operator that is both unary and binary, "*" the binary, "!" the unary.    *)

TokenIs(t, i, x) == i \in DOMAIN t /\ t[i] = x

RECURSIVE Properties(_, _)
Properties(t, i) ==
  IF ~TokenIs(t, i, ".") THEN i
  ELSE IF TokenIs(t, i + 1, "size") THEN Properties(t, i + 2) ELSE 0

RECURSIVE ParseTernary(_, _)
ParsePrimary(t, i) ==
  CASE TokenIs(t, i, "id") \/ TokenIs(t, i, "size") -> Properties(t, i + 1)
    [] TokenIs(t, i, "(") -> LET j == ParseTernary(t, i + 1)
                             IN  IF j # 0 /\ TokenIs(t, j, ")") THEN j + 1 ELSE 0
    [] OTHER -> 0

RECURSIVE ParseUnary(_, _)
ParseUnary(t, i) == IF TokenIs(t, i, "-") \/ TokenIs(t, i, "!") THEN ParseUnary(t, i + 1) ELSE ParsePrimary(t, i)

RECURSIVE ParseBinary(_, _)
ParseBinary(t, i) ==
  LET j == ParseUnary(t, i) IN
  IF j = 0 \/ ~(TokenIs(t, j, "-") \/ TokenIs(t, j, "*")) THEN j ELSE ParseBinary(t, j + 1)

ParseTernary(t, i) ==
  LET j == ParseBinary(t, i) IN
  IF j = 0 \/ ~TokenIs(t, j, "?") THEN j
  ELSE LET k == ParseTernary(t, j + 1)
       IN  IF k # 0 /\ TokenIs(t, k, ":") THEN ParseTernary(t, k + 1) ELSE 0

\* Mutant: an explained prefix is enough.
ExplainsPrefix(t) == ParseTernary(t, 1) # 0

EffectFree(t) == ParseTernary(t, 1) = Len(t) + 1

\* isProvenEffectFreeScalarExpression: the lexer's tokens by what the parser tells apart
EffectFreeText(src) ==
  LET read == Tokenize(src, 1)
      class(p) == CASE p = <<"a">> -> "id" [] p = <<"-">> -> "-" [] p = <<"!">> -> "!" [] OTHER -> "*"
  IN  read # <<>> /\ Last(read) # "null" /\ EffectFree([k \in DOMAIN read |-> class(read[k])])

-----------------------------------------------------------------------------
(* The second definitions. *)

Printed(src) == SelectSeq(src, LAMBDA c : c # "NL")

\* Nothing of a changed src is lost or reordered by the split into statements, however
\* unbalanced its quotes and parentheses are: what is not a clean statement still is one.
SplitConserves == kind = "split" => FlattenSeq(SplitLocalStatements(text)) = Printed(text)

QuoteAt(src, i) == FoldLeft(Quoting, "plain", SubSeq(src, 1, i - 1))

Unquoted(src, c) == {i \in DOMAIN src : src[i] = c /\ QuoteAt(src, i) = "plain"}

\* What the language calls in a text: an argument list follows whatever ends an expression, a
\* name, a literal or a closed parenthesis; a parenthesis after another one groups.
Calls(src) == {i \in Unquoted(src, "(") : i > 1 /\ src[i - 1] # "("} \cup Unquoted(src, "().")

\* The calls that are no call of a name with its list: f()(..), (f)(..), and f().x
Unnamed(src, i) == src[i] = "()." \/ src[i - 1] # "a"

\* A src taken for one direct call is one: outside its quotes a single name is called, the
\* list spans to the end, and nothing in the list is called but what is Unnamed
\* (SecondCallIsRefused).
DirectCallIsWhole ==
  kind = "call" /\ DirectCall(text) =>
    LET before(i, c) == Cardinality({j \in Unquoted(text, c) : j < i})
    IN  /\ Cardinality({i \in Calls(text) : ~Unnamed(text, i)}) = 1
        /\ Cardinality(Unquoted(text, "(")) = Cardinality(Unquoted(text, ")"))
        /\ \A i \in DOMAIN text : i > 1 /\ before(i, "(") = before(i, ")") => text[i] \in {"a", "("}

\* The language's own operators, longest first: an assignment or an update among them
\* must never be taken apart into harmless ones.
JsOperators == ScalarPunctuation \cup
  {<<"=">>, <<"-", "-">>, <<"-", "=">>, <<"*", "=">>, <<"*", "*", "=">>, <<"=", ">">>,
   <<">", ">", "=">>, <<"<", "<", "=">>, <<">", ">", ">", "=">>}

RECURSIVE JsLex(_, _)
JsLex(src, i) ==
  IF i > Len(src) THEN <<>>
  ELSE IF src[i] = " " THEN JsLex(src, i + 1)
  ELSE LET p == IF src[i] = "a" THEN <<"a">> ELSE CHOOSE p \in Longest(src, i, JsOperators) : TRUE
       IN  <<p>> \o JsLex(src, i + Len(p))

LexIsExact ==
  kind = "scalar" /\ EffectFreeText(text) =>
    LET js == JsLex(text, 1)
    IN  js = Tokenize(text, 1) /\ \A k \in DOMAIN js : js[k] \in ScalarPunctuation \cup {<<"a">>}

\* The grammar as derivations: x derives the tokens i..j.
RECURSIVE Derives(_, _, _, _)
Derives(x, t, i, j) ==
  /\ i <= j
  /\ CASE x = "ternary" ->
         \/ Derives("binary", t, i, j)
         \/ \E k, l \in (i + 1)..(j - 1) :
              /\ k < l /\ t[k] = "?" /\ t[l] = ":"
              /\ Derives("binary", t, i, k - 1) /\ Derives("ternary", t, k + 1, l - 1)
              /\ Derives("ternary", t, l + 1, j)
    [] x = "binary" ->
         \/ Derives("unary", t, i, j)
         \/ \E k \in (i + 1)..(j - 1) : t[k] = "-" /\ Derives("binary", t, i, k - 1) /\ Derives("unary", t, k + 1, j)
    [] x = "unary" -> Derives("primary", t, i, j) \/ (t[i] = "-" /\ Derives("unary", t, i + 1, j))
    [] x = "primary" -> \/ Derives("name", t, i, j)
                        \/ t[i] = "(" /\ t[j] = ")" /\ Derives("ternary", t, i + 1, j - 1)
    [] x = "name" -> \/ i = j /\ t[i] \in {"id", "size"}
                     \/ j > i + 1 /\ t[j] = "size" /\ t[j - 1] = "." /\ Derives("name", t, i, j - 2)

\* What the descent accepts is exactly the grammar: greedy operators and properties
\* refuse nothing it derives, and no call, sequence or leftover is let in.
ParserIsGrammar == kind = "tokens" => (EffectFree(text) <=> Derives("ternary", text, 1, Len(text)))

\* src[i..j] is an expression: a name, one in parentheses, a call, or a name selected from a call.
RECURSIVE Expression(_, _, _)
Expression(src, i, j) ==
  LET name(m) == m <= j /\ \A k \in m..j : src[k] = "a" IN
  /\ i <= j
  /\ \/ name(i)
     \/ src[i] = "(" /\ src[j] = ")" /\ Expression(src, i + 1, j - 1)
     \/ \E k \in (i + 1)..j : /\ Expression(src, i, k - 1)
                             /\ \/ src[k] = "()." /\ name(k + 1)
                                \/ /\ src[k] = "(" /\ src[j] = ")"
                                   /\ k + 1 = j \/ Expression(src, k + 1, j - 1)

\* "a prefix/suffix, comma/boolean/arithmetic/ternary sibling, assignment, or second call leaves
\* residual expression scope and returns null" (directLocalCallExpression): an expression taken
\* for one direct call holds no second call.
SecondCallIsRefused ==
  kind = "call" /\ Expression(text, 1, Len(text)) /\ DirectCall(text) => Cardinality(Calls(text)) = 1

\* The four readings of local code against what the language says of the same text.
LocalReadingIsExact == SplitConserves /\ DirectCallIsWhole /\ LexIsExact /\ ParserIsGrammar
=============================================================================
