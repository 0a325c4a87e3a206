----------------------------- MODULE KernelText -----------------------------
(***************************************************************************)
(* Functions on text: usr/lib/string.c and those of the shell              *)
(* (usr/commands.c).  A text is a sequence of characters, without its end  *)
(* mark; a pointer into it is an index, one past its length at the mark.   *)
(* Every step applies one function to one input; the properties compare    *)
(* the result with what the function is for.                               *)
(***************************************************************************)
EXTENDS Integers, Sequences, SequencesExt

CONSTANTS
  Patterns, Texts,  \* arguments of the matchers and searches
  Sums,             \* terms <<operator, whole, fraction>> of expressions
  SumLength,        \* bound: terms of an expression
  Pieces,           \* pieces of a text with variables: <<"lit", c>>, <<"var", v>>, <<"braced", v>>
  PieceCount,       \* bound: pieces of a text
  Keystrokes,       \* characters typed to kgets
  KeystrokeCount,   \* bound: characters typed
  GetsLimit         \* length of kgets's array

VARIABLE applied    \* what was applied to which input, with the result

At(s, i) == IF i \in DOMAIN s THEN s[i] ELSE "end"
Rest(s, i) == SubSeq(s, i, Len(s))
DigitChars == <<"0", "1", "2", "3", "4", "5", "6", "7", "8", "9">>
Value(c) == (CHOOSE d \in 1..10 : DigitChars[d] = c) - 1
IsDigit(c) == \E d \in 1..10 : DigitChars[d] = c
Upto(s) == 1..(Len(s) + 1)
\* First index from i on that is not a digit
DigitsEnd(s, i) == CHOOSE j \in i..(Len(s) + 1) :
  /\ ~IsDigit(At(s, j)) /\ \A k \in i..(j - 1) : IsDigit(s[k])
\* The number read from the digits between two indices
NumberIn(s, i, j) ==
  LET n[k \in (i - 1)..(j - 1)] == IF k < i THEN 0 ELSE 10 * n[k - 1] + Value(s[k])
  IN n[j - 1]
Decimal[n \in Nat] ==
  IF n < 10 THEN <<DigitChars[n + 1]>> ELSE Append(Decimal[n \div 10], DigitChars[(n % 10) + 1])

-----------------------------------------------------------------------------
(* string.c; 0 stands for the null pointer *)

FirstOf(S) == IF S = {} THEN 0 ELSE CHOOSE i \in S : \A j \in S : i <= j
LastOf(S) == IF S = {} THEN 0 ELSE CHOOSE i \in S : \A j \in S : j <= i

\* The end mark is a character of the text for strchr and strrchr
Strchr(s, c) == FirstOf({ i \in Upto(s) : At(s, i) = c })
Strrchr(s, c) == LastOf({ i \in Upto(s) : At(s, i) = c })

\* strstr: at each index, compare while both go on; found if the needle ended
Agrees(h, n, i) ==
  LET same[k \in 1..(Len(n) + 1)] ==
        k > Len(n) \/ (At(h, i + k - 1) = n[k] /\ same[k + 1])
  IN same[1]
Strstr(h, n) ==
  IF n = <<>> THEN 1 ELSE FirstOf({ i \in 1..Len(h) : Agrees(h, n, i) })

\* strcmp: index of the first difference and the characters there
Strcmp(a, b) ==
  LET k == CHOOSE i \in 1..(Len(a) + 1) :
             /\ i > Len(a) \/ a[i] /= At(b, i)
             /\ \A j \in 1..(i - 1) : a[j] = At(b, j)
  IN <<At(a, k), At(b, k)>>

Strcat(dest, src) == dest \o src
\* strncpy: n characters, "end" for the zeros that fill up; no mark if src is longer
Strncpy(src, n) == [i \in 1..n |-> At(src, i)]

Atoi(s) == NumberIn(s, 1, DigitsEnd(s, 1))

\* simple_strtol: base 0 means what the text begins with says
Strtol(s) ==
  LET hex == At(s, 1) = "0" /\ At(s, 2) \in {"x", "X"}
      base == IF hex THEN 16 ELSE IF At(s, 1) = "0" THEN 8 ELSE 10
      from == IF hex THEN 3 ELSE IF base = 8 THEN 2 ELSE 1
      digit(c) == IF IsDigit(c) THEN Value(c)
                  ELSE IF c \in {"a", "A"} THEN 10 ELSE IF c \in {"b", "B"} THEN 11 ELSE 99
      n[i \in Upto(s), r \in Nat] ==
        IF digit(At(s, i)) >= base THEN r ELSE n[i + 1, r * base + digit(s[i])]
  IN n[from, 0]

\* strtok: skip delimiters, cut at the next one; last is the rest or NULL
Strtok(last, delim) ==
  LET i == FirstOf({ k \in DOMAIN last : last[k] /= delim })
      j == FirstOf({ k \in i..Len(last) : last[k] = delim })
  IN IF i = 0 THEN [token |-> <<>>, last |-> <<>>, none |-> TRUE]
     ELSE IF j = 0 THEN [token |-> Rest(last, i), last |-> <<>>, none |-> FALSE]
     ELSE [token |-> SubSeq(last, i, j - 1), last |-> Rest(last, j + 1), none |-> FALSE]

\* Calls of strtok until it gives none
Tokens(s, delim) ==
  LET t[n \in 0..Len(s), last \in Seq({"a", "b", " ", "*"})] ==
        LET r == Strtok(last, delim) IN
        IF r.none THEN <<>> ELSE <<r.token>> \o (IF n = 0 THEN <<>> ELSE t[n - 1, r.last])
  IN t[Len(s), s]

\* kgets: ends at a line end or, without an end mark, when the array is full
Kgets(keys, limit) ==
  LET g[i \in Upto(keys), buf \in Seq({"a", "b", " "})] ==
        IF Len(buf) >= limit - 1 THEN [line |-> buf, marked |-> FALSE]
        ELSE IF i > Len(keys) THEN [line |-> buf, marked |-> FALSE]
        ELSE IF keys[i] \in {"LF", "CR"} THEN [line |-> buf, marked |-> TRUE]
        ELSE IF keys[i] = "BS" THEN g[i + 1, IF buf = <<>> THEN buf ELSE Front(buf)]
        ELSE g[i + 1, Append(buf, keys[i])]
  IN g[1, <<>>]

\* kscanf of a format of %d, %s, %c and blanks: the values
Kscanf(format, input) ==
  LET word(i) == FirstOf({ k \in i..(Len(input) + 1) : At(input, k) \in {" ", "end"} })
      s[f \in 1..(Len(format) + 1), i \in Nat] ==
        IF f > Len(format) THEN <<>>
        ELSE IF format[f] = "%d" THEN <<Atoi(Rest(input, i))>> \o s[f + 1, word(i)]
        ELSE IF format[f] = "%s" THEN <<SubSeq(input, i, word(i) - 1)>> \o s[f + 1, word(i)]
        ELSE IF format[f] = "%c" THEN <<At(input, i)>> \o s[f + 1, i + 1]
        ELSE s[f + 1, FirstOf({ k \in i..(Len(input) + 1) : At(input, k) /= " " })]
  IN s[1, 1]

-----------------------------------------------------------------------------
(* commands.c *)

\* match_wildcard, for names of ramfs files
MatchWildcard(p, t) ==
  LET m[i \in Upto(p), j \in Upto(t)] ==
        IF i > Len(p) \/ j > Len(t)
        THEN (i = Len(p) /\ At(p, i) = "*") \/ (i > Len(p) /\ j > Len(t))
        ELSE IF p[i] = "*" THEN i = Len(p) \/ \E k \in j..Len(t) : m[i + 1, k]
        ELSE p[i] = t[j] /\ m[i + 1, j + 1]
  IN m[1, 1]

MatchPattern_FirstOnly(p, t) ==
  LET m[i \in Upto(p), j \in Upto(t)] ==
        IF i > Len(p) THEN j > Len(t)
        ELSE IF p[i] = "*" THEN i = Len(p) \/ (j <= Len(t) /\ m[i + 1, j])
        ELSE At(t, j) = p[i] /\ m[i + 1, j + 1]
  IN m[1, 1]

\* match_pattern, the other one
MatchPattern(p, t) ==
  LET m[i \in Upto(p), j \in Upto(t)] ==
        IF i > Len(p) THEN j > Len(t)
        ELSE IF p[i] = "*" THEN i = Len(p) \/ \E k \in j..Len(t) : m[i + 1, k]
        ELSE At(t, j) = p[i] /\ m[i + 1, j + 1]
  IN m[1, 1]

PRECISION == 100
\* Division of C: towards zero
Quotient(a, b) == IF (a < 0) = (b < 0) THEN (IF a < 0 THEN (-a) \div (-b) ELSE a \div b)
                  ELSE IF a < 0 THEN -((-a) \div b) ELSE -(a \div (-b))
Operate(op, res, num) ==
  CASE op = "+" -> res + num
    [] op = "-" -> res - num
    [] op \in {"*", "x"} -> Quotient(res * num, PRECISION)
    [] op = "/" -> IF num = 0 THEN res ELSE Quotient(res * PRECISION, num)

\* evaluate_arithmetic: from the left, without precedence, in hundredths
EvaluateArithmetic(e) ==
  LET ev[i \in Upto(e), res \in Int, op \in {"+", "-", "*", "x", "/"}] ==
        IF i > Len(e) THEN res
        ELSE IF ~IsDigit(e[i])
        THEN ev[i + 1, res, IF e[i] \in {"+", "-", "*", "x", "/"} THEN e[i] ELSE op]
        ELSE LET j == DigitsEnd(e, i)
                 point == At(e, j) = "."
                 k == IF point THEN DigitsEnd(e, j + 1) ELSE j
                 tenths == IF point /\ k > j + 1 THEN 10 * Value(e[j + 1]) ELSE 0
                 cents == IF point /\ k > j + 2 THEN Value(e[j + 2]) ELSE 0
             IN ev[k, Operate(op, res, PRECISION * NumberIn(e, i, j) + tenths + cents), op]
  IN ev[1, 0, "+"]

\* get_args: the command and what follows its first blank
GetArgs(s) ==
  LET i == FirstOf({ k \in Upto(s) : At(s, k) \in {" ", "end"} })
  IN <<SubSeq(s, 1, i - 1), Rest(s, i + 1)>>

\* parse_ip: four parts, each a byte
ParseIp(s) ==
  LET ip[part \in 0..3, i \in Nat] ==
        LET j == DigitsEnd(s, i)
            next == IF At(s, j) = "." THEN j + 1 ELSE j
        IN <<NumberIn(s, i, j) % 256>> \o (IF part = 3 THEN <<>> ELSE ip[part + 1, next])
  IN ip[0, 1]

\* has_permission: a mode of 0 allows everything; any of the three bits will do
HasPermission(mode, mask) == mode = {} \/ mask \in mode

VarChars == {"A", "B", "0", "_"}
Env(v) == IF v = <<"A">> THEN <<"v", "w">> ELSE IF v = <<"A", "B">> THEN <<"y">> ELSE <<>>
ExpandVariables_KeepsBrace(s) ==
  LET x[i \in 1..(Len(s) + 2)] ==
        IF i > Len(s) THEN <<>>
        ELSE IF s[i] = "$" /\ i < Len(s)
        THEN LET b == IF s[i + 1] = "{" THEN 1 ELSE 0
                 j == FirstOf({ k \in (i + 1 + b)..(Len(s) + 1) : At(s, k) \notin VarChars })
             IN Env(SubSeq(s, i + 1 + b, j - 1)) \o x[j]
        ELSE <<s[i]>> \o x[i + 1]
  IN x[1]

\* expand_variables, where variable v has the value Env(v)
ExpandVariables(s) ==
  LET x[i \in 1..(Len(s) + 2)] ==
        IF i > Len(s) THEN <<>>
        ELSE IF s[i] = "$" /\ i < Len(s)
        THEN LET b == IF s[i + 1] = "{" THEN 1 ELSE 0
                 j == FirstOf({ k \in (i + 1 + b)..(Len(s) + 1) : At(s, k) \notin VarChars })
                 k == IF b = 1 /\ At(s, j) = "}" THEN j + 1 ELSE j
             IN Env(SubSeq(s, i + 1 + b, j - 1)) \o x[k]
        ELSE <<s[i]>> \o x[i + 1]
  IN x[1]

-----------------------------------------------------------------------------
Apply(f, in, out) == applied.f = "none" /\ applied' = [f |-> f, in |-> in, out |-> out]

Strings(n, S) == UNION { [1..k -> S] : k \in 0..n }
Term(t) == <<t[1]>> \o Decimal[t[2]] \o (IF t[3] < 0 THEN <<>> ELSE <<".">> \o Decimal[t[3]])
Expression(ts) == FlattenSeq([i \in DOMAIN ts |-> Term(ts[i])])
Piece(p) == CASE p[1] = "lit" -> <<p[2]>>
              [] p[1] = "var" -> <<"$">> \o p[2]
              [] p[1] = "braced" -> <<"$", "{">> \o p[2] \o <<"}">>

TextInit == applied = [f |-> "none", in |-> <<>>, out |-> <<>>]
TextNext ==
  \/ \E p \in Patterns, t \in Texts :
       Apply("match", <<p, t>>, <<MatchWildcard(p, t), MatchPattern(p, t)>>)
  \/ \E h \in Texts, n \in Texts :
       Apply("search", <<h, n>>,
             [strstr |-> Strstr(h, n), strcmp |-> Strcmp(h, n), strcat |-> Strcat(h, n),
              strncpy |-> Strncpy(h, Len(n))])
  \/ \E t \in Patterns :
       Apply("tokens", t, [tokens |-> Tokens(t, "*"), args |-> GetArgs(t),
                           first |-> Strchr(t, "*"), last |-> Strrchr(t, "*")])
  \/ \E ts \in Strings(SumLength, Sums) :
       Apply("sum", ts, EvaluateArithmetic(Expression(ts)))
  \/ \E ps \in Strings(PieceCount, Pieces) :
       Apply("expand", ps, ExpandVariables(FlattenSeq([i \in DOMAIN ps |-> Piece(ps[i])])))
  \/ \E ks \in Strings(KeystrokeCount, Keystrokes) :
       Apply("gets", ks, Kgets(ks, GetsLimit))
  \/ \E a, b \in {0, 7, 10, 192, 255, 256}, c \in {"a", "."} :
       Apply("numbers", <<a, b>>,
             [ip |-> ParseIp(Decimal[a] \o <<".">> \o Decimal[b] \o <<c>>),
              atoi |-> Atoi(Decimal[a] \o <<c>>), strtol |-> Strtol(Decimal[a] \o <<c>>),
              hex |-> Strtol(<<"0", "x">> \o Decimal[a]),
              scan |-> Kscanf(<<"%d", " ", "%s">>, Decimal[a] \o <<" ", " ">> \o Decimal[b])])
  \/ \E mode \in SUBSET {"r", "w", "x"}, mask \in {"r", "w", "x"} :
       Apply("permission", <<mode, mask>>, HasPermission(mode, mask))

-----------------------------------------------------------------------------
(* What the functions are for *)

\* t is p with each star replaced by some text: cut[i] is where p's i-th character begins
Glob(p, t) ==
  \E cut \in [Upto(p) -> Upto(t)] :
    /\ cut[1] = 1 /\ cut[Len(p) + 1] = Len(t) + 1
    /\ \A i \in DOMAIN p :
         IF p[i] = "*" THEN cut[i] <= cut[i + 1]
         ELSE cut[i + 1] = cut[i] + 1 /\ At(t, cut[i]) = p[i]

\* The two matchers of the shell agree on every pattern and name and accept the
\* names a star stands for (of two stars in a row the second must match something).
MatchersAgree ==
  applied.f = "match" =>
    LET p == applied.in[1]  t == applied.in[2] IN
    /\ applied.out[1] = applied.out[2]
    /\ (\A i \in 1..(Len(p) - 1) : p[i] = "*" => p[i + 1] /= "*") =>
         (applied.out[1] <=> Glob(p, t))

\* No scanner loses its place: tokens are the text without its delimiters, the
\* value of an expression is that of its terms from left to right, a text with
\* variables becomes its pieces' values, a line typed with erases is what is left
\* of it, and a number is followed by what followed it.
Hundredths(t) == 100 * t[2] + (IF t[3] < 0 THEN 0 ELSE IF t[3] < 10 THEN 10 * t[3] ELSE t[3])
SumValue(ts) ==
  LET v[i \in 0..Len(ts)] == IF i = 0 THEN 0 ELSE Operate(ts[i][1], v[i - 1], Hundredths(ts[i]))
  IN v[Len(ts)]
Unambiguous(ps) ==
  \A i \in 1..(Len(ps) - 1) : ps[i][1] = "var" /\ ps[i + 1][1] = "lit" => ps[i + 1][2] \notin VarChars
Typed(ks) ==
  LET l[i \in 0..Len(ks)] ==
        IF i = 0 THEN <<>>
        ELSE IF ks[i] = "BS" THEN SubSeq(l[i - 1], 1, Len(l[i - 1]) - 1) ELSE Append(l[i - 1], ks[i])
  IN l[Len(ks)]
Found(h, n, i) == i + Len(n) - 1 <= Len(h) /\ SubSeq(h, i, i + Len(n) - 1) = n

ScannersAgree ==
  LET in == applied.in  out == applied.out IN
  CASE applied.f = "search" ->
         /\ IF out.strstr = 0 THEN \A i \in 1..(Len(in[1]) + 1) : ~Found(in[1], in[2], i)
            ELSE Found(in[1], in[2], out.strstr)
         /\ (out.strcmp[1] = out.strcmp[2]) <=> (in[1] = in[2])
    [] applied.f = "tokens" ->
         /\ FlattenSeq(out.tokens) = SelectSeq(in, LAMBDA c : c /= "*")
         /\ <<>> \notin ToSet(out.tokens)
         /\ (out.first = 0) <=> (out.last = 0)
    [] applied.f = "sum" -> out = SumValue(in)
    [] applied.f = "expand" ->
         Unambiguous(in) =>
           out = FlattenSeq([i \in DOMAIN in |-> IF in[i][1] = "lit" THEN <<in[i][2]>> ELSE Env(in[i][2])])
    [] applied.f = "gets" ->
         LET n == FirstOf({ i \in DOMAIN in : in[i] = "LF" }) IN
         out.marked => n > 0 /\ out.line = Typed(SubSeq(in, 1, n - 1))
    [] applied.f = "numbers" ->
         /\ out.atoi = in[1] /\ out.ip = <<in[1] % 256, in[2] % 256, 0, 0>>
         /\ out.scan = <<in[1], Decimal[in[2]]>>
    [] OTHER -> TRUE
=============================================================================
