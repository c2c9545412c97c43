-------------------------------- MODULE Jsmn --------------------------------
(***************************************************************************)
(* savestate/jsmn.c: the parser that fills an array of tokens, compiled    *)
(* with neither JSMN_STRICT nor JSMN_PARENT_LINKS.                         *)
(*                                                                         *)
(* A text is a sequence of lexemes: a mark, a string, a number. A text     *)
(* that was cut short may end in a string with no closing quote. Blanks    *)
(* are left out. A token holds the lexeme its start and end point to.      *)
(***************************************************************************)
EXTENDS Integers, Sequences

CONSTANT MAX_JSON_TOKENS

Mark(c)     == [kind |-> c, name |-> "none", number |-> 0, blob |-> <<>>]
Str(s)      == [Mark("string") EXCEPT !.name = s]
Num(n)      == [Mark("number") EXCEPT !.number = n]
Blob(text)  == [Mark("string") EXCEPT !.blob = text]
Unclosed    == Mark("unclosed")       \* a string with no quote before the end
Unescapable == Mark("unescapable")    \* a string with a backslash jsmn does not know

Token(x) == [lexeme |-> x, size |-> 0]
Opener == [c \in {"object_end", "array_end"} |-> IF c = "object_end" THEN "object" ELSE "array"]

\* The parser: the tokens so far, those among them that are not closed, the one
\* that counts its children (0 for none), the result.
jsmn_init == [tokens |-> <<>>, open |-> <<>>, toksuper |-> 0, result |-> "ok"]
Failed(p, error) == [p EXCEPT !.result = error]
Innermost(open)  == IF open = <<>> THEN 0 ELSE open[Len(open)]

\* A token is taken from the pool, and its parent counts it.
Allocated(p, token) ==
  IF Len(p.tokens) >= MAX_JSON_TOKENS THEN Failed(p, "NOMEM")
  ELSE LET q == [p EXCEPT !.tokens = Append(@, token)]
       IN IF p.toksuper = 0 THEN q ELSE [q EXCEPT !.tokens[p.toksuper].size = @ + 1]

Opened(p, x) ==
  LET q == Allocated(p, Token(x))
      i == Len(q.tokens)
  IN IF q.result = "ok" THEN [q EXCEPT !.open = Append(@, i), !.toksuper = i] ELSE q

Closed(p, c) ==
  LET outer == SubSeq(p.open, 1, Len(p.open) - 1)
  IN IF p.open = <<>> \/ p.tokens[Innermost(p.open)].lexeme.kind # Opener[c] THEN Failed(p, "INVAL")
     ELSE [p EXCEPT !.open = outer, !.toksuper = Innermost(outer)]

\* After a colon the key counts its value; a comma goes back to the object.
CommaFault(p) == p

Comma(p) ==
  IF p.toksuper # 0 /\ p.tokens[p.toksuper].lexeme.kind \notin {"object", "array"} /\ p.open # <<>>
  THEN [p EXCEPT !.toksuper = Innermost(p.open)] ELSE p

Lexeme(p, x) ==
  CASE x.kind \in {"object", "array"} -> Opened(p, x)
    [] x.kind \in {"object_end", "array_end"} -> Closed(p, x.kind)
    [] x.kind = "colon"      -> [p EXCEPT !.toksuper = Len(p.tokens)]
    [] x.kind = "comma"      -> Comma(p)
    [] x.kind \in {"string", "number"} -> Allocated(p, Token(x))
    [] x.kind = "unclosed"    -> Failed(p, "PART")
    [] x.kind = "unescapable" -> Failed(p, "INVAL")

\* The lexemes after the first n, up to STRIDE of them, and all of them: in strides, as
\* TLC's stack is not as deep as a text is long.
STRIDE == 20

Stride(p, text, n) ==
  LET after[i \in 0..STRIDE] ==
        IF i = 0 THEN p
        ELSE LET q == after[i - 1]
             IN IF q.result # "ok" \/ n + i > Len(text) THEN q ELSE Lexeme(q, text[n + i])
  IN after[STRIDE]

Lexemes(text) ==
  LET after[k \in 0..((Len(text) + STRIDE - 1) \div STRIDE)] ==
        IF k = 0 THEN jsmn_init
        ELSE LET p == after[k - 1]
             IN IF p.result # "ok" THEN p ELSE Stride(p, text, STRIDE * (k - 1))
  IN after[(Len(text) + STRIDE - 1) \div STRIDE]

\* What was parsed before an error stays in the tokens.
jsmn_parse(text) ==
  LET end == Lexemes(text)
  IN IF end.result = "ok" /\ end.open # <<>> THEN Failed(end, "PART") ELSE end
=============================================================================
