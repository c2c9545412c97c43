---------------------------- MODULE SessionProofs ----------------------------
(***************************************************************************)
(* Sessions: a load puts back the whole machine that was saved, and what   *)
(* the callbacks of the breakpoints are told, for every instruction set,   *)
(* every memory, every request and every sequence of stops, resets, saves  *)
(* and loads.                                                              *)
(*                                                                         *)
(* A load is whole for four reasons, proved in this order. The parser, run *)
(* over what savestate_save writes, leaves one token for each name, number *)
(* and string, and a parent that counts them (Reads, Tells, Lists). The    *)
(* first token of a name is followed by its value, so the file tells the   *)
(* machine; a file cut before the value of its ROM tells no ROM and is     *)
(* refused (FileTokens). What base64 encodes it decodes (BlobsComeBack).   *)
(* Every number of a machine the core can be in fits the variable it is    *)
(* read into, and its stage and its opcode tell the core's apart           *)
(* (CoreBack). WholeInv carries the last of these through the session.     *)
(***************************************************************************)
EXTENDS Session, Z80CoreProofs, FiniteSetTheorems, NaturalsInduction, WellFoundedInduction,
        SequenceTheorems, TLAPS

\* A set of naturals that has a member has a least one.
LEMMA Least ==
  ASSUME NEW T \in SUBSET Nat, T # {}
  PROVE  \E x \in T : \A y \in T : x <= y
<1> DEFINE R == OpToRel(<, Nat)
<1>1. \A x \in Nat, y \in Nat : <<x, y>> \in R <=> x < y
  BY DEF OpToRel
<1>2. IsWellFoundedOn(R, Nat)
  BY NatLessThanWellFounded
<1> HIDE DEF R
<1>3. PICK x \in T : \A y \in T : ~(<<y, x>> \in R)
  BY <1>2, WFMin
<1>4. \A y \in T : x <= y
  <2>1. SUFFICES ASSUME NEW y \in T PROVE x <= y
    OBVIOUS
  <2>2. x \in Nat /\ y \in Nat /\ ~(<<y, x>> \in R)
    BY <1>3
  <2>3. ~(y < x)
    BY <1>1, <2>2
  <2> QED
    BY <2>2, <2>3
<1> QED
  BY <1>4

\* Induction, for a property given as the set of numbers that have it.
LEMMA Inductive ==
  ASSUME NEW N \in Nat, NEW H, 0 \in H,
         \A n \in 0..(N - 1) : n \in H => n + 1 \in H
  PROVE  0..N \subseteq H
<1> DEFINE C == {n \in 0..N : n \notin H}
<1>1. SUFFICES ASSUME C # {} PROVE FALSE
  OBVIOUS
<1>2. PICK x \in C : \A y \in C : x <= y
  <2>1. C \in SUBSET Nat
    OBVIOUS
  <2> QED
    BY <1>1, <2>1, Least
<1>3. x \in 1..N
  BY <1>2
<1>4. x - 1 \in 0..(N-1) /\ (x - 1) \in H /\ x - 1 + 1 = x
  BY <1>2, <1>3
<1> QED
  BY <1>2, <1>3, <1>4

\* The recursion of FlattenSeq has a solution.
LEMMA FlattenSolved ==
  ASSUME NEW parts, NEW N \in Nat
  PROVE  \E f : f = [i \in 1..N |-> IF i = 1 THEN parts[i] ELSE f[i - 1] \o parts[i]]
<1> DEFINE Solves(f, n) == f = [i \in 1..n |-> IF i = 1 THEN parts[i] ELSE f[i - 1] \o parts[i]]
           H == {n \in Nat : \E f : Solves(f, n)}
<1>1. 0 \in H
  <2>1. [i \in 1..0 |-> 0] = [i \in 1..0 |-> IF i = 1 THEN parts[i] ELSE [j \in 1..0 |-> 0][i - 1] \o parts[i]]
    OBVIOUS
  <2> QED
    BY <2>1
<1>2. ASSUME NEW n \in 0..(N - 1), n \in H
      PROVE  n + 1 \in H
  <2>1. PICK f : Solves(f, n)
    BY <1>2
  <2> DEFINE g == [i \in 1..(n + 1) |-> IF i <= n THEN f[i] ELSE
                                        IF i = 1 THEN parts[i] ELSE f[i - 1] \o parts[i]]
  <2>2. ASSUME NEW i \in 1..(n + 1)
        PROVE  g[i] = IF i = 1 THEN parts[i] ELSE g[i - 1] \o parts[i]
    <3>1. CASE i = 1
      <4>1. 1 <= n => f[1] = parts[1]
        BY <2>1
      <4> QED
        BY <3>1, <4>1
    <3>2. CASE i # 1
      <4>1. g[i - 1] = f[i - 1]
        BY <3>2
      <4>2. i <= n => f[i] = f[i - 1] \o parts[i]
        <5>1. i <= n => i \in 1..n
          OBVIOUS
        <5> QED
          BY <2>1, <3>2, <5>1, Zenon
      <4> QED
        BY <3>2, <4>1, <4>2
    <3> QED
      BY <3>1, <3>2
  <2>3. DOMAIN g = 1..(n + 1) /\ g = [i \in 1..(n + 1) |-> g[i]]
    OBVIOUS
  <2> HIDE DEF g
  <2>4. Solves(g, n + 1)
    BY <2>2, <2>3, Zenon
  <2> HIDE DEF Solves
  <2> QED
    BY <2>4
<1> HIDE DEF H
<1>3. N \in H
  BY <1>1, <1>2, Inductive
<1> QED
  BY <1>3 DEF H

\* What FlattenSeq makes of a sequence of sequences.
LEMMA Flattens ==
  ASSUME NEW S, NEW parts \in Seq(Seq(S)), parts # <<>>
  PROVE  \E f \in [1..Len(parts) -> Seq(S)] :
           /\ f[1] = parts[1]
           /\ \A i \in 1..(Len(parts) - 1) : f[i + 1] = f[i] \o parts[i + 1]
           /\ FlattenSeq(parts) = f[Len(parts)]
<1> DEFINE N == Len(parts)
           flatten[i \in 1..N] == IF i = 1 THEN parts[i] ELSE flatten[i-1] \o parts[i]
<1>0. N \in Nat /\ N > 0 /\ N = Len(parts) /\ \A i \in 1..N : parts[i] \in Seq(S)
  BY SMTT(40)
<1>3. FlattenSeq(parts) = flatten[N]
  BY <1>0, SMTT(40) DEF FlattenSeq
<1> HIDE DEF N
<1>1. flatten = [i \in 1..N |-> IF i = 1 THEN parts[i] ELSE flatten[i-1] \o parts[i]]
  BY <1>0, FlattenSolved, Zenon
<1> HIDE DEF flatten
<1>2. \A i \in 1..N : flatten[i] = IF i = 1 THEN parts[i] ELSE flatten[i-1] \o parts[i]
  BY <1>1
<1>4. flatten[1] = parts[1]
  BY <1>0, <1>2
<1>5. ASSUME NEW i \in 1..(N - 1) PROVE flatten[i + 1] = flatten[i] \o parts[i + 1]
  <2>1. i + 1 \in 1..N /\ i + 1 # 1 /\ (i + 1) - 1 = i
    BY <1>0
  <2>2. flatten[i + 1] = flatten[(i + 1) - 1] \o parts[i + 1]
    BY <1>2, <2>1, Zenon
  <2> QED
    BY <2>1, <2>2
<1> DEFINE H == {i \in Nat : i + 1 \in 1..N => flatten[i + 1] \in Seq(S)}
<1>6. 0 \in H
  BY <1>0, <1>4
<1>7. ASSUME NEW i \in 0..(N - 1), i \in H PROVE i + 1 \in H
  <2>1. SUFFICES ASSUME (i + 1) + 1 \in 1..N PROVE flatten[(i + 1) + 1] \in Seq(S)
    BY <1>0
  <2>2. i + 1 \in 1..(N - 1) /\ flatten[i + 1] \in Seq(S) /\ parts[(i + 1) + 1] \in Seq(S)
    BY <1>0, <1>7, <2>1
  <2>3. flatten[(i + 1) + 1] = flatten[i + 1] \o parts[(i + 1) + 1]
    BY <1>5, <2>2, Zenon
  <2> QED
    BY <2>2, <2>3
<1> HIDE DEF H
<1>8. 0..N \subseteq H
  BY <1>0, <1>6, <1>7, Inductive
<1>9. ASSUME NEW i \in 1..N PROVE flatten[i] \in Seq(S)
  <2>1. i - 1 \in H /\ i - 1 + 1 = i
    BY <1>0, <1>8
  <2> QED
    BY <2>1 DEF H
<1>10. flatten \in [1..N -> Seq(S)]
  BY <1>1, <1>9
<1> QED
  BY <1>0, <1>3, <1>4, <1>5, <1>10, Zenon

\* A function on the first n numbers is a sequence.
LEMMA FunctionIsSeq ==
  ASSUME NEW S, NEW n \in Nat, NEW f \in [1..n -> S]
  PROVE  f \in Seq(S) /\ Len(f) = n
<1>1. f \in Seq(S)
  BY SeqDef
<1>2. 1..Len(f) = 1..n /\ Len(f) \in Nat
  BY <1>1, LenProperties
<1> QED
  BY <1>1, <1>2

\* One more part at the end.
LEMMA FlattensAppend ==
  ASSUME NEW S, NEW parts \in Seq(Seq(S)), NEW x \in Seq(S)
  PROVE  FlattenSeq(Append(parts, x)) = FlattenSeq(parts) \o x /\ FlattenSeq(parts) \in Seq(S)
<1> DEFINE N == Len(parts)
           more == Append(parts, x)
<1>1. /\ N \in Nat /\ more \in Seq(Seq(S)) /\ more # <<>> /\ Len(more) = N + 1
      /\ more[N + 1] = x /\ \A i \in 1..N : more[i] = parts[i]
  BY AppendProperties, LenProperties
<1>2. PICK g \in [1..(N + 1) -> Seq(S)] :
        /\ g[1] = more[1]
        /\ \A i \in 1..N : g[i + 1] = g[i] \o more[i + 1]
        /\ FlattenSeq(more) = g[N + 1]
  <2> HIDE DEF more, N
  <2>1. Len(more) - 1 = N
    BY <1>1
  <2>2. \E f \in [1..Len(more) -> Seq(S)] :
           /\ f[1] = more[1]
           /\ \A i \in 1..(Len(more) - 1) : f[i + 1] = f[i] \o more[i + 1]
           /\ FlattenSeq(more) = f[Len(more)]
    BY <1>1, Flattens
  <2> QED
    BY <1>1, <2>1, <2>2
<1>3. CASE parts = <<>>
  <2>1. FlattenSeq(parts) = <<>> /\ N = 0
    BY <1>3 DEF FlattenSeq
  <2>2. FlattenSeq(more) = x
    BY <1>1, <1>2, <2>1
  <2> QED
    BY <2>1, <2>2
<1>4. CASE parts # <<>>
  <2>1. PICK f \in [1..N -> Seq(S)] :
          /\ f[1] = parts[1]
          /\ \A i \in 1..(N - 1) : f[i + 1] = f[i] \o parts[i + 1]
          /\ FlattenSeq(parts) = f[N]
    BY <1>4, Flattens
  <2>0. N > 0
    BY <1>4
  <2> HIDE DEF more, N
  <2> DEFINE H == {i \in Nat : i + 1 \in 1..N => f[i + 1] = g[i + 1]}
  <2>2. 0 \in H
    <3>1. f[0 + 1] = g[0 + 1]
      BY <1>1, <1>2, <2>0, <2>1
    <3> QED
      BY <3>1
  <2>3. ASSUME NEW i \in 0..(N - 1), i \in H PROVE i + 1 \in H
    <3>1. SUFFICES ASSUME (i + 1) + 1 \in 1..N PROVE f[(i + 1) + 1] = g[(i + 1) + 1]
      BY <1>1
    <3>2. i + 1 \in 1..(N - 1) /\ i + 1 \in 1..N /\ f[i + 1] = g[i + 1]
      BY <1>1, <2>3, <3>1
    <3>3. f[(i + 1) + 1] = f[i + 1] \o parts[(i + 1) + 1]
      BY <2>1, <3>2, Zenon
    <3>4. g[(i + 1) + 1] = g[i + 1] \o more[(i + 1) + 1]
      BY <1>2, <3>2, Zenon
    <3> QED
      BY <1>1, <3>1, <3>2, <3>3, <3>4
  <2> HIDE DEF H
  <2>4. 0..N \subseteq H
    BY <1>1, <2>2, <2>3, Inductive
  <2>5. f[N] = g[N]
    <3>1. N - 1 \in H /\ N - 1 + 1 = N
      BY <1>1, <2>0, <2>4
    <3> QED
      BY <2>0, <3>1, <1>1 DEF H
  <2>6. g[N + 1] = g[N] \o more[N + 1]
    <3>1. N \in 1..N
      BY <1>1, <2>0
    <3> QED
      BY <1>2, <3>1, Zenon
  <2>7. f[N] \in Seq(S)
    BY <1>1, <2>0, <2>1
  <2> QED
    BY <1>1, <1>2, <2>1, <2>5, <2>6, <2>7 DEF more
<1> QED
  BY <1>3, <1>4

\* Parts are joined one by one.
LEMMA JoinedMore ==
  ASSUME NEW S, NEW parts \in Seq(Seq(S)), parts # <<>>, NEW q \in Seq(S), Mark("comma") \in S
  PROVE  /\ Joined(Append(parts, q)) = (Joined(parts) \o <<Mark("comma")>>) \o q
         /\ Joined(parts) \in Seq(S)
<1> DEFINE n == Len(parts)
           c == Mark("comma")
           first == [i \in 1..(n - 1) |-> Append(parts[i], c)]
           last == parts[n]
           most == Append(first, Append(last, c))
           more == Append(parts, q)
<1>0. c = Mark("comma") /\ c \in S
  OBVIOUS
<1> HIDE DEF c
<1>1. n \in Nat /\ n > 0 /\ last \in Seq(S) /\ \A i \in 1..n : parts[i] \in Seq(S)
  BY LenProperties, EmptySeq, ElementOfSeq
<1>a. DOMAIN parts = 1..n /\ n = Len(parts)
  BY LenProperties
<1>2. first \in Seq(Seq(S)) /\ Len(first) = n - 1
  <2>1. \A i \in 1..(n - 1) : Append(parts[i], c) \in Seq(S)
    BY <1>0, <1>1, AppendProperties
  <2>2. first \in [1..(n - 1) -> Seq(S)]
    BY <2>1
  <2>3. n - 1 \in Nat
    BY <1>1
  <2> QED
    BY <2>2, <2>3, FunctionIsSeq, ZenonT(40)
<1>3. Append(last, c) \in Seq(S)
  BY <1>0, <1>1, AppendProperties
<1>b. \A i \in 1..(n - 1) : first[i] = Append(parts[i], c)
  BY SMTT(40)
<1>c. last = parts[n]
  OBVIOUS
<1>d. /\ more \in Seq(Seq(S)) /\ Len(more) = n + 1 /\ more[n + 1] = q
      /\ \A i \in 1..n : more[i] = parts[i]
  BY AppendProperties
<1> HIDE DEF n, first, last, more
<1>4. [i \in DOMAIN parts |-> IF i < Len(parts) THEN Append(parts[i], c) ELSE parts[i]]
        = Append(first, last)
  <2> DEFINE s == [i \in 1..n |-> IF i < n THEN Append(parts[i], c) ELSE parts[i]]
             t == Append(first, last)
  <2>1. t \in Seq(Seq(S)) /\ Len(t) = n /\ (\A i \in 1..(n - 1) : t[i] = first[i]) /\ t[n] = last
    <3>1. Len(first) + 1 = n
      BY <1>1, <1>2
    <3> QED
      BY <1>1, <1>2, <3>1, AppendProperties
  <2>2. DOMAIN t = 1..n /\ t = [i \in DOMAIN t |-> t[i]]
    BY <2>1, LenProperties
  <2> HIDE DEF t
  <2>3. ASSUME NEW i \in 1..n PROVE t[i] = IF i < n THEN Append(parts[i], c) ELSE parts[i]
    <3>1. CASE i < n
      <4>1. i \in 1..(n - 1)
        BY <1>1, <3>1
      <4>2. t[i] = Append(parts[i], c)
        BY <1>b, <2>1, <4>1, Zenon
      <4> QED
        BY <3>1, <4>2
    <3>2. CASE ~(i < n)
      <4>1. i = n
        BY <1>1, <3>2
      <4> QED
        BY <1>c, <2>1, <3>2, <4>1, Zenon
    <3> QED
      BY <3>1, <3>2
  <2>4. s = t
    BY <2>2, <2>3
  <2> QED
    BY <1>a, <2>4, Zenon DEF t
<1>5. [i \in DOMAIN more |-> IF i < Len(more) THEN Append(more[i], c) ELSE more[i]]
        = Append(most, q)
  <2> DEFINE t == Append(most, q)
  <2>1. /\ most \in Seq(Seq(S)) /\ Len(most) = n /\ (\A i \in 1..(n - 1) : most[i] = first[i])
        /\ most[n] = Append(last, c)
    <3>1. Len(first) + 1 = n
      BY <1>1, <1>2
    <3> QED
      BY <1>1, <1>2, <1>3, <3>1, AppendProperties
  <2> HIDE DEF most
  <2>2. t \in Seq(Seq(S)) /\ Len(t) = n + 1 /\ (\A i \in 1..n : t[i] = most[i]) /\ t[n + 1] = q
    BY <1>1, <2>1, AppendProperties
  <2>3. DOMAIN t = 1..(n + 1) /\ t = [i \in DOMAIN t |-> t[i]]
    BY <2>2, LenProperties
  <2> HIDE DEF t
  <2>4. ASSUME NEW i \in 1..(n + 1)
        PROVE  t[i] = IF i < n + 1 THEN Append(more[i], c) ELSE more[i]
    <3>1. CASE i < n
      <4>1. i \in 1..(n - 1) /\ i \in 1..n
        BY <1>1, <3>1
      <4>2. QED
        <5>1. t[i] = most[i] /\ most[i] = first[i] /\ first[i] = Append(parts[i], c) /\ more[i] = parts[i]
          BY <1>b, <1>d, <2>1, <2>2, <4>1, Zenon
        <5>2. i < n + 1
          BY <1>1, <3>1
        <5> QED
          BY <5>1, <5>2
    <3>2. CASE i = n
      <4>1. i \in 1..n
        BY <1>1, <3>2
      <4>2. t[i] = most[n] /\ most[n] = Append(last, c) /\ more[i] = last
        BY <1>c, <1>d, <2>1, <2>2, <3>2, <4>1, Zenon
      <4>3. i < n + 1
        BY <1>1, <3>2
      <4> QED
        BY <1>c, <3>2, <1>d, <4>1, <4>2, <4>3
    <3>3. CASE i = n + 1
      BY <1>1, <1>d, <2>2, <3>3
    <3> QED
      BY <1>1, <3>1, <3>2, <3>3
  <2>5. DOMAIN more = 1..(n + 1)
    BY <1>d, LenProperties
  <2>6. [i \in 1..(n + 1) |-> IF i < n + 1 THEN Append(more[i], c) ELSE more[i]] = t
    BY <2>3, <2>4
  <2> QED
    BY <1>d, <2>5, <2>6 DEF t
<1>6. Joined(parts) = FlattenSeq(first) \o last /\ FlattenSeq(first) \in Seq(S)
  BY <1>0, <1>1, <1>2, <1>4, FlattensAppend DEF Joined
<1>7. Joined(more) = FlattenSeq(Append(most, q))
  BY <1>0, <1>5 DEF Joined
<1>8. most \in Seq(Seq(S))
  BY <1>2, <1>3, AppendProperties
<1>10. FlattenSeq(most) = FlattenSeq(first) \o Append(last, c)
  BY <1>2, <1>3, FlattensAppend
<1> HIDE DEF most
<1>9. Joined(more) = FlattenSeq(most) \o q
  BY <1>7, <1>8, FlattensAppend
<1>11. FlattenSeq(first) \o Append(last, c) = (FlattenSeq(first) \o last) \o <<c>>
  <2>1. Append(last, c) = last \o <<c>> /\ <<c>> \in Seq(S)
    <3>1. <<c>> \in [1..1 -> S]
      BY <1>0
    <3> QED
      BY <1>0, <1>1, <3>1, AppendIsConcat, FunctionIsSeq
  <2> QED
    BY <1>1, <1>6, <2>1, ConcatAssociative
<1>12. Joined(parts) \in Seq(S)
  BY <1>1, <1>6, ConcatProperties
<1> QED
  BY <1>0, <1>6, <1>9, <1>10, <1>11, <1>12 DEF more

\* A single part is left alone, and there may be none.
LEMMA JoinedOne ==
  ASSUME NEW S, NEW q \in Seq(S)
  PROVE  Joined(<<q>>) = q /\ Joined(<<>>) = <<>>
<1>1. [i \in DOMAIN <<q>> |-> IF i < Len(<<q>>) THEN Append(<<q>>[i], Mark("comma")) ELSE <<q>>[i]]
        = Append(<<>>, q)
  BY DEF Mark
<1>2. FlattenSeq(<<>>) = <<>> /\ <<>> \in Seq(Seq(S))
  BY DEF FlattenSeq
<1>3. FlattenSeq(Append(<<>>, q)) = <<>> \o q
  BY <1>2, FlattensAppend
<1>4. Joined(<<q>>) = FlattenSeq(Append(<<>>, q))
  BY <1>1 DEF Joined
<1>5. Joined(<<>>) = <<>>
  <2>1. [i \in DOMAIN <<>> |-> IF i < Len(<<>>) THEN Append(<<>>[i], Mark("comma")) ELSE <<>>[i]] = <<>>
    BY DEF Mark
  <2> QED
    BY <1>2, <2>1 DEF Joined
<1> QED
  BY <1>3, <1>4, <1>5

-----------------------------------------------------------------------------
(***************************************************************************)
(* The parser.                                                             *)
(***************************************************************************)

\* One lexeme more, unless there has been an error.
Parsed(p, x) == IF p.result # "ok" THEN p ELSE Lexeme(p, x)

\* The states of the parser from p on, after each of the first N lexemes of text.
Parsing(f, p, text, N) == f = [i \in 0..N |-> IF i = 0 THEN p ELSE Parsed(f[i - 1], text[i])]
States(p, text)        == CHOOSE f : Parsing(f, p, text, Len(text))
After(p, text)         == States(p, text)[Len(text)]

\* There are such states.
LEMMA ParsingSolved ==
  ASSUME NEW p, NEW text, NEW N \in Nat
  PROVE  \E f : Parsing(f, p, text, N)
<1> DEFINE H == {n \in Nat : \E f : Parsing(f, p, text, n)}
<1>1. 0 \in H
  <2>1. Parsing([i \in 0..0 |-> p], p, text, 0)
    BY DEF Parsing
  <2> QED
    BY <2>1
<1>2. ASSUME NEW n \in 0..(N - 1), n \in H
      PROVE  n + 1 \in H
  <2>1. PICK f : Parsing(f, p, text, n)
    BY <1>2
  <2> DEFINE g == [i \in 0..(n + 1) |-> IF i <= n THEN f[i] ELSE Parsed(f[i - 1], text[i])]
  <2>2. ASSUME NEW i \in 0..(n + 1)
        PROVE  g[i] = IF i = 0 THEN p ELSE Parsed(g[i - 1], text[i])
    <3>1. CASE i = 0
      BY <2>1, <3>1 DEF Parsing
    <3>2. CASE i # 0
      <4>1. i - 1 \in 0..n /\ g[i - 1] = f[i - 1]
        BY <3>2
      <4>2. i <= n => f[i] = Parsed(f[i - 1], text[i])
        <5>1. i <= n => i \in 0..n
          OBVIOUS
        <5> QED
          BY <2>1, <3>2, <5>1, Zenon DEF Parsing
      <4> QED
        BY <3>2, <4>1, <4>2
    <3> QED
      BY <3>1, <3>2
  <2>3. DOMAIN g = 0..(n + 1) /\ g = [i \in 0..(n + 1) |-> g[i]]
    OBVIOUS
  <2> HIDE DEF g
  <2>4. Parsing(g, p, text, n + 1)
    BY <2>2, <2>3, Zenon DEF Parsing
  <2> QED
    BY <2>4
<1> HIDE DEF H
<1>3. N \in H
  BY <1>1, <1>2, Inductive
<1> QED
  BY <1>3 DEF H

\* What they are.
LEMMA StatesAre ==
  ASSUME NEW p, NEW S, NEW text \in Seq(S)
  PROVE  /\ States(p, text)[0] = p
         /\ \A i \in 0..(Len(text) - 1) :
              States(p, text)[i + 1] = Parsed(States(p, text)[i], text[i + 1])
<1> DEFINE f == States(p, text)
           n == Len(text)
<1>1. n \in Nat
  BY LenProperties
<1>2. Parsing(f, p, text, n)
  BY <1>1, ParsingSolved DEF States
<1> HIDE DEF f, n
<1>3. \A i \in 0..n : f[i] = IF i = 0 THEN p ELSE Parsed(f[i - 1], text[i])
  BY <1>2 DEF Parsing
<1>4. f[0] = p
  BY <1>1, <1>3
<1>5. ASSUME NEW i \in 0..(n - 1) PROVE f[i + 1] = Parsed(f[i], text[i + 1])
  <2>1. i + 1 \in 0..n /\ i + 1 # 0 /\ (i + 1) - 1 = i
    BY <1>1
  <2>2. f[i + 1] = Parsed(f[(i + 1) - 1], text[i + 1])
    BY <1>3, <2>1, Zenon
  <2> QED
    BY <2>1, <2>2
<1> QED
  BY <1>4, <1>5 DEF f, n

\* f parses n lexemes of u, from the start or from state a on; they are those of v.
Starts(f, u, n)       == \A i \in 0..(n - 1) : f[i + 1] = Parsed(f[i], u[i + 1])
GoesOn(f, a, u, n)    == \A i \in 0..(n - 1) : f[(a + i) + 1] = Parsed(f[a + i], u[(a + i) + 1])
SameText(u, a, v, n)  == \A i \in 0..(n - 1) : u[(a + i) + 1] = v[i + 1]
Coincide(f, a, g, n)  == \A i \in 0..n : f[a + i] = g[i]

\* Two runs of the parser over the same n lexemes.
LEMMA RunsAgree ==
  ASSUME NEW f, NEW g, NEW u, NEW v, NEW a \in Nat, NEW n \in Nat, f[a] = g[0],
         GoesOn(f, a, u, n), Starts(g, v, n), SameText(u, a, v, n)
  PROVE  Coincide(f, a, g, n)
<1> DEFINE H == {i \in Nat : f[a + i] = g[i]}
<1>1. 0 \in H
  BY a + 0 = a
<1>2. ASSUME NEW i \in 0..(n - 1), i \in H PROVE i + 1 \in H
  <2>1. f[(a + i) + 1] = g[i + 1]
    <3>1. f[a + i] = g[i]
      BY <1>2
    <3>2. f[(a + i) + 1] = Parsed(f[a + i], u[(a + i) + 1])
      BY DEF GoesOn
    <3>3. g[i + 1] = Parsed(g[i], v[i + 1]) /\ u[(a + i) + 1] = v[i + 1]
      BY DEF Starts, SameText
    <3> QED
      BY <3>1, <3>2, <3>3
  <2> QED
    BY <2>1, a + (i + 1) = (a + i) + 1
<1> HIDE DEF H
<1>3. 0..n \subseteq H
  BY <1>1, <1>2, Inductive
<1> QED
  BY <1>3 DEF H, Coincide

\* One text after another.
LEMMA AfterCat ==
  ASSUME NEW p, NEW S, NEW s \in Seq(S), NEW t \in Seq(S)
  PROVE  After(p, s \o t) = After(After(p, s), t)
<1> DEFINE u == s \o t
           m == Len(s)
           n == Len(t)
           f == States(p, u)
           g == States(p, s)
           h == States(g[m], t)
<1>1. /\ u \in Seq(S) /\ Len(u) = m + n /\ m \in Nat /\ n \in Nat
      /\ \A i \in 1..m : u[i] = s[i]
      /\ \A i \in 1..n : u[m + i] = t[i]
  BY ConcatProperties, LenProperties
<1>2. /\ f[0] = p /\ \A i \in 0..(Len(u) - 1) : f[i + 1] = Parsed(f[i], u[i + 1])
      /\ g[0] = p /\ \A i \in 0..(m - 1) : g[i + 1] = Parsed(g[i], s[i + 1])
      /\ h[0] = g[m] /\ \A i \in 0..(n - 1) : h[i + 1] = Parsed(h[i], t[i + 1])
  <2>1. f[0] = p /\ \A i \in 0..(Len(u) - 1) : f[i + 1] = Parsed(f[i], u[i + 1])
    <3> HIDE DEF u
    <3>1. u \in Seq(S)
      BY <1>1
    <3> QED
      BY <3>1, StatesAre
  <2>2. g[0] = p /\ \A i \in 0..(m - 1) : g[i + 1] = Parsed(g[i], s[i + 1])
    BY StatesAre
  <2> DEFINE q == g[m]
  <2> HIDE DEF q
  <2>3. States(q, t)[0] = q /\ \A i \in 0..(Len(t) - 1) : States(q, t)[i + 1] = Parsed(States(q, t)[i], t[i + 1])
    BY StatesAre
  <2> QED
    BY <2>1, <2>2, <2>3 DEF q
<1>a. After(p, u) = f[m + n] /\ After(p, s) = g[m] /\ After(g[m], t) = h[n]
  BY <1>1 DEF After
<1> HIDE DEF f, g, h, u, m, n
<1>3. f[m] = g[m]
  <2>1. \A i \in 0..(m - 1) : f[(0 + i) + 1] = Parsed(f[0 + i], u[(0 + i) + 1])
    <3>1. ASSUME NEW i \in 0..(m - 1) PROVE f[(0 + i) + 1] = Parsed(f[0 + i], u[(0 + i) + 1])
      <4>1. i \in 0..(Len(u) - 1) /\ 0 + i = i
        BY <1>1
      <4> QED
        BY <1>2, <4>1
    <3> QED
      BY <3>1
  <2>2. \A i \in 0..(m - 1) : u[(0 + i) + 1] = s[i + 1]
    BY <1>1
  <2>3. f[0] = g[0] /\ 0 \in Nat
    BY <1>2
  <2>4. Coincide(f, 0, g, m)
    <3>1. \A i \in 0..(m - 1) : g[i + 1] = Parsed(g[i], s[i + 1])
      BY <1>2
    <3>2. m \in Nat
      BY <1>1
    <3>3. GoesOn(f, 0, u, m)
      BY <2>1 DEF GoesOn
    <3>4. Starts(g, s, m)
      BY <3>1 DEF Starts
    <3>5. SameText(u, 0, s, m)
      BY <2>2 DEF SameText
    <3> QED
      BY <2>3, <3>2, <3>3, <3>4, <3>5, RunsAgree
  <2>5. m \in 0..m /\ 0 + m = m
    BY <1>1
  <2> QED
    BY <2>4, <2>5 DEF Coincide
<1>4. f[m + n] = h[n]
  <2>1. \A i \in 0..(n - 1) : f[(m + i) + 1] = Parsed(f[m + i], u[(m + i) + 1])
    <3>1. ASSUME NEW i \in 0..(n - 1) PROVE m + i \in 0..(Len(u) - 1)
      BY <1>1
    <3> QED
      BY <1>2, <3>1
  <2>2. \A i \in 0..(n - 1) : u[(m + i) + 1] = t[i + 1]
    <3>1. ASSUME NEW i \in 0..(n - 1) PROVE i + 1 \in 1..n /\ (m + i) + 1 = m + (i + 1)
      BY <1>1
    <3>2. \A i \in 1..n : u[m + i] = t[i]
      BY <1>1
    <3> QED
      BY <3>1, <3>2
  <2>3. f[m] = h[0]
    BY <1>2, <1>3
  <2>4. Coincide(f, m, h, n)
    <3>1. \A i \in 0..(n - 1) : h[i + 1] = Parsed(h[i], t[i + 1])
      BY <1>2
    <3>2. m \in Nat /\ n \in Nat
      BY <1>1
    <3>3. GoesOn(f, m, u, n)
      BY <2>1 DEF GoesOn
    <3>4. Starts(h, t, n)
      BY <3>1 DEF Starts
    <3>5. SameText(u, m, t, n)
      BY <2>2 DEF SameText
    <3> QED
      BY <2>3, <3>2, <3>3, <3>4, <3>5, RunsAgree
  <2>5. n \in 0..n
    BY <1>1
  <2> QED
    BY <2>4, <2>5 DEF Coincide
<1> QED
  BY <1>a, <1>4 DEF u

\* None, and one.
LEMMA AfterOne ==
  ASSUME NEW p, NEW x
  PROVE  After(p, <<>>) = p /\ After(p, <<x>>) = Parsed(p, x)
<1>1. <<>> \in Seq({x}) /\ <<x>> \in Seq({x}) /\ Len(<<>>) = 0 /\ Len(<<x>>) = 1 /\ <<x>>[1] = x
  OBVIOUS
<1>2. States(p, <<>>)[0] = p
  BY <1>1, StatesAre
<1>3. States(p, <<x>>)[0] = p
  BY <1>1, StatesAre
<1>4. States(p, <<x>>)[0 + 1] = Parsed(States(p, <<x>>)[0], <<x>>[0 + 1])
  <2> DEFINE t == <<x>>
  <2>1. t \in Seq({x}) /\ 0 \in 0..(Len(t) - 1)
    BY <1>1
  <2> HIDE DEF t
  <2>2. States(p, t)[0 + 1] = Parsed(States(p, t)[0], t[0 + 1])
    BY <2>1, StatesAre
  <2> QED
    BY <2>2 DEF t
<1>5. 0 + 1 = 1
  OBVIOUS
<1> QED
  BY <1>1, <1>2, <1>3, <1>4, <1>5 DEF After

\* In a stride, a lexeme beyond the end of the text is none.
Stepped(q, text, k) == IF q.result # "ok" \/ k > Len(text) THEN q ELSE Lexeme(q, text[k])
Striding(f, p, text, n, N) == f = [i \in 0..N |-> IF i = 0 THEN p ELSE Stepped(f[i - 1], text, n + i)]

\* The next stride, unless there has been an error.
Strode(p, text, k) == IF p.result # "ok" THEN p ELSE Stride(p, text, STRIDE * (k - 1))
Walking(f, text, N) == f = [k \in 0..N |-> IF k = 0 THEN jsmn_init ELSE Strode(f[k - 1], text, k)]

\* A stride has its states.
LEMMA StridingSolved ==
  ASSUME NEW p, NEW text, NEW n, NEW N \in Nat
  PROVE  \E f : Striding(f, p, text, n, N)
<1> DEFINE H == {m \in Nat : \E f : Striding(f, p, text, n, m)}
<1>1. 0 \in H
  <2>1. Striding([i \in 0..0 |-> p], p, text, n, 0)
    BY DEF Striding
  <2> QED
    BY <2>1
<1>2. ASSUME NEW m \in 0..(N - 1), m \in H
      PROVE  m + 1 \in H
  <2>1. PICK f : Striding(f, p, text, n, m)
    BY <1>2
  <2> DEFINE g == [i \in 0..(m + 1) |-> IF i <= m THEN f[i] ELSE Stepped(f[i - 1], text, n + i)]
  <2>2. ASSUME NEW i \in 0..(m + 1)
        PROVE  g[i] = IF i = 0 THEN p ELSE Stepped(g[i - 1], text, n + i)
    <3>1. CASE i = 0
      BY <2>1, <3>1 DEF Striding
    <3>2. CASE i # 0
      <4>1. i - 1 \in 0..m /\ g[i - 1] = f[i - 1]
        BY <3>2
      <4>2. i <= m => f[i] = Stepped(f[i - 1], text, n + i)
        <5>1. i <= m => i \in 0..m
          OBVIOUS
        <5> QED
          BY <2>1, <3>2, <5>1, Zenon DEF Striding
      <4> QED
        BY <3>2, <4>1, <4>2
    <3> QED
      BY <3>1, <3>2
  <2>3. DOMAIN g = 0..(m + 1) /\ g = [i \in 0..(m + 1) |-> g[i]]
    OBVIOUS
  <2> HIDE DEF g
  <2>4. Striding(g, p, text, n, m + 1)
    BY <2>2, <2>3, Zenon DEF Striding
  <2> QED
    BY <2>4
<1> HIDE DEF H
<1>3. N \in H
  BY <1>1, <1>2, Inductive
<1> QED
  BY <1>3 DEF H

\* And so have the strides.
LEMMA WalkingSolved ==
  ASSUME NEW text, NEW N \in Nat
  PROVE  \E f : Walking(f, text, N)
<1> DEFINE H == {m \in Nat : \E f : Walking(f, text, m)}
<1>1. 0 \in H
  <2>1. Walking([i \in 0..0 |-> jsmn_init], text, 0)
    BY DEF Walking
  <2> QED
    BY <2>1
<1>2. ASSUME NEW m \in 0..(N - 1), m \in H
      PROVE  m + 1 \in H
  <2>1. PICK f : Walking(f, text, m)
    BY <1>2
  <2> DEFINE g == [i \in 0..(m + 1) |-> IF i <= m THEN f[i] ELSE Strode(f[i - 1], text, i)]
  <2>2. ASSUME NEW i \in 0..(m + 1)
        PROVE  g[i] = IF i = 0 THEN jsmn_init ELSE Strode(g[i - 1], text, i)
    <3>1. CASE i = 0
      BY <2>1, <3>1 DEF Walking
    <3>2. CASE i # 0
      <4>1. i - 1 \in 0..m /\ g[i - 1] = f[i - 1]
        BY <3>2
      <4>2. i <= m => f[i] = Strode(f[i - 1], text, i)
        <5>1. i <= m => i \in 0..m
          OBVIOUS
        <5> QED
          BY <2>1, <3>2, <5>1, Zenon DEF Walking
      <4> QED
        BY <3>2, <4>1, <4>2
    <3> QED
      BY <3>1, <3>2
  <2>3. DOMAIN g = 0..(m + 1) /\ g = [i \in 0..(m + 1) |-> g[i]]
    OBVIOUS
  <2> HIDE DEF g
  <2>4. Walking(g, text, m + 1)
    BY <2>2, <2>3, Zenon DEF Walking
  <2> QED
    BY <2>4
<1> HIDE DEF H
<1>3. N \in H
  BY <1>1, <1>2, Inductive
<1> QED
  BY <1>3 DEF H

\* An error stays.
LEMMA ErrorsStay ==
  ASSUME NEW p, NEW S, NEW text \in Seq(S), NEW k \in 0..Len(text),
         States(p, text)[k].result # "ok", NEW l \in k..Len(text)
  PROVE  States(p, text)[l] = States(p, text)[k]
<1> DEFINE f == States(p, text)
           n == Len(text)
           H == {i \in Nat : k + i <= n => f[k + i] = f[k]}
<1>1. n \in Nat /\ k \in Nat /\ k <= n
  BY LenProperties
<1>2. \A i \in 0..(n - 1) : f[i + 1] = Parsed(f[i], text[i + 1])
  BY StatesAre
<1>a. f[k].result # "ok"
  OBVIOUS
<1>b. l \in k..n
  OBVIOUS
<1> HIDE DEF f, n
<1>3. 0 \in H
  BY <1>1, k + 0 = k
<1>4. ASSUME NEW i \in 0..(n - 1), i \in H PROVE i + 1 \in H
  <2>1. SUFFICES ASSUME k + (i + 1) <= n PROVE f[k + (i + 1)] = f[k]
    BY <1>1
  <2>2. k + i \in 0..(n - 1) /\ (k + i) + 1 = k + (i + 1) /\ f[k + i] = f[k]
    BY <1>1, <1>4, <2>1
  <2>3. f[(k + i) + 1] = Parsed(f[k + i], text[(k + i) + 1])
    BY <1>2, <2>2
  <2> QED
    BY <1>a, <2>2, <2>3 DEF Parsed
<1> HIDE DEF H
<1>5. 0..n \subseteq H
  BY <1>1, <1>3, <1>4, Inductive
<1>6. l - k \in H
  BY <1>1, <1>b, <1>5
<1>7. k + (l - k) = l /\ l <= n
  BY <1>1, <1>b
<1> QED
  BY <1>6, <1>7 DEF H, f

\* The smaller of i and the length of a text.
Upto(i, text) == IF i <= Len(text) THEN i ELSE Len(text)

\* A stride.
LEMMA StrideIs ==
  ASSUME NEW p, NEW S, NEW text \in Seq(S), NEW n \in 0..Len(text)
  PROVE  Stride(States(p, text)[n], text, n) = States(p, text)[Upto(n + STRIDE, text)]
<1> DEFINE f == States(p, text)
           L == Len(text)
           after[i \in 0..STRIDE] == IF i = 0 THEN f[n] ELSE Stepped(after[i - 1], text, n + i)
           H == {i \in Nat : i <= STRIDE => after[i] = f[Upto(n + i, text)]}
<1>1. L \in Nat /\ n \in 0..L /\ STRIDE \in Nat
  BY LenProperties DEF STRIDE
<1>2. \A i \in 0..(L - 1) : f[i + 1] = Parsed(f[i], text[i + 1])
  BY StatesAre
<1>a. Stride(f[n], text, n) = after[STRIDE]
  BY DEF Stride, Stepped
<1> HIDE DEF f
<1>3. Striding(after, f[n], text, n, STRIDE)
  <2>1. \E g : Striding(g, f[n], text, n, STRIDE)
    BY <1>1, StridingSolved
  <2> QED
    BY <2>1 DEF Striding
<1> HIDE DEF after, L
<1>4. \A i \in 0..STRIDE : after[i] = IF i = 0 THEN f[n] ELSE Stepped(after[i - 1], text, n + i)
  BY <1>3 DEF Striding
<1>5. 0 \in H
  <2>1. after[0] = f[n]
    BY <1>1, <1>4
  <2>2. Upto(n + 0, text) = n
    BY <1>1 DEF Upto, L
  <2> QED
    BY <2>1, <2>2
<1>6. ASSUME NEW i \in 0..(STRIDE - 1), i \in H PROVE i + 1 \in H
  <2>1. i + 1 \in 0..STRIDE /\ i + 1 # 0 /\ (i + 1) - 1 = i /\ i <= STRIDE
    BY <1>1
  <2>2. after[i + 1] = Stepped(after[i], text, n + (i + 1)) /\ after[i] = f[Upto(n + i, text)]
    <3>1. after[i + 1] = Stepped(after[(i + 1) - 1], text, n + (i + 1))
      BY <1>4, <2>1, Zenon
    <3> QED
      BY <1>6, <2>1, <3>1
  <2>3. CASE n + (i + 1) <= L
    <3>1. Upto(n + i, text) = n + i /\ Upto(n + (i + 1), text) = n + (i + 1)
      BY <1>1, <2>1, <2>3 DEF Upto, L
    <3>2. n + i \in 0..(L - 1) /\ (n + i) + 1 = n + (i + 1)
      BY <1>1, <2>1, <2>3
    <3>3. f[(n + i) + 1] = Parsed(f[n + i], text[(n + i) + 1])
      BY <1>2, <3>2
    <3>4. ~(n + (i + 1) > L)
      BY <1>1, <2>1, <2>3
    <3> QED
      BY <2>2, <3>1, <3>2, <3>3, <3>4 DEF Stepped, Parsed, L
  <2>4. CASE ~(n + (i + 1) <= L)
    <3>1. n + (i + 1) > L
      BY <1>1, <2>1, <2>4
    <3>2. Upto(n + (i + 1), text) = L /\ Upto(n + i, text) = L
      BY <1>1, <2>1, <2>4 DEF Upto, L
    <3> QED
      BY <2>2, <3>1, <3>2 DEF Stepped, L
  <2> QED
    BY <2>3, <2>4
<1> HIDE DEF H
<1>7. STRIDE \in H
  <2>1. 0..STRIDE \subseteq H
    BY <1>1, <1>5, <1>6, Inductive
  <2> QED
    BY <1>1, <2>1
<1> QED
  BY <1>1, <1>a, <1>7 DEF H, f

\* All of them: strides make no difference.
LEMMA LexemesAre ==
  ASSUME NEW S, NEW text \in Seq(S)
  PROVE  Lexemes(text) = After(jsmn_init, text)
<1> DEFINE f == States(jsmn_init, text)
           L == Len(text)
           K == (L + STRIDE - 1) \div STRIDE
           after[k \in 0..K] == IF k = 0 THEN jsmn_init ELSE Strode(after[k - 1], text, k)
           H == {k \in Nat : k <= K => after[k] = f[Upto(STRIDE * k, text)]}
<1>1. L \in Nat /\ STRIDE = 20 /\ K \in Nat /\ 20 * K >= L /\ \A k \in 0..(K - 1) : 20 * k <= L
  BY LenProperties DEF STRIDE
<1>2. f[0] = jsmn_init
  BY StatesAre
<1>a. Lexemes(text) = after[K] /\ After(jsmn_init, text) = f[L]
  BY DEF Lexemes, Strode, After
<1> HIDE DEF f
<1>3. Walking(after, text, K)
  <2>1. \E g : Walking(g, text, K)
    <3> HIDE DEF K
    <3> QED
      BY <1>1, WalkingSolved
  <2> QED
    BY <2>1 DEF Walking
<1> HIDE DEF after, L, K
<1>4. \A k \in 0..K : after[k] = IF k = 0 THEN jsmn_init ELSE Strode(after[k - 1], text, k)
  BY <1>3 DEF Walking
<1>5. 0 \in H
  <2>1. after[0] = jsmn_init
    BY <1>1, <1>4
  <2>2. Upto(STRIDE * 0, text) = 0
    BY <1>1 DEF Upto, L
  <2> QED
    BY <1>2, <2>1, <2>2
<1>6. ASSUME NEW k \in 0..(K - 1), k \in H PROVE k + 1 \in H
  <2>1. k + 1 \in 0..K /\ k + 1 # 0 /\ (k + 1) - 1 = k /\ k <= K /\ STRIDE * k \in 0..L
    BY <1>1
  <2>2. after[k + 1] = Strode(after[k], text, k + 1) /\ after[k] = f[STRIDE * k]
    <3>1. after[k + 1] = Strode(after[(k + 1) - 1], text, k + 1)
      BY <1>4, <2>1, Zenon
    <3>2. Upto(STRIDE * k, text) = STRIDE * k
      BY <2>1 DEF Upto, L
    <3> QED
      BY <1>6, <2>1, <3>1, <3>2
  <2>3. Upto(STRIDE * (k + 1), text) \in (STRIDE * k)..L /\ STRIDE * k + STRIDE = STRIDE * (k + 1)
    BY <1>1, <2>1 DEF Upto, L
  <2>4. CASE f[STRIDE * k].result = "ok"
    <3> DEFINE n == STRIDE * k
    <3>1. n \in 0..Len(text)
      BY <2>1 DEF L
    <3>2. Strode(after[k], text, k + 1) = Stride(f[n], text, n)
      BY <2>1, <2>2, <2>4 DEF Strode
    <3>a. n + STRIDE = STRIDE * (k + 1)
      BY <2>3
    <3> HIDE DEF n
    <3>3. Stride(f[n], text, n) = f[Upto(n + STRIDE, text)]
      BY <3>1, StrideIs DEF f
    <3> QED
      BY <2>2, <3>2, <3>3, <3>a
  <2>5. CASE f[STRIDE * k].result # "ok"
    <3> DEFINE n == STRIDE * k
               l == Upto(STRIDE * (k + 1), text)
    <3>1. n \in 0..Len(text) /\ l \in n..Len(text)
      BY <2>1, <2>3 DEF L
    <3>2. Strode(after[k], text, k + 1) = f[n]
      BY <2>2, <2>5 DEF Strode
    <3> HIDE DEF n, l
    <3>3. f[l] = f[n]
      BY <2>5, <3>1, ErrorsStay DEF f, n
    <3> QED
      BY <2>2, <3>2, <3>3 DEF l
  <2> QED
    BY <2>4, <2>5
<1> HIDE DEF H
<1>7. K \in H
  <2>1. 0..K \subseteq H
    BY <1>1, <1>5, <1>6, Inductive
  <2> QED
    BY <1>1, <2>1
<1>8. Upto(STRIDE * K, text) = L
  BY <1>1 DEF Upto, L
<1> QED
  BY <1>1, <1>a, <1>7, <1>8 DEF H

\* What is left of the tokens.
LEMMA TokensAre ==
  ASSUME NEW S, NEW text \in Seq(S)
  PROVE  jsmn_parse(text).tokens = After(jsmn_init, text).tokens
BY LexemesAre DEF jsmn_parse, Failed

-----------------------------------------------------------------------------
(***************************************************************************)
(* What the parser makes of a member, and of a list of members.            *)
(***************************************************************************)
Kinds  == {"object", "array", "object_end", "array_end", "colon", "comma", "string", "number",
           "unclosed", "unescapable"}
Known  == Numbers \cup {"volume", "tone", "opcode", "read_buffer", "write_buffer", "ram", "vram",
                        "mapper", "peripheral", "psg", "z80", "vdp"}
Names  == Known \cup {"none", "rom", "rom_name", "emu_version", "version", "sav_version", "DEVEL"}
          \cup {save[1] : save \in Saves}
Lexes  == [kind : Kinds, name : Names, number : Int, blob : Seq(Int)]
Tokens == [lexeme : Lexes, size : Nat]

\* A parser without an error, and a token with c more children.
At(T, O, s)     == [tokens |-> T, open |-> O, toksuper |-> s, result |-> "ok"]
Raised(T, s, c) == IF s = 0 THEN T ELSE [T EXCEPT ![s].size = @ + c]
Key(name)       == [lexeme |-> Str(name), size |-> 1]
Openers         == {"object", "array"}

\* The lexemes of a text.
LEMMA LexesAre ==
  /\ \A c \in Kinds : Mark(c) \in Lexes /\ Mark(c).kind = c
  /\ \A name \in Names : Str(name) \in Lexes /\ Str(name).kind = "string" /\ Str(name).name = name
  /\ \A n \in Int : Num(n) \in Lexes /\ Num(n).kind = "number" /\ Num(n).number = n
  /\ \A b \in Seq(Int) : Blob(b) \in Lexes /\ Blob(b).kind = "string" /\ Blob(b).name = "none" /\ Blob(b).blob = b
<1>1. <<>> \in Seq(Int) /\ "none" \in Names /\ 0 \in Int /\ "string" \in Kinds /\ "number" \in Kinds
  BY DEF Names, Kinds
<1>2. ASSUME NEW c \in Kinds PROVE Mark(c) \in Lexes /\ Mark(c).kind = c
  BY <1>1 DEF Mark, Lexes
<1>3. ASSUME NEW name \in Names
      PROVE  Str(name) \in Lexes /\ Str(name).kind = "string" /\ Str(name).name = name
  <2>1. Str(name) = [kind |-> "string", name |-> name, number |-> 0, blob |-> <<>>]
    BY DEF Str, Mark
  <2> QED
    BY <1>1, <2>1 DEF Lexes
<1>4. ASSUME NEW n \in Int PROVE Num(n) \in Lexes /\ Num(n).kind = "number" /\ Num(n).number = n
  <2>1. Num(n) = [kind |-> "number", name |-> "none", number |-> n, blob |-> <<>>]
    BY DEF Num, Mark
  <2> QED
    BY <1>1, <2>1 DEF Lexes
<1>5. ASSUME NEW b \in Seq(Int)
      PROVE  Blob(b) \in Lexes /\ Blob(b).kind = "string" /\ Blob(b).name = "none" /\ Blob(b).blob = b
  <2>1. Blob(b) = [kind |-> "string", name |-> "none", number |-> 0, blob |-> b]
    BY DEF Blob, Mark
  <2> QED
    BY <1>1, <2>1 DEF Lexes
<1> QED
  BY <1>2, <1>3, <1>4, <1>5

\* Their tokens.
LEMMA TokensOf ==
  /\ \A x \in Lexes : Token(x) \in Tokens /\ Token(x).lexeme = x /\ Token(x).size = 0
  /\ \A name \in Names : Key(name) \in Tokens /\ Key(name).lexeme = Str(name) /\ Key(name).size = 1
BY LexesAre DEF Token, Key, Tokens

\* Counting children.
LEMMA RaisedIs ==
  ASSUME NEW T \in Seq(Tokens), NEW s \in 0..Len(T), NEW c \in Nat
  PROVE  /\ Raised(T, s, c) \in Seq(Tokens) /\ Len(Raised(T, s, c)) = Len(T)
         /\ \A i \in 1..Len(T) :
              Raised(T, s, c)[i] = IF i = s THEN [lexeme |-> T[i].lexeme, size |-> T[i].size + c] ELSE T[i]
<1> DEFINE n == Len(T)
           R == Raised(T, s, c)
<1>1. n \in Nat /\ (\A i \in 1..n : T[i] \in Tokens) /\ DOMAIN T = 1..n
  BY LenProperties, ElementOfSeq
<1>2. CASE s = 0
  BY <1>1, <1>2 DEF Raised
<1>3. CASE s # 0
  <2>1. R = [i \in 1..n |-> IF i = s THEN [T[s] EXCEPT !.size = @ + c] ELSE T[i]]
    BY <1>1, <1>3 DEF Raised
  <2>2. T[s] \in Tokens
    BY <1>1, <1>3
  <2>3. /\ [T[s] EXCEPT !.size = @ + c] = [lexeme |-> T[s].lexeme, size |-> T[s].size + c]
        /\ [lexeme |-> T[s].lexeme, size |-> T[s].size + c] \in Tokens
    <3> DEFINE t == T[s]
    <3>1. t \in [lexeme : Lexes, size : Nat]
      BY <2>2 DEF Tokens
    <3> HIDE DEF t
    <3>2. [t EXCEPT !.size = @ + c] = [lexeme |-> t.lexeme, size |-> t.size + c]
      BY <3>1
    <3>3. t.lexeme \in Lexes /\ t.size + c \in Nat
      BY <3>1
    <3> QED
      BY <3>2, <3>3 DEF t, Tokens
  <2> HIDE DEF R, n
  <2>4. R \in [1..n -> Tokens]
    BY <1>1, <2>1, <2>3
  <2>5. R \in Seq(Tokens) /\ Len(R) = n
    BY <1>1, <2>4, FunctionIsSeq
  <2>6. \A i \in 1..n : R[i] = IF i = s THEN [lexeme |-> T[i].lexeme, size |-> T[i].size + c] ELSE T[i]
    BY <2>1, <2>3
  <2> QED
    BY <2>5, <2>6 DEF R, n
<1> QED
  BY <1>2, <1>3

\* Two sequences of tokens are one if they agree.
LEMMA SameTokens ==
  ASSUME NEW T \in Seq(Tokens), NEW U \in Seq(Tokens), Len(T) = Len(U),
         \A i \in 1..Len(T) : T[i] = U[i]
  PROVE  T = U
BY SeqEqual

\* A token counts twice, or none; the others stay, wherever they are.
LEMMA RaisedTwice ==
  ASSUME NEW T \in Seq(Tokens), NEW s \in 0..Len(T), NEW a \in Nat, NEW b \in Nat
  PROVE  Raised(Raised(T, s, a), s, b) = Raised(T, s, a + b) /\ Raised(T, s, 0) = T
<1>0. a + b \in Nat /\ 0 \in Nat
  OBVIOUS
<1> DEFINE A == Raised(T, s, a)
           B == Raised(A, s, b)
           C == Raised(T, s, a + b)
           Z == Raised(T, s, 0)
           n == Len(T)
<1>a. \A i \in 1..n : T[i] \in Tokens
  BY ElementOfSeq
<1>1. A \in Seq(Tokens) /\ Len(A) = n
      /\ \A i \in 1..n : A[i] = IF i = s THEN [lexeme |-> T[i].lexeme, size |-> T[i].size + a] ELSE T[i]
  BY RaisedIs
<1>2. C \in Seq(Tokens) /\ Len(C) = n
      /\ \A i \in 1..n : C[i] = IF i = s THEN [lexeme |-> T[i].lexeme, size |-> T[i].size + (a + b)] ELSE T[i]
  BY <1>0, RaisedIs
<1>3. Z \in Seq(Tokens) /\ Len(Z) = n
      /\ \A i \in 1..n : Z[i] = IF i = s THEN [lexeme |-> T[i].lexeme, size |-> T[i].size + 0] ELSE T[i]
  BY <1>0, RaisedIs
<1>b. s \in 0..Len(A)
  BY <1>1
<1> HIDE DEF A, C, Z
<1>4. B \in Seq(Tokens) /\ Len(B) = n
      /\ \A i \in 1..n : B[i] = IF i = s THEN [lexeme |-> A[i].lexeme, size |-> A[i].size + b] ELSE A[i]
  BY <1>1, <1>b, RaisedIs
<1> HIDE DEF B, n
<1>5. ASSUME NEW i \in 1..n PROVE B[i] = C[i] /\ Z[i] = T[i]
  <2>1. T[i] \in Tokens /\ T[i].size \in Nat
    BY <1>a DEF Tokens
  <2>2. T[i] = [lexeme |-> T[i].lexeme, size |-> T[i].size]
    BY <2>1 DEF Tokens
  <2> QED
    BY <1>1, <1>2, <1>3, <1>4, <2>1, <2>2
<1>6. B = C
  BY <1>2, <1>4, <1>5, SameTokens
<1>7. Z = T
  BY <1>3, <1>5, SameTokens DEF n
<1> QED
  BY <1>6, <1>7 DEF A, B, C, Z

\* A token counts more children in whichever half of a sequence it is.
LEMMA RaisedCat ==
  ASSUME NEW T \in Seq(Tokens), NEW U \in Seq(Tokens), NEW c \in Nat
  PROVE  /\ \A s \in 0..Len(T) : Raised(T \o U, s, c) = Raised(T, s, c) \o U
         /\ \A s \in 1..Len(U) : Raised(T \o U, Len(T) + s, c) = T \o Raised(U, s, c)
<1> DEFINE V == T \o U
           m == Len(T)
           n == Len(U)
<1>1. /\ V \in Seq(Tokens) /\ Len(V) = m + n /\ m \in Nat /\ n \in Nat
      /\ \A i \in 1..(m + n) : V[i] = IF i <= m THEN T[i] ELSE U[i - m]
  BY ConcatProperties, LenProperties
<1> HIDE DEF V
<1>2. ASSUME NEW s \in 0..m PROVE Raised(V, s, c) = Raised(T, s, c) \o U
  <2> DEFINE A == Raised(T, s, c)
             B == Raised(V, s, c)
  <2>1. A \in Seq(Tokens) /\ Len(A) = m
        /\ \A i \in 1..m : A[i] = IF i = s THEN [lexeme |-> T[i].lexeme, size |-> T[i].size + c] ELSE T[i]
    BY RaisedIs
  <2>a. s \in 0..Len(V)
    BY <1>1
  <2>2. B \in Seq(Tokens) /\ Len(B) = m + n
        /\ \A i \in 1..(m + n) : B[i] = IF i = s THEN [lexeme |-> V[i].lexeme, size |-> V[i].size + c] ELSE V[i]
    <3>1. /\ B \in Seq(Tokens) /\ Len(B) = Len(V)
          /\ \A i \in 1..Len(V) : B[i] = IF i = s THEN [lexeme |-> V[i].lexeme, size |-> V[i].size + c] ELSE V[i]
      <4>1. V \in Seq(Tokens)
        BY <1>1
      <4> QED
        BY <4>1, <2>a, RaisedIs
    <3>2. Len(V) = m + n
      BY <1>1
    <3> QED
      BY <3>1, <3>2
  <2> HIDE DEF A, B
  <2>3. A \o U \in Seq(Tokens) /\ Len(A \o U) = m + n
        /\ \A i \in 1..(m + n) : (A \o U)[i] = IF i <= m THEN A[i] ELSE U[i - m]
    <3>1. A \in Seq(Tokens) /\ U \in Seq(Tokens) /\ Len(A) = m /\ Len(U) = n
      BY <2>1
    <3> HIDE DEF m, n
    <3>2. /\ A \o U \in Seq(Tokens) /\ Len(A \o U) = Len(A) + Len(U)
          /\ \A i \in 1..(Len(A) + Len(U)) : (A \o U)[i] = IF i <= Len(A) THEN A[i] ELSE U[i - Len(A)]
      BY <3>1, ConcatProperties
    <3> QED
      BY <3>1, <3>2
  <2> HIDE DEF m, n
  <2>4. ASSUME NEW i \in 1..(m + n) PROVE B[i] = (A \o U)[i]
    <3>1. CASE i <= m
      <4>1. i \in 1..m /\ V[i] = T[i] /\ (A \o U)[i] = A[i]
        BY <1>1, <2>3, <3>1
      <4> QED
        BY <2>1, <2>2, <4>1
    <3>2. CASE ~(i <= m)
      <4>1. i # s /\ V[i] = U[i - m] /\ (A \o U)[i] = U[i - m]
        BY <1>1, <2>3, <3>2, SMTT(40)
      <4> QED
        BY <2>2, <4>1
    <3> QED
      BY <3>1, <3>2
  <2>5. B = A \o U
    BY <2>2, <2>3, <2>4, SameTokens
  <2> QED
    BY <2>5 DEF A, B
<1>3. ASSUME NEW s \in 1..n PROVE Raised(V, m + s, c) = T \o Raised(U, s, c)
  <2> DEFINE A == Raised(U, s, c)
             B == Raised(V, m + s, c)
  <2>1. A \in Seq(Tokens) /\ Len(A) = n
        /\ \A i \in 1..n : A[i] = IF i = s THEN [lexeme |-> U[i].lexeme, size |-> U[i].size + c] ELSE U[i]
    BY RaisedIs
  <2>a. m + s \in 0..Len(V)
    BY <1>1
  <2>2. B \in Seq(Tokens) /\ Len(B) = m + n
        /\ \A i \in 1..(m + n) : B[i] = IF i = m + s THEN [lexeme |-> V[i].lexeme, size |-> V[i].size + c] ELSE V[i]
    <3> DEFINE k == m + s
    <3>1. V \in Seq(Tokens) /\ k \in 0..Len(V)
      BY <1>1, <2>a
    <3> HIDE DEF k
    <3>2. /\ Raised(V, k, c) \in Seq(Tokens) /\ Len(Raised(V, k, c)) = Len(V)
          /\ \A i \in 1..Len(V) :
               Raised(V, k, c)[i] = IF i = k THEN [lexeme |-> V[i].lexeme, size |-> V[i].size + c] ELSE V[i]
      BY <3>1, RaisedIs
    <3>3. Len(V) = m + n
      BY <1>1
    <3> QED
      BY <3>2, <3>3 DEF k
  <2> HIDE DEF A, B
  <2>3. T \o A \in Seq(Tokens) /\ Len(T \o A) = m + n
        /\ \A i \in 1..(m + n) : (T \o A)[i] = IF i <= m THEN T[i] ELSE A[i - m]
    <3> HIDE DEF n
    <3> QED
      BY <1>1, <2>1, ConcatProperties
  <2> HIDE DEF m, n
  <2>4. ASSUME NEW i \in 1..(m + n) PROVE B[i] = (T \o A)[i]
    <3>1. CASE i <= m
      <4>1. i # m + s
        BY <1>1, <3>1
      <4> QED
        BY <1>1, <2>2, <2>3, <3>1, <4>1
    <3>2. CASE ~(i <= m)
      <4>1. i - m \in 1..n /\ (i = m + s <=> i - m = s)
        BY <1>1, <3>2
      <4>2. V[i] = U[i - m] /\ (T \o A)[i] = A[i - m]
        BY <1>1, <2>3, <3>2
      <4> QED
        BY <2>1, <2>2, <4>1, <4>2
    <3> QED
      BY <3>1, <3>2
  <2>5. B = T \o A
    BY <2>2, <2>3, <2>4, SameTokens
  <2> QED
    BY <2>5 DEF A, B
<1> QED
  BY <1>2, <1>3 DEF V

\* The fields of such a parser.
LEMMA AtIs ==
  ASSUME NEW T, NEW O, NEW s
  PROVE  /\ At(T, O, s).tokens = T /\ At(T, O, s).open = O /\ At(T, O, s).toksuper = s
         /\ At(T, O, s).result = "ok"
BY DEF At

\* A sequence of one token, at the end of others.
LEMMA OneToken ==
  ASSUME NEW T \in Seq(Tokens), NEW t \in Tokens
  PROVE  /\ <<t>> \in Seq(Tokens) /\ Len(<<t>>) = 1 /\ <<t>>[1] = t
         /\ Append(T, t) = T \o <<t>> /\ T \o <<t>> \in Seq(Tokens) /\ Len(T \o <<t>>) = Len(T) + 1
         /\ (T \o <<t>>)[Len(T) + 1] = t /\ \A i \in 1..Len(T) : (T \o <<t>>)[i] = T[i]
<1>1. <<t>> \in [1..1 -> Tokens] /\ 1 \in Nat
  OBVIOUS
<1>2. <<t>> \in Seq(Tokens) /\ Len(<<t>>) = 1
  BY <1>1, FunctionIsSeq
<1>3. Append(T, t) = T \o <<t>>
  BY AppendIsConcat
<1> QED
  BY <1>2, <1>3, AppendProperties

\* A token is taken, and its parent counts it.
LEMMA TokenTaken ==
  ASSUME NEW T \in Seq(Tokens), NEW O, NEW s \in 0..Len(T), NEW x \in Lexes,
         Len(T) < MAX_JSON_TOKENS
  PROVE  Allocated(At(T, O, s), Token(x)) = At(Raised(T, s, 1) \o <<Token(x)>>, O, s)
<1> DEFINE t == Token(x)
           p == At(T, O, s)
           U == Append(T, t)
<1>1. t \in Tokens /\ Len(T) \in Nat /\ 1 \in Nat
  BY TokensOf, LenProperties
<1>2. MAX_JSON_TOKENS \in Nat
  BY RoomAssumption
<1>3. p.tokens = T /\ p.toksuper = s /\ ~(Len(p.tokens) >= MAX_JSON_TOKENS)
  BY <1>1, <1>2 DEF At
<1>4. [p EXCEPT !.tokens = Append(@, t)] = At(U, O, s)
  <2> HIDE DEF t
  <2>1. At(T, O, s).tokens = T
    BY AtIs
  <2>2. [At(T, O, s) EXCEPT !.tokens = Append(@, t)] = [At(T, O, s) EXCEPT !.tokens = U]
    BY <2>1
  <2> HIDE DEF U
  <2>3. [At(T, O, s) EXCEPT !.tokens = U] = At(U, O, s)
    BY DEF At
  <2> QED
    BY <2>2, <2>3 DEF U
<1> HIDE DEF U, p, t
<1>5. Allocated(p, t) = IF s = 0 THEN At(U, O, s) ELSE [At(U, O, s) EXCEPT !.tokens[s].size = @ + 1]
  BY <1>3, <1>4 DEF Allocated
<1>6. [At(U, O, s) EXCEPT !.tokens[s].size = @ + 1] = At([U EXCEPT ![s].size = @ + 1], O, s)
  BY DEF At
<1>7. Allocated(p, t) = At(Raised(U, s, 1), O, s)
  BY <1>5, <1>6 DEF Raised
<1>8. U = T \o <<t>> /\ <<t>> \in Seq(Tokens)
  BY <1>1, OneToken DEF U
<1>9. Raised(T \o <<t>>, s, 1) = Raised(T, s, 1) \o <<t>>
  BY <1>1, <1>8, RaisedCat, ZenonT(40)
<1> QED
  BY <1>7, <1>8, <1>9 DEF p, t

\* A string or a number.
LEMMA ScalarParsed ==
  ASSUME NEW T \in Seq(Tokens), NEW O, NEW s \in 0..Len(T), NEW x \in Lexes,
         x.kind \in {"string", "number"}, Len(T) < MAX_JSON_TOKENS
  PROVE  Parsed(At(T, O, s), x) = At(Raised(T, s, 1) \o <<Token(x)>>, O, s)
<1>1. At(T, O, s).result = "ok"
  BY DEF At
<1>2. Lexeme(At(T, O, s), x) = Allocated(At(T, O, s), Token(x))
  BY DEF Lexeme
<1> QED
  BY <1>1, <1>2, TokenTaken DEF Parsed

\* A colon.
LEMMA ColonParsed ==
  ASSUME NEW T, NEW O, NEW s
  PROVE  Parsed(At(T, O, s), Mark("colon")) = At(T, O, Len(T))
<1>1. At(T, O, s).result = "ok" /\ At(T, O, s).tokens = T
  BY DEF At
<1>2. Mark("colon").kind = "colon"
  BY DEF Mark
<1>3. Lexeme(At(T, O, s), Mark("colon")) = [At(T, O, s) EXCEPT !.toksuper = Len(At(T, O, s).tokens)]
  BY <1>2 DEF Lexeme
<1>4. [At(T, O, s) EXCEPT !.toksuper = Len(T)] = At(T, O, Len(T))
  BY DEF At
<1> QED
  BY <1>1, <1>3, <1>4 DEF Parsed

\* The object or array that is open innermost is there.
Within(T, O) ==
  /\ T \in Seq(Tokens) /\ O \in Seq(Nat) /\ O # <<>> /\ Innermost(O) \in 1..Len(T)
  /\ T[Innermost(O)].lexeme.kind \in Openers

\* After a value the next token is to be counted by it, or by a key.
Settled(T, O, s) ==
  /\ s \in 1..Len(T)
  /\ s = Innermost(O) \/ T[s].lexeme.kind = "string"

\* A comma.
LEMMA CommaParsed ==
  ASSUME NEW T, NEW O, NEW s, Within(T, O), Settled(T, O, s)
  PROVE  Parsed(At(T, O, s), Mark("comma")) = At(T, O, Innermost(O))
<1> DEFINE p == At(T, O, s)
<1>1. p.result = "ok" /\ p.tokens = T /\ p.toksuper = s /\ p.open = O /\ O # <<>>
  BY DEF At, Within
<1>2. Mark("comma").kind = "comma"
  BY DEF Mark
<1>3. Lexeme(p, Mark("comma")) = Comma(p)
  BY <1>2 DEF Lexeme
<1>4. s # 0
  BY DEF Settled
<1>5. CASE s = Innermost(O)
  BY <1>1, <1>3, <1>5 DEF Comma, Parsed, Within, Openers
<1>6. CASE T[s].lexeme.kind = "string"
  <2>1. Comma(p) = [p EXCEPT !.toksuper = Innermost(O)]
    BY <1>1, <1>4, <1>6 DEF Comma
  <2>2. [p EXCEPT !.toksuper = Innermost(O)] = At(T, O, Innermost(O))
    BY DEF At
  <2> QED
    BY <1>1, <1>3, <2>1, <2>2 DEF Parsed
<1> QED
  BY <1>5, <1>6 DEF Settled

\* An object or an array begins.
LEMMA OpenParsed ==
  ASSUME NEW T \in Seq(Tokens), NEW O \in Seq(Nat), NEW s \in 0..Len(T), NEW kind \in Openers,
         Len(T) < MAX_JSON_TOKENS
  PROVE  LET U == Raised(T, s, 1) \o <<Token(Mark(kind))>>
             P == Append(O, Len(T) + 1)
         IN /\ Parsed(At(T, O, s), Mark(kind)) = At(U, P, Len(T) + 1)
            /\ Within(U, P) /\ Innermost(P) = Len(T) + 1 /\ Len(U) = Len(T) + 1
<1> DEFINE x == Mark(kind)
           R == Raised(T, s, 1)
           U == R \o <<Token(x)>>
           i == Len(T) + 1
           P == Append(O, i)
           p == At(T, O, s)
           q == At(U, O, s)
<1>1. x \in Lexes /\ x.kind = kind /\ x.kind \in Openers
  BY LexesAre DEF Openers, Kinds
<1>2. Len(T) \in Nat /\ 1 \in Nat /\ i \in Nat
  BY LenProperties
<1>3. R \in Seq(Tokens) /\ Len(R) = Len(T)
  BY <1>2, RaisedIs
<1>4. Token(x) \in Tokens /\ Token(x).lexeme = x
  BY <1>1, TokensOf
<1>5. U \in Seq(Tokens) /\ Len(U) = i /\ U[i] = Token(x)
  <2> DEFINE t == Token(x)
  <2>1. t \in Tokens /\ R \in Seq(Tokens)
    BY <1>3, <1>4
  <2> HIDE DEF R, t
  <2>2. R \o <<t>> \in Seq(Tokens) /\ Len(R \o <<t>>) = Len(R) + 1 /\ (R \o <<t>>)[Len(R) + 1] = t
    BY <2>1, OneToken
  <2> QED
    BY <1>3, <2>2 DEF t
<1>6. Allocated(p, Token(x)) = q
  BY <1>1, TokenTaken
<1>7. p.result = "ok" /\ q.result = "ok" /\ q.tokens = U
  <2> HIDE DEF U
  <2> QED
    BY AtIs
<1>8. Lexeme(p, x) = Opened(p, x)
  BY <1>1 DEF Lexeme, Openers
<1>9. [q EXCEPT !.open = Append(@, i), !.toksuper = i] = At(U, P, i)
  <2> HIDE DEF U, i
  <2>1. At(U, O, s).open = O
    BY AtIs
  <2>2. [At(U, O, s) EXCEPT !.open = Append(@, i), !.toksuper = i]
          = [[At(U, O, s) EXCEPT !.open = P] EXCEPT !.toksuper = i]
    BY <2>1
  <2> HIDE DEF P
  <2>3. [At(U, O, s) EXCEPT !.open = P] = At(U, P, s)
    BY DEF At
  <2>4. [At(U, P, s) EXCEPT !.toksuper = i] = At(U, P, i)
    BY DEF At
  <2> QED
    BY <2>2, <2>3, <2>4
<1>10. Opened(p, x) = At(U, P, i)
  <2> HIDE DEF p, q, x, U, P, i
  <2> QED
    BY <1>5, <1>6, <1>7, <1>9 DEF Opened
<1>11. Parsed(p, x) = At(U, P, i)
  BY <1>7, <1>8, <1>10 DEF Parsed
<1>12. P \in Seq(Nat) /\ P # <<>> /\ Innermost(P) = i
  <2> HIDE DEF i
  <2>1. P \in Seq(Nat) /\ Len(P) = Len(O) + 1 /\ P[Len(O) + 1] = i /\ P # <<>>
    BY <1>2, AppendProperties
  <2> QED
    BY <2>1 DEF Innermost
<1>13. Within(U, P)
  <2> HIDE DEF U, P, i, x
  <2> QED
    BY <1>1, <1>2, <1>4, <1>5, <1>12 DEF Within, i
<1> QED
  BY <1>5, <1>11, <1>12, <1>13

\* It ends.
LEMMA CloseParsed ==
  ASSUME NEW T, NEW O \in Seq(Nat), NEW s, NEW i \in Nat, NEW close \in {"object_end", "array_end"},
         Within(T, Append(O, i)), T[i].lexeme.kind = Opener[close]
  PROVE  Parsed(At(T, Append(O, i), s), Mark(close)) = At(T, O, Innermost(O))
<1> DEFINE P == Append(O, i)
           p == At(T, P, s)
<1>1. p.result = "ok" /\ p.tokens = T /\ p.open = P
  <2> HIDE DEF P
  <2> QED
    BY AtIs
<1>2. /\ P \in Seq(Nat) /\ Len(P) = Len(O) + 1 /\ P[Len(O) + 1] = i /\ P # <<>> /\ Len(O) \in Nat
      /\ SubSeq(P, 1, Len(P) - 1) = O
  <2>1. SubSeq(P, 1, Len(O)) = O
    BY AppendProperties
  <2> QED
    BY <2>1, AppendProperties, LenProperties
<1>3. Innermost(P) = i
  BY <1>2 DEF Innermost
<1>4. Mark(close).kind = close
  BY DEF Mark
<1>5. Lexeme(p, Mark(close)) = Closed(p, close)
  BY <1>4 DEF Lexeme
<1> HIDE DEF P
<1>6. [p EXCEPT !.open = O, !.toksuper = Innermost(O)] = At(T, O, Innermost(O))
  <2> DEFINE r == Innermost(O)
  <2> HIDE DEF r
  <2>1. [At(T, P, s) EXCEPT !.open = O] = At(T, O, s)
    BY DEF At
  <2>2. [At(T, O, s) EXCEPT !.toksuper = r] = At(T, O, r)
    BY DEF At
  <2>3. [At(T, P, s) EXCEPT !.open = O, !.toksuper = r] = [[At(T, P, s) EXCEPT !.open = O] EXCEPT !.toksuper = r]
    OBVIOUS
  <2> QED
    BY <2>1, <2>2, <2>3 DEF r
<1> HIDE DEF p
<1>7. Closed(p, close) = At(T, O, Innermost(O))
  BY <1>1, <1>2, <1>3, <1>6 DEF Closed
<1> QED
  BY <1>1, <1>5, <1>7 DEF Parsed, p, P

(***************************************************************************)
(* Values, wherever they are: inside the innermost open object or array    *)
(* seg yields the tokens ts and counts as c children.                      *)
(***************************************************************************)
Inside(T, O)         == At(T, O, Innermost(O))
Grown(T, O, c, ts)   == Raised(T, Innermost(O), c) \o ts
Fits(T, O, n)        == Within(T, O) /\ Len(T) + n <= MAX_JSON_TOKENS
Runs(seg, ts, c, T, O) ==
  \E s : After(Inside(T, O), seg) = At(Grown(T, O, c, ts), O, s) /\ Settled(Grown(T, O, c, ts), O, s)
Yields(seg, ts, c) ==
  /\ seg \in Seq(Lexes) /\ ts \in Seq(Tokens) /\ c \in Nat
  /\ \A T, O : Fits(T, O, Len(ts)) => Runs(seg, ts, c, T, O)

\* One text after another.
LEMMA AfterBoth ==
  ASSUME NEW p, NEW s \in Seq(Lexes), NEW t \in Seq(Lexes)
  PROVE  After(p, s \o t) = After(After(p, s), t)
BY AfterCat

\* Concatenation, by a name that hides what it is.
Cat(s, t) == s \o t

\* Brackets make no difference.
LEMMA CatsCat ==
  ASSUME NEW S, NEW s \in Seq(S), NEW t \in Seq(S), NEW u \in Seq(S)
  PROVE  Cat(Cat(s, t), u) = Cat(s, Cat(t, u))
BY ConcatAssociative DEF Cat

\* Tokens can be joined in either order.
LEMMA TokensCat ==
  ASSUME NEW s \in Seq(Tokens), NEW t \in Seq(Tokens), NEW u \in Seq(Tokens)
  PROVE  (s \o t) \o u = s \o (t \o u)
<1>1. Cat(Cat(s, t), u) = Cat(s, Cat(t, u))
  BY CatsCat
<1> QED
  BY <1>1 DEF Cat

\* The tokens of two sequences, one after the other.
LEMMA TokensBoth ==
  ASSUME NEW s \in Seq(Tokens), NEW t \in Seq(Tokens)
  PROVE  /\ s \o t \in Seq(Tokens) /\ Len(s \o t) = Len(s) + Len(t) /\ Len(s) \in Nat /\ Len(t) \in Nat
         /\ \A i \in 1..Len(s) : (s \o t)[i] = s[i]
         /\ \A i \in 1..Len(t) : (s \o t)[Len(s) + i] = t[i]
<1>1. /\ s \o t \in Seq(Tokens) /\ Len(s \o t) = Len(s) + Len(t) /\ Len(s) \in Nat /\ Len(t) \in Nat
      /\ \A i \in 1..(Len(s) + Len(t)) : (s \o t)[i] = IF i <= Len(s) THEN s[i] ELSE t[i - Len(s)]
  BY ConcatProperties, LenProperties
<1>2. ASSUME NEW i \in 1..Len(t) PROVE (s \o t)[Len(s) + i] = t[i]
  <2> DEFINE j == Len(s) + i
  <2>1. j \in 1..(Len(s) + Len(t)) /\ ~(j <= Len(s)) /\ j - Len(s) = i
    BY <1>1
  <2> HIDE DEF j
  <2> QED
    BY <1>1, <2>1 DEF j
<1> QED
  BY <1>1, <1>2

\* What is open stays as it is.
LEMMA StaysWithin ==
  ASSUME NEW T, NEW O, Within(T, O), NEW c \in Nat, NEW ts \in Seq(Tokens)
  PROVE  /\ Within(Grown(T, O, c, ts), O) /\ Grown(T, O, c, ts) \in Seq(Tokens)
         /\ Len(Grown(T, O, c, ts)) = Len(T) + Len(ts) /\ Len(T) \in Nat /\ Len(ts) \in Nat
<1> DEFINE i == Innermost(O)
           R == Raised(T, i, c)
<1>1. T \in Seq(Tokens) /\ O \in Seq(Nat) /\ O # <<>> /\ i \in 1..Len(T) /\ T[i].lexeme.kind \in Openers
  BY DEF Within
<1>2. Len(T) \in Nat /\ Len(ts) \in Nat
  BY <1>1, LenProperties
<1> HIDE DEF i
<1>3. i \in 0..Len(T)
  BY <1>1, <1>2
<1>4. /\ R \in Seq(Tokens) /\ Len(R) = Len(T)
      /\ R[i] = [lexeme |-> T[i].lexeme, size |-> T[i].size + c]
  <2>1. /\ R \in Seq(Tokens) /\ Len(R) = Len(T)
        /\ \A j \in 1..Len(T) : R[j] = IF j = i THEN [lexeme |-> T[j].lexeme, size |-> T[j].size + c] ELSE T[j]
    BY <1>1, <1>3, RaisedIs
  <2> QED
    BY <1>1, <2>1
<1> HIDE DEF R
<1>5. R \o ts \in Seq(Tokens) /\ Len(R \o ts) = Len(T) + Len(ts) /\ (R \o ts)[i] = R[i]
  <2>1. i \in 1..(Len(R) + Len(ts)) /\ i <= Len(R)
    BY <1>1, <1>2, <1>4
  <2> QED
    BY <1>4, <2>1, ConcatProperties
<1>6. (R \o ts)[i].lexeme.kind \in Openers /\ i \in 1..Len(R \o ts)
  BY <1>1, <1>2, <1>4, <1>5
<1> QED
  BY <1>1, <1>2, <1>5, <1>6 DEF Within, Grown, R, i

\* Growing twice.
LEMMA GrownTwice ==
  ASSUME NEW T, NEW O, Within(T, O), NEW a \in Nat, NEW b \in Nat,
         NEW ts \in Seq(Tokens), NEW us \in Seq(Tokens)
  PROVE  Grown(Grown(T, O, a, ts), O, b, us) = Grown(T, O, a + b, ts \o us)
<1> DEFINE i == Innermost(O)
           A == Raised(T, i, a)
           B == Raised(T, i, a + b)
<1>1. T \in Seq(Tokens) /\ i \in 1..Len(T) /\ Len(T) \in Nat
  BY LenProperties DEF Within
<1> HIDE DEF i
<1>2. i \in 0..Len(T) /\ a + b \in Nat
  BY <1>1
<1>3. A \in Seq(Tokens) /\ Len(A) = Len(T)
  BY <1>1, <1>2, RaisedIs
<1>4. B \in Seq(Tokens) /\ Len(B) = Len(T)
  BY <1>1, <1>2, RaisedIs
<1>5. Raised(A, i, b) = B
  BY <1>1, <1>2, RaisedTwice
<1> HIDE DEF A, B
<1>6. Raised(A \o ts, i, b) = Raised(A, i, b) \o ts
  BY <1>2, <1>3, RaisedCat
<1>7. (B \o ts) \o us = B \o (ts \o us)
  BY <1>4, TokensCat
<1> QED
  BY <1>5, <1>6, <1>7 DEF Grown, A, B, i

\* Nothing.
LEMMA NothingYields == Yields(<<>>, <<>>, 0)
<1>1. <<>> \in Seq(Lexes) /\ <<>> \in Seq(Tokens) /\ 0 \in Nat
  OBVIOUS
<1>2. ASSUME NEW T, NEW O, Fits(T, O, Len(<<>>)) PROVE Runs(<<>>, <<>>, 0, T, O)
  <2> DEFINE i == Innermost(O)
  <2>1. T \in Seq(Tokens) /\ i \in 1..Len(T) /\ Len(T) \in Nat
    BY <1>2, LenProperties DEF Fits, Within
  <2> HIDE DEF i
  <2>2. i \in 0..Len(T)
    BY <2>1
  <2>3. Raised(T, i, 0) = T
    BY <1>1, <2>1, <2>2, RaisedTwice
  <2>4. T \o <<>> = T
    BY <2>1, ConcatEmptySeq
  <2>5. Grown(T, O, 0, <<>>) = T
    BY <2>3, <2>4 DEF Grown, i
  <2>6. After(Inside(T, O), <<>>) = At(T, O, i)
    BY AfterOne DEF Inside, i
  <2>7. Settled(T, O, i)
    BY <2>1 DEF Settled, i
  <2> QED
    BY <2>5, <2>6, <2>7 DEF Runs
<1> QED
  BY <1>1, <1>2 DEF Yields

\* Two values, and the comma between them.
LEMMA CommaYields ==
  ASSUME NEW a, NEW ts, NEW ca, Yields(a, ts, ca), NEW b, NEW us, NEW cb, Yields(b, us, cb)
  PROVE  Yields((a \o <<Mark("comma")>>) \o b, ts \o us, ca + cb)
<1> DEFINE c == <<Mark("comma")>>
<1>1. /\ a \in Seq(Lexes) /\ b \in Seq(Lexes) /\ ts \in Seq(Tokens) /\ us \in Seq(Tokens)
      /\ ca \in Nat /\ cb \in Nat
  BY DEF Yields
<1>2. c \in Seq(Lexes)
  <2>1. Mark("comma") \in Lexes
    BY LexesAre DEF Kinds
  <2> DEFINE x == Mark("comma")
  <2> HIDE DEF x
  <2>2. <<x>> \in Seq(Lexes)
    BY <2>1 DEF x
  <2> QED
    BY <2>2 DEF x
<1> HIDE DEF c
<1>3. a \o c \in Seq(Lexes) /\ (a \o c) \o b \in Seq(Lexes) /\ ts \o us \in Seq(Tokens) /\ ca + cb \in Nat
  BY <1>1, <1>2
<1>4. Len(ts \o us) = Len(ts) + Len(us) /\ Len(ts) \in Nat /\ Len(us) \in Nat
  BY <1>1, ConcatProperties, LenProperties
<1>5. ASSUME NEW T, NEW O, Fits(T, O, Len(ts \o us))
      PROVE  Runs((a \o c) \o b, ts \o us, ca + cb, T, O)
  <2> DEFINE G == Grown(T, O, ca, ts)
             H == Grown(G, O, cb, us)
  <2>1. Within(T, O) /\ Within(G, O) /\ Len(G) = Len(T) + Len(ts) /\ Len(T) \in Nat
    BY <1>1, <1>5, StaysWithin DEF Fits
  <2>2. Fits(T, O, Len(ts)) /\ Fits(G, O, Len(us))
    <3> HIDE DEF G
    <3> QED
      BY <1>4, <1>5, <2>1, RoomAssumption DEF Fits
  <2>3. PICK s : After(Inside(T, O), a) = At(G, O, s) /\ Settled(G, O, s)
    BY <2>2 DEF Yields, Runs
  <2> HIDE DEF G
  <2>4. PICK r : After(Inside(G, O), b) = At(H, O, r) /\ Settled(H, O, r)
    BY <2>2 DEF Yields, Runs
  <2>5. After(At(G, O, s), c) = Inside(G, O)
    BY <2>1, <2>3, CommaParsed, AfterOne DEF Inside, c
  <2>6. After(Inside(T, O), a \o c) = Inside(G, O)
    BY <1>1, <1>2, <2>3, <2>5, AfterCat
  <2>7. After(Inside(T, O), (a \o c) \o b) = At(H, O, r)
    <3> HIDE DEF H
    <3>1. After(Inside(T, O), (a \o c) \o b) = After(After(Inside(T, O), a \o c), b)
      BY <1>1, <1>3, AfterBoth
    <3> QED
      BY <2>4, <2>6, <3>1
  <2>8. H = Grown(T, O, ca + cb, ts \o us)
    BY <1>1, <2>1, GrownTwice DEF G
  <2> QED
    BY <2>4, <2>7, <2>8 DEF Runs
<1> QED
  BY <1>3, <1>5 DEF Yields, c

\* Sequences of one and of two lexemes.
LEMMA OneLexeme ==
  ASSUME NEW x \in Lexes
  PROVE  <<x>> \in Seq(Lexes)
OBVIOUS

\* Two lexemes are one after the other.
LEMMA TwoLexemes ==
  ASSUME NEW x \in Lexes, NEW y \in Lexes
  PROVE  <<x, y>> \in Seq(Lexes) /\ <<x, y>> = <<x>> \o <<y>>
<1> DEFINE a == <<x>>
           b == <<y>>
           c == <<x, y>>
<1>1. /\ a \in Seq(Lexes) /\ Len(a) = 1 /\ a[1] = x /\ b \in Seq(Lexes) /\ Len(b) = 1 /\ b[1] = y
      /\ c \in Seq(Lexes) /\ Len(c) = 2 /\ c[1] = x /\ c[2] = y
  OBVIOUS
<1> HIDE DEF a, b, c
<1>2. a \o b \in Seq(Lexes) /\ Len(a \o b) = 2 /\ (a \o b)[1] = x /\ (a \o b)[2] = y
  BY <1>1, ConcatProperties, SMTT(40)
<1>3. c = a \o b
  <2>1. Len(c) = Len(a \o b) /\ \A i \in 1..Len(c) : c[i] = (a \o b)[i]
    BY <1>1, <1>2
  <2> QED
    BY <1>1, <1>2, <2>1, SeqEqual
<1> QED
  BY <1>1, <1>3 DEF a, b, c

\* A number among the elements of an array.
LEMMA NumberYields ==
  ASSUME NEW n \in Int
  PROVE  Yields(<<Num(n)>>, <<Token(Num(n))>>, 1)
<1> DEFINE x == Num(n)
           t == Token(x)
<1>1. x \in Lexes /\ x.kind = "number" /\ t \in Tokens /\ 1 \in Nat
  BY LexesAre, TokensOf
<1>2. <<x>> \in Seq(Lexes)
  <2> HIDE DEF x
  <2> QED
    BY <1>1, OneLexeme
<1>3. <<t>> \in Seq(Tokens) /\ Len(<<t>>) = 1
  <2> HIDE DEF t
  <2> QED
    BY <1>1
<1>4. ASSUME NEW T, NEW O, Fits(T, O, Len(<<t>>)) PROVE Runs(<<x>>, <<t>>, 1, T, O)
  <2> DEFINE i == Innermost(O)
             G == Grown(T, O, 1, <<t>>)
  <2>1. T \in Seq(Tokens) /\ i \in 1..Len(T) /\ Len(T) \in Nat /\ Within(T, O)
    BY <1>4, LenProperties DEF Fits, Within
  <2>2. Within(G, O)
    <3> HIDE DEF t
    <3> QED
      BY <1>1, <1>3, <2>1, StaysWithin
  <2>3. Len(T) < MAX_JSON_TOKENS
    BY <1>3, <1>4, <2>1, RoomAssumption DEF Fits
  <2>4. Parsed(At(T, O, i), x) = At(G, O, i)
    <3>1. i \in 0..Len(T)
      <4> HIDE DEF i
      <4> QED
        BY <2>1
    <3> HIDE DEF i, x
    <3>2. Parsed(At(T, O, i), x) = At(Raised(T, i, 1) \o <<Token(x)>>, O, i)
      BY <1>1, <2>1, <2>3, <3>1, ScalarParsed
    <3> QED
      BY <3>2 DEF Grown, i
  <2>5. After(Inside(T, O), <<x>>) = At(G, O, i)
    <3> HIDE DEF x, G
    <3> QED
      BY <2>4, AfterOne DEF Inside
  <2>6. Settled(G, O, i)
    <3> HIDE DEF G
    <3> QED
      BY <2>2 DEF Within, Settled
  <2> HIDE DEF G
  <2> QED
    BY <2>5, <2>6 DEF Runs, G
<1> QED
  BY <1>1, <1>2, <1>3, <1>4 DEF Yields

\* A name and its colon.
LEMMA KeyParsed ==
  ASSUME NEW T \in Seq(Tokens), NEW O, NEW s \in 0..Len(T), NEW name \in Names,
         Len(T) < MAX_JSON_TOKENS
  PROVE  /\ After(At(T, O, s), <<Str(name), Mark("colon")>>)
              = At(Raised(T, s, 1) \o <<Token(Str(name))>>, O, Len(T) + 1)
         /\ <<Str(name), Mark("colon")>> \in Seq(Lexes)
         /\ Raised(T, s, 1) \o <<Token(Str(name))>> \in Seq(Tokens)
         /\ Len(Raised(T, s, 1) \o <<Token(Str(name))>>) = Len(T) + 1
<1> DEFINE x == Str(name)
           y == Mark("colon")
           R == Raised(T, s, 1)
           t == Token(x)
           U == R \o <<t>>
<1>1. x \in Lexes /\ x.kind = "string" /\ y \in Lexes /\ t \in Tokens
  BY LexesAre, TokensOf DEF Kinds
<1>2. Parsed(At(T, O, s), x) = At(U, O, s)
  <2> HIDE DEF x
  <2> QED
    BY <1>1, ScalarParsed
<1>3. R \in Seq(Tokens) /\ Len(R) = Len(T)
  <2>1. 1 \in Nat
    OBVIOUS
  <2> QED
    BY <2>1, RaisedIs
<1> HIDE DEF x, t, R
<1>4. U \in Seq(Tokens) /\ Len(U) = Len(T) + 1
  BY <1>1, <1>3, OneToken
<1> HIDE DEF U
<1>5. Parsed(At(U, O, s), y) = At(U, O, Len(U))
  BY ColonParsed
<1> HIDE DEF y
<1>6. <<x, y>> \in Seq(Lexes) /\ <<x, y>> = <<x>> \o <<y>> /\ <<x>> \in Seq(Lexes) /\ <<y>> \in Seq(Lexes)
  BY <1>1, OneLexeme, TwoLexemes
<1>7. After(At(T, O, s), <<x>>) = At(U, O, s)
  BY <1>2, AfterOne
<1>8. After(At(U, O, s), <<y>>) = At(U, O, Len(U))
  BY <1>5, AfterOne
<1>9. After(At(T, O, s), <<x>> \o <<y>>) = At(U, O, Len(U))
  <2> DEFINE a == <<x>>
             b == <<y>>
             p == At(T, O, s)
  <2>1. a \in Seq(Lexes) /\ b \in Seq(Lexes) /\ After(p, a) = At(U, O, s)
        /\ After(At(U, O, s), b) = At(U, O, Len(U))
    BY <1>6, <1>7, <1>8
  <2> HIDE DEF a, b, p
  <2>2. After(p, a \o b) = After(After(p, a), b)
    BY <2>1, AfterBoth
  <2> QED
    BY <2>1, <2>2 DEF a, b, p
<1> QED
  BY <1>4, <1>6, <1>9 DEF x, y, R, t, U

\* The last token counts what follows it.
Sized(x, c) == [lexeme |-> x, size |-> c]

\* A token at the end of others counts c lexemes.
LEMMA LastCounts ==
  ASSUME NEW R \in Seq(Tokens), NEW x \in Lexes, NEW c \in Nat
  PROVE  /\ Raised(R \o <<Token(x)>>, Len(R) + 1, c) = R \o <<Sized(x, c)>>
         /\ Sized(x, c) \in Tokens /\ Sized(x, c).lexeme = x /\ Sized(x, c).size = c
<1> DEFINE t == Token(x)
           u == <<t>>
           k == Sized(x, c)
<1>1. t \in Tokens /\ t.lexeme = x /\ t.size = 0
  BY LexesAre, TokensOf
<1>2. k = [lexeme |-> x, size |-> c] /\ k \in Tokens /\ k.lexeme = x /\ k.size = c
  BY DEF Sized, Tokens
<1> HIDE DEF t, k
<1>3. u \in Seq(Tokens) /\ Len(u) = 1 /\ u[1] = t
  BY <1>1
<1> HIDE DEF u
<1>4. Raised(R \o u, Len(R) + 1, c) = R \o Raised(u, 1, c)
  <2>1. 1 \in 1..Len(u) /\ c \in Nat
    BY <1>3
  <2> QED
    BY <1>3, <2>1, RaisedCat
<1>5. Raised(u, 1, c) = <<k>>
  <2>1. /\ Raised(u, 1, c) \in Seq(Tokens) /\ Len(Raised(u, 1, c)) = Len(u)
        /\ \A i \in 1..Len(u) :
             Raised(u, 1, c)[i] = IF i = 1 THEN [lexeme |-> u[i].lexeme, size |-> u[i].size + c] ELSE u[i]
    <3>1. 1 \in 0..Len(u) /\ c \in Nat
      BY <1>3
    <3> QED
      BY <1>3, <3>1, RaisedIs
  <2>2. Raised(u, 1, c)[1] = k
    BY <1>1, <1>2, <1>3, <2>1, 0 + c = c
  <2>3. <<k>> \in Seq(Tokens) /\ Len(<<k>>) = 1 /\ <<k>>[1] = k
    BY <1>2
  <2>4. \A i \in 1..Len(<<k>>) : Raised(u, 1, c)[i] = <<k>>[i]
    BY <2>2, <2>3
  <2>5. Len(Raised(u, 1, c)) = Len(<<k>>)
    BY <1>3, <2>1, <2>3
  <2> QED
    BY <2>1, <2>3, <2>4, <2>5, SameTokens
<1> QED
  BY <1>2, <1>4, <1>5 DEF u, t, k

\* A key counts its value.
LEMMA KeyCounts ==
  ASSUME NEW R \in Seq(Tokens), NEW name \in Names
  PROVE  Raised(R \o <<Token(Str(name))>>, Len(R) + 1, 1) = R \o <<Key(name)>>
<1> DEFINE x == Str(name)
<1>1. x \in Lexes /\ 1 \in Nat /\ Key(name) = Sized(x, 1)
  BY LexesAre DEF Key, Sized
<1> HIDE DEF x
<1>2. Raised(R \o <<Token(x)>>, Len(R) + 1, 1) = R \o <<Sized(x, 1)>>
  BY <1>1, LastCounts, ZenonT(40)
<1> QED
  BY <1>1, <1>2 DEF x

\* A member whose value is a string or a number.
LEMMA MemberYields ==
  ASSUME NEW name \in Names, NEW x \in Lexes, x.kind \in {"string", "number"}
  PROVE  Yields(Member(name, <<x>>), <<Key(name)>> \o <<Token(x)>>, 1)
<1> DEFINE a == <<Str(name), Mark("colon")>>
           k == Key(name)
           t == Token(x)
           ts == <<k>> \o <<t>>
<1>1. t \in Tokens /\ k \in Tokens
  BY TokensOf
<1>2. a \in Seq(Lexes) /\ <<x>> \in Seq(Lexes)
  <2>1. Str(name) \in Lexes /\ Mark("colon") \in Lexes
    BY LexesAre DEF Kinds
  <2> QED
    BY <2>1, OneLexeme, TwoLexemes
<1> HIDE DEF k, t
<1>3. <<k>> \in Seq(Tokens) /\ <<t>> \in Seq(Tokens) /\ ts \in Seq(Tokens) /\ Len(ts) = 2
  <2>1. <<k>> \in Seq(Tokens) /\ <<t>> \in Seq(Tokens) /\ Len(<<k>>) = 1 /\ Len(<<t>>) = 1
    BY <1>1
  <2> QED
    BY <2>1, ConcatProperties
<1>4. Member(name, <<x>>) = a \o <<x>>
  BY DEF Member
<1> HIDE DEF a
<1>5. a \o <<x>> \in Seq(Lexes)
  BY <1>2
<1>6. ASSUME NEW T, NEW O, Fits(T, O, Len(ts)) PROVE Runs(a \o <<x>>, ts, 1, T, O)
  <2> DEFINE i == Innermost(O)
             R == Raised(T, i, 1)
             U == R \o <<Token(Str(name))>>
             n == Len(T) + 1
             G == Grown(T, O, 1, ts)
  <2>1. T \in Seq(Tokens) /\ i \in 1..Len(T) /\ Len(T) \in Nat /\ Within(T, O)
    BY <1>6, LenProperties DEF Fits, Within
  <2>2. Len(T) < MAX_JSON_TOKENS /\ n < MAX_JSON_TOKENS /\ n \in Nat /\ 1 \in Nat
    BY <1>3, <1>6, <2>1, RoomAssumption DEF Fits
  <2>3. Inside(T, O) = At(T, O, i)
    BY DEF Inside
  <2> HIDE DEF i
  <2>4. i \in 0..Len(T)
    BY <2>1
  <2>5. After(At(T, O, i), a) = At(U, O, n) /\ U \in Seq(Tokens) /\ Len(U) = n
    BY <2>1, <2>2, <2>4, KeyParsed DEF a
  <2>6. R \in Seq(Tokens) /\ Len(R) = Len(T)
    BY <2>1, <2>2, <2>4, RaisedIs
  <2> HIDE DEF R
  <2>7. Raised(U, n, 1) = R \o <<k>>
    BY <2>6, KeyCounts DEF k
  <2> HIDE DEF U, n
  <2>8. Parsed(At(U, O, n), x) = At((R \o <<k>>) \o <<t>>, O, n)
    <3>1. n \in 0..Len(U) /\ Len(U) < MAX_JSON_TOKENS
      BY <2>2, <2>5
    <3>2. Parsed(At(U, O, n), x) = At(Raised(U, n, 1) \o <<Token(x)>>, O, n)
      BY <2>5, <3>1, ScalarParsed
    <3> QED
      BY <2>7, <3>2 DEF t
  <2>9. (R \o <<k>>) \o <<t>> = G
    <3>1. (R \o <<k>>) \o <<t>> = R \o (<<k>> \o <<t>>)
      BY <1>3, <2>6, TokensCat
    <3> QED
      BY <3>1 DEF Grown, R, i
  <2> HIDE DEF G
  <2>10. After(Inside(T, O), a \o <<x>>) = At(G, O, n)
    <3>1. After(At(T, O, i), a \o <<x>>) = After(At(U, O, n), <<x>>)
      <4> DEFINE v == <<x>>
                 p == At(T, O, i)
      <4>1. v \in Seq(Lexes) /\ After(p, a) = At(U, O, n)
        BY <1>2, <2>5
      <4> HIDE DEF v, p
      <4>2. After(p, a \o v) = After(After(p, a), v)
        BY <1>2, <4>1, AfterBoth
      <4> QED
        BY <4>1, <4>2 DEF v, p
    <3>2. After(At(U, O, n), <<x>>) = At(G, O, n)
      BY <2>8, <2>9, AfterOne
    <3> QED
      BY <2>3, <3>1, <3>2
  <2>11. Settled(G, O, n)
    <3>1. R \o <<k>> \in Seq(Tokens) /\ Len(R \o <<k>>) = n /\ (R \o <<k>>)[n] = k
      BY <1>1, <2>6, OneToken DEF n
    <3> DEFINE V == R \o <<k>>
    <3> HIDE DEF V
    <3>2. Len(V \o <<t>>) = n + 1 /\ (V \o <<t>>)[n] = k
      <4>1. n \in 1..Len(V)
        BY <2>1, <2>2, <3>1 DEF V, n
      <4> QED
        BY <1>1, <3>1, <4>1, OneToken DEF V
    <3>3. Len(G) = n + 1 /\ G[n] = k
      BY <2>9, <3>2 DEF V
    <3>4. k.lexeme.kind = "string"
      BY LexesAre, TokensOf DEF k
    <3>5. n \in 1..Len(G)
      BY <2>1, <2>2, <3>3 DEF n
    <3> QED
      BY <3>3, <3>4, <3>5 DEF Settled
  <2> QED
    BY <2>10, <2>11 DEF Runs, G
<1> QED
  BY <1>3, <1>4, <1>5, <1>6 DEF Yields, k, t

\* A member whose value is an object or an array.
LEMMA NestYields ==
  ASSUME NEW name \in Names, NEW open \in Openers, NEW close \in {"object_end", "array_end"},
         Opener[close] = open, NEW seg, NEW ts, NEW c, Yields(seg, ts, c)
  PROVE  /\ Yields(Member(name, (<<Mark(open)>> \o seg) \o <<Mark(close)>>),
                   (<<Key(name)>> \o <<Sized(Mark(open), c)>>) \o ts, 1)
         /\ Sized(Mark(open), c) \in Tokens
<1> DEFINE a == <<Str(name), Mark("colon")>>
           b == <<Mark(open)>>
           e == <<Mark(close)>>
           k == Key(name)
           q == Sized(Mark(open), c)
           kq == <<k>> \o <<q>>
           us == kq \o ts
           text == a \o ((b \o seg) \o e)
<1>1. seg \in Seq(Lexes) /\ ts \in Seq(Tokens) /\ c \in Nat
  BY DEF Yields
<1>2. Mark(open) \in Lexes /\ Mark(close) \in Lexes /\ Mark("colon") \in Lexes /\ Str(name) \in Lexes
  BY LexesAre DEF Kinds, Openers
<1>3. a \in Seq(Lexes) /\ b \in Seq(Lexes) /\ e \in Seq(Lexes)
  BY <1>2, OneLexeme, TwoLexemes
<1>4. k \in Tokens /\ q \in Tokens /\ q.lexeme = Mark(open) /\ Mark(open).kind = open
  <2>1. k \in Tokens
    BY TokensOf
  <2>2. q \in Tokens /\ q.lexeme = Mark(open)
    <3>1. <<>> \in Seq(Tokens)
      OBVIOUS
    <3> QED
      BY <1>1, <1>2, <3>1, LastCounts
  <2> QED
    BY <2>1, <2>2 DEF Mark
<1>5. Member(name, (b \o seg) \o e) = text
  BY DEF Member
<1> HIDE DEF a, b, e, k, q
<1>6. b \o seg \in Seq(Lexes) /\ (b \o seg) \o e \in Seq(Lexes) /\ text \in Seq(Lexes)
  BY <1>1, <1>3
<1>7. <<k>> \in Seq(Tokens) /\ <<q>> \in Seq(Tokens) /\ Len(<<k>>) = 1 /\ Len(<<q>>) = 1
  BY <1>4
<1>8. kq \in Seq(Tokens) /\ Len(kq) = 2
  <2> DEFINE kk == <<k>>
             qq == <<q>>
  <2>1. kk \in Seq(Tokens) /\ qq \in Seq(Tokens) /\ Len(kk) = 1 /\ Len(qq) = 1
    BY <1>7
  <2> HIDE DEF kk, qq
  <2>2. kk \o qq \in Seq(Tokens) /\ Len(kk \o qq) = 2
    BY <2>1, TokensBoth, 1 + 1 = 2
  <2> QED
    BY <2>2 DEF kk, qq
<1> HIDE DEF kq
<1>9. us \in Seq(Tokens) /\ Len(us) = 2 + Len(ts) /\ Len(ts) \in Nat
  <2>1. kq \o ts \in Seq(Tokens) /\ Len(kq \o ts) = Len(kq) + Len(ts) /\ Len(ts) \in Nat
    BY <1>1, <1>8, TokensBoth
  <2> QED
    BY <1>8, <2>1
<1>10. ASSUME NEW T, NEW O, Fits(T, O, Len(us)) PROVE Runs(text, us, 1, T, O)
  <2> DEFINE i == Innermost(O)
             R == Raised(T, i, 1)
             U == R \o <<Token(Str(name))>>
             n == Len(T) + 1
             V == Raised(U, n, 1) \o <<Token(Mark(open))>>
             P == Append(O, n + 1)
             W == Grown(V, P, c, ts)
             G == Grown(T, O, 1, us)
  <2>1. T \in Seq(Tokens) /\ i \in 1..Len(T) /\ Len(T) \in Nat /\ Within(T, O) /\ O \in Seq(Nat)
    BY <1>10, LenProperties DEF Fits, Within
  <2>2. /\ Len(T) < MAX_JSON_TOKENS /\ n < MAX_JSON_TOKENS /\ n \in Nat /\ 1 \in Nat /\ n + 1 \in Nat
        /\ n + 1 + Len(ts) <= MAX_JSON_TOKENS
    BY <1>9, <1>10, <2>1, RoomAssumption DEF Fits
  <2>3. Inside(T, O) = At(T, O, i)
    BY DEF Inside
  <2>4. i \in 0..Len(T)
    <3> HIDE DEF i
    <3> QED
      BY <2>1
  <2> HIDE DEF i
  <2>5. After(At(T, O, i), a) = At(U, O, n) /\ U \in Seq(Tokens) /\ Len(U) = n
    BY <2>1, <2>2, <2>4, KeyParsed DEF a
  <2>6. R \in Seq(Tokens) /\ Len(R) = Len(T)
    BY <2>1, <2>2, <2>4, RaisedIs
  <2> HIDE DEF R
  <2>7. Raised(U, n, 1) = R \o <<k>>
    BY <2>6, KeyCounts DEF k
  <2> HIDE DEF U
  <2>8. /\ Parsed(At(U, O, n), Mark(open)) = At(V, P, n + 1)
        /\ Within(V, P) /\ Innermost(P) = n + 1 /\ Len(V) = n + 1
    <3>1. n \in 0..Len(U) /\ Len(U) < MAX_JSON_TOKENS
      BY <2>2, <2>5
    <3> QED
      BY <2>1, <2>5, <3>1, OpenParsed, ZenonT(60)
  <2>9. V = (R \o <<k>>) \o <<Token(Mark(open))>>
    BY <2>7
  <2> HIDE DEF V, P, n
  <2>10. Fits(V, P, Len(ts))
    BY <1>9, <2>2, <2>8 DEF Fits
  <2>11. PICK s : After(Inside(V, P), seg) = At(W, P, s)
    BY <2>10 DEF Yields, Runs
  <2>12. Within(W, P)
    BY <1>1, <2>8, StaysWithin
  <2>13. W = ((R \o <<k>>) \o <<q>>) \o ts
    <3> DEFINE A == R \o <<k>>
    <3>1. A \in Seq(Tokens) /\ Len(A) = n
      BY <1>4, <2>6, OneToken DEF n
    <3> HIDE DEF A
    <3>2. Raised(A \o <<Token(Mark(open))>>, Len(A) + 1, c) = A \o <<q>>
      BY <1>1, <1>2, <3>1, LastCounts DEF q
    <3> QED
      BY <2>8, <2>9, <3>1, <3>2 DEF Grown, A
  <2>14. W = G
    <3> DEFINE kk == <<k>>
               qq == <<q>>
    <3>1. kk \in Seq(Tokens) /\ qq \in Seq(Tokens)
      BY <1>7
    <3>2. W = ((R \o kk) \o qq) \o ts /\ kq = kk \o qq
      BY <2>13 DEF kq
    <3> HIDE DEF kk, qq, W
    <3>3. (R \o kk) \o qq = R \o kq
      BY <2>6, <3>1, <3>2, TokensCat
    <3>4. (R \o kq) \o ts = R \o us
      BY <1>1, <1>8, <2>6, TokensCat
    <3> QED
      BY <3>2, <3>3, <3>4 DEF Grown, R, i
  <2>15. W[n + 1].lexeme.kind = Opener[close]
    <3> DEFINE A == R \o <<k>>
    <3>1. A \in Seq(Tokens) /\ Len(A) = n
      BY <1>4, <2>6, OneToken DEF n
    <3> HIDE DEF A
    <3> DEFINE B == A \o <<q>>
    <3>2. B \in Seq(Tokens) /\ Len(B) = n + 1 /\ B[n + 1] = q
      BY <1>4, <3>1, OneToken
    <3> HIDE DEF B
    <3>3. (B \o ts)[n + 1] = B[n + 1]
      <4>1. n + 1 \in 1..(Len(B) + Len(ts)) /\ n + 1 <= Len(B)
        BY <1>9, <2>2, <3>2
      <4> QED
        BY <1>1, <3>2, <4>1, ConcatProperties
    <3>4. W = B \o ts
      BY <2>13 DEF A, B
    <3> HIDE DEF W
    <3> QED
      BY <1>4, <3>2, <3>3, <3>4
  <2> HIDE DEF W
  <2>16. Parsed(At(W, P, s), Mark(close)) = At(W, O, i)
    BY <2>1, <2>2, <2>12, <2>15, CloseParsed DEF P, i
  <2> HIDE DEF G
  <2>17. After(At(T, O, i), text) = At(W, O, i)
    <3> DEFINE p == At(T, O, i)
               f == At(U, O, n)
               g == At(V, P, n + 1)
               h == At(W, P, s)
               l == At(W, O, i)
               bs == b \o seg
               bse == bs \o e
    <3>1. After(p, a) = f
      BY <2>5
    <3>2. After(f, b) = g
      <4> HIDE DEF f, g
      <4> QED
        BY <2>8, AfterOne DEF b, f, g
    <3>3. After(g, seg) = h
      BY <2>8, <2>11 DEF Inside
    <3>4. After(h, e) = l
      <4> HIDE DEF h, l
      <4> QED
        BY <2>16, AfterOne DEF e, h, l
    <3> HIDE DEF p, f, g, h, l
    <3>5. After(f, bs) = h
      BY <1>1, <1>3, <3>2, <3>3, AfterBoth
    <3>a. bs \in Seq(Lexes) /\ bse \in Seq(Lexes)
      BY <1>6
    <3> HIDE DEF bs
    <3>6. After(f, bse) = l
      BY <1>3, <3>a, <3>4, <3>5, AfterBoth
    <3> HIDE DEF bse
    <3>7. After(p, a \o bse) = l
      BY <1>3, <3>a, <3>1, <3>6, AfterBoth
    <3> QED
      BY <3>7 DEF p, l, bs, bse
  <2>18. Settled(G, O, i)
    <3>1. Within(G, O)
      BY <1>9, <2>1, <2>2, StaysWithin DEF G
    <3> QED
      BY <3>1 DEF Within, Settled, i
  <2> QED
    BY <2>3, <2>14, <2>17, <2>18 DEF Runs, G
<1> QED
  BY <1>4, <1>5, <1>6, <1>9, <1>10 DEF Yields, k, q, b, e, kq

Fours  == {"volume", "tone", "opcode"}
Twos   == {"read_buffer", "write_buffer"}
Others == {"mapper", "peripheral", "psg", "z80", "vdp", "none", "rom", "rom_name", "emu_version",
           "version", "sav_version", "DEVEL"}

\* No number is named like an array, a memory or an object.
LEMMA NamesApart ==
  /\ Numbers \cap (Fours \cup Twos \cup {"ram", "vram"} \cup Others) = {}
  /\ Fours \cap Twos = {} /\ (Fours \cup Twos) \cap ({"ram", "vram"} \cup Others) = {}
  /\ {"ram", "vram"} \cap Others = {}
<1> DEFINE D == Fours \cup Twos \cup {"ram", "vram"} \cup Others
<1>1. ASSUME NEW i \in DOMAIN Z80Registers PROVE Z80Registers[i] \notin D
  <2>1. i \in 1..17
    BY DEF Z80Registers
  <2>2. i \in {1, 2, 3, 4, 5, 6, 7, 8, 9, 10, 11, 12, 13, 14, 15, 16, 17}
    BY <2>1
  <2> QED
    BY <2>2 DEF Z80Registers, Fours, Twos, Others
<1>2. ASSUME NEW i \in DOMAIN Z80Ticks PROVE Z80Ticks[i] \notin D
  <2>1. i \in {1, 2, 3, 4, 5, 6}
    BY DEF Z80Ticks
  <2> QED
    BY <2>1 DEF Z80Ticks, Fours, Twos, Others
<1>3. ASSUME NEW i \in DOMAIN Z80Pins PROVE Z80Pins[i] \notin D
  <2>1. i \in 1..12
    BY DEF Z80Pins
  <2>2. i \in {1, 2, 3, 4, 5, 6, 7, 8, 9, 10, 11, 12}
    BY <2>1
  <2> QED
    BY <2>2 DEF Z80Pins, Fours, Twos, Others
<1>4. ASSUME NEW x \in {"slot0", "slot1", "slot2", "io_stat", "control", "ab", "bm", "read_index",
                 "read_is_io", "write_address", "write_index", "write_is_io", "data",
                 "data_latch", "address"} PROVE x \notin D
  BY DEF Fours, Twos, Others
<1>5. Numbers \cap D = {}
  BY <1>1, <1>2, <1>3, <1>4 DEF Numbers, ToSet
<1>6. Fours \cap Twos = {} /\ (Fours \cup Twos) \cap ({"ram", "vram"} \cup Others) = {}
      /\ {"ram", "vram"} \cap Others = {}
  BY DEF Fours, Twos, Others
<1> QED
  BY <1>5, <1>6

(***************************************************************************)
(* What tokens say: V gives for each name the tokens that follow its key.  *)
(***************************************************************************)
IsNamed(t)         == t.lexeme.kind = "string" /\ t.size = 1
Follows(us, ts, i) == i + Len(us) <= Len(ts) /\ \A k \in 1..Len(us) : ts[i + k] = us[k]
Honest(V, ts, i)   == IsNamed(ts[i]) =>
                        ts[i].lexeme.name \in Known /\ Follows(V[ts[i].lexeme.name], ts, i)
Roms               == {"rom", "rom_name"}
Romless(ts)        == \A i \in 1..Len(ts) : ts[i].lexeme.name \notin Roms
Truthful(V, ts)    == Romless(ts) /\ \A i \in 1..Len(ts) : Honest(V, ts, i)
Named(ts, name)    == \E i \in 1..Len(ts) : ts[i] = Key(name)
Plain(ts)          == Romless(ts) /\ \A i \in 1..Len(ts) : ~IsNamed(ts[i])
Saying             == [Known -> Seq(Tokens)]

\* Tokens before and after make no difference.
LEMMA FollowsBoth ==
  ASSUME NEW s \in Seq(Tokens), NEW t \in Seq(Tokens), NEW us \in Seq(Tokens)
  PROVE  /\ \A i \in 1..Len(s) : Follows(us, s, i) => Follows(us, s \o t, i)
         /\ \A i \in 1..Len(t) : Follows(us, t, i) => Follows(us, s \o t, Len(s) + i)
<1> DEFINE u == s \o t
           m == Len(s)
           n == Len(t)
           l == Len(us)
<1>1. /\ u \in Seq(Tokens) /\ Len(u) = m + n /\ m \in Nat /\ n \in Nat /\ l \in Nat
      /\ \A i \in 1..m : u[i] = s[i]
      /\ \A i \in 1..n : u[m + i] = t[i]
  BY TokensBoth, LenProperties
<1> HIDE DEF u, m, n, l
<1>2. ASSUME NEW i \in 1..m, Follows(us, s, i) PROVE Follows(us, u, i)
  <2>1. i + l <= m /\ \A k \in 1..l : s[i + k] = us[k]
    BY <1>2 DEF Follows, m, l
  <2>2. i + l <= Len(u) /\ \A k \in 1..l : i + k \in 1..m
    BY <1>1, <2>1
  <2> QED
    BY <1>1, <2>1, <2>2 DEF Follows, l
<1>3. ASSUME NEW i \in 1..n, Follows(us, t, i) PROVE Follows(us, u, m + i)
  <2>1. i + l <= n /\ \A k \in 1..l : t[i + k] = us[k]
    BY <1>3 DEF Follows, n, l
  <2>2. (m + i) + l <= Len(u)
    BY <1>1, <2>1
  <2>3. ASSUME NEW k \in 1..l PROVE u[(m + i) + k] = us[k]
    <3> DEFINE j == i + k
    <3>1. j \in 1..n /\ (m + i) + k = m + j
      BY <1>1, <2>1
    <3>2. t[j] = us[k]
      BY <2>1
    <3> HIDE DEF j
    <3> QED
      BY <1>1, <3>1, <3>2
  <2> QED
    BY <2>2, <2>3 DEF Follows, l
<1> QED
  BY <1>2, <1>3 DEF u, m, n

\* Two sequences without a ROM's name have none together.
LEMMA RomlessBoth ==
  ASSUME NEW s \in Seq(Tokens), NEW t \in Seq(Tokens), Romless(s), Romless(t)
  PROVE  Romless(s \o t)
<1> DEFINE u == s \o t
           m == Len(s)
           n == Len(t)
<1>1. /\ u \in Seq(Tokens) /\ Len(u) = m + n /\ m \in Nat /\ n \in Nat
      /\ \A i \in 1..m : u[i] = s[i]
      /\ \A i \in 1..n : u[m + i] = t[i]
  BY TokensBoth
<1> HIDE DEF u
<1>2. ASSUME NEW j \in 1..(m + n) PROVE u[j].lexeme.name \notin Roms
  <2>1. CASE j <= m
    BY <1>1, <2>1, SMTT(40) DEF Romless
  <2>2. CASE ~(j <= m)
    <3> DEFINE i == j - m
    <3>1. i \in 1..n /\ j = m + i
      BY <1>1, <2>2
    <3> HIDE DEF i
    <3> QED
      BY <1>1, <3>1 DEF Romless
  <2> QED
    BY <2>1, <2>2
<1> QED
  BY <1>1, <1>2 DEF Romless, u

\* Tokens that say the truth, one after the other.
LEMMA TruthfulBoth ==
  ASSUME NEW V \in Saying, NEW s \in Seq(Tokens), NEW t \in Seq(Tokens),
         Truthful(V, s), Truthful(V, t)
  PROVE  Truthful(V, s \o t)
<1> DEFINE u == s \o t
           m == Len(s)
           n == Len(t)
<1>1. /\ u \in Seq(Tokens) /\ Len(u) = m + n /\ m \in Nat /\ n \in Nat
      /\ \A i \in 1..m : u[i] = s[i]
      /\ \A i \in 1..n : u[m + i] = t[i]
  BY TokensBoth
<1> HIDE DEF u, m, n
<1>2. ASSUME NEW i \in 1..m PROVE Honest(V, u, i)
  <2> SUFFICES ASSUME IsNamed(u[i])
               PROVE  u[i].lexeme.name \in Known /\ Follows(V[u[i].lexeme.name], u, i)
    BY DEF Honest
  <2>1. u[i] = s[i]
    BY <1>1
  <2> DEFINE x == u[i].lexeme.name
  <2>2. x \in Known /\ Follows(V[x], s, i)
    BY <2>1 DEF Truthful, Honest, m
  <2>3. V[x] \in Seq(Tokens)
    BY <2>2 DEF Saying
  <2> QED
    BY <2>2, <2>3, FollowsBoth DEF u, m
<1>3. ASSUME NEW i \in 1..n PROVE Honest(V, u, m + i)
  <2> SUFFICES ASSUME IsNamed(u[m + i])
               PROVE  u[m + i].lexeme.name \in Known /\ Follows(V[u[m + i].lexeme.name], u, m + i)
    BY DEF Honest
  <2>1. u[m + i] = t[i]
    BY <1>1
  <2> DEFINE x == u[m + i].lexeme.name
  <2>2. x \in Known /\ Follows(V[x], t, i)
    BY <2>1 DEF Truthful, Honest, n
  <2>3. V[x] \in Seq(Tokens)
    BY <2>2 DEF Saying
  <2> QED
    BY <2>2, <2>3, FollowsBoth DEF u, m, n
<1>4. ASSUME NEW j \in 1..(m + n) PROVE Honest(V, u, j)
  <2>1. CASE j <= m
    BY <1>1, <1>2, <2>1
  <2>2. CASE ~(j <= m)
    <3> DEFINE i == j - m
    <3>1. i \in 1..n /\ j = m + i
      BY <1>1, <2>2
    <3> HIDE DEF i
    <3> QED
      BY <1>3, <3>1
  <2> QED
    BY <2>1, <2>2
<1>5. Romless(u)
  BY RomlessBoth DEF Truthful, u
<1> QED
  BY <1>1, <1>4, <1>5 DEF Truthful, u

\* The names in them.
LEMMA NamedBoth ==
  ASSUME NEW s \in Seq(Tokens), NEW t \in Seq(Tokens), NEW name, Named(s, name) \/ Named(t, name)
  PROVE  Named(s \o t, name)
<1> DEFINE u == s \o t
           m == Len(s)
           n == Len(t)
<1>1. /\ Len(u) = m + n /\ m \in Nat /\ n \in Nat
      /\ \A i \in 1..m : u[i] = s[i]
      /\ \A i \in 1..n : u[m + i] = t[i]
  BY TokensBoth
<1> HIDE DEF u
<1>2. CASE Named(s, name)
  <2>1. PICK i \in 1..m : s[i] = Key(name)
    BY <1>2 DEF Named
  <2>2. i \in 1..Len(u) /\ u[i] = Key(name)
    BY <1>1, <2>1
  <2> QED
    BY <2>2 DEF Named, u
<1>3. CASE Named(t, name)
  <2>1. PICK i \in 1..n : t[i] = Key(name)
    BY <1>3 DEF Named
  <2>2. m + i \in 1..Len(u) /\ u[m + i] = Key(name)
    BY <1>1, <2>1
  <2> QED
    BY <2>2 DEF Named, u
<1> QED
  BY <1>2, <1>3

\* A key before what V says of it.
LEMMA KeyTruthful ==
  ASSUME NEW V \in Saying, NEW name \in Known, NEW us \in Seq(Tokens), NEW vs \in Seq(Tokens),
         V[name] = us, Truthful(V, us \o vs)
  PROVE  Truthful(V, <<Key(name)>> \o (us \o vs)) /\ Named(<<Key(name)>> \o (us \o vs), name)
<1> DEFINE k == <<Key(name)>>
           ws == us \o vs
           u == k \o ws
           l == Len(us)
<1>1. Key(name) \in Tokens /\ Key(name).lexeme.name = name
  BY TokensOf, LexesAre DEF Names
<1>2. k \in Seq(Tokens) /\ Len(k) = 1 /\ k[1] = Key(name)
  <2> DEFINE t == Key(name)
  <2> HIDE DEF t
  <2> QED
    BY <1>1 DEF t
<1> HIDE DEF k
<1>3. ws \in Seq(Tokens) /\ Len(ws) = l + Len(vs) /\ l \in Nat /\ Len(vs) \in Nat /\ \A i \in 1..l : ws[i] = us[i]
  BY TokensBoth
<1>4. Truthful(V, ws)
  OBVIOUS
<1> HIDE DEF ws, l
<1>5. u \in Seq(Tokens) /\ Len(u) = 1 + Len(ws) /\ u[1] = Key(name) /\ \A i \in 1..Len(ws) : u[1 + i] = ws[i]
  <2>1. /\ k \o ws \in Seq(Tokens) /\ Len(k \o ws) = Len(k) + Len(ws)
        /\ \A i \in 1..Len(k) : (k \o ws)[i] = k[i]
        /\ \A i \in 1..Len(ws) : (k \o ws)[Len(k) + i] = ws[i]
    BY <1>2, <1>3, TokensBoth
  <2> QED
    BY <1>2, <2>1
<1>6. ASSUME NEW i \in 1..Len(ws) PROVE Honest(V, u, 1 + i)
  <2> SUFFICES ASSUME IsNamed(u[1 + i])
               PROVE  u[1 + i].lexeme.name \in Known /\ Follows(V[u[1 + i].lexeme.name], u, 1 + i)
    BY DEF Honest
  <2>1. u[1 + i] = ws[i]
    BY <1>5
  <2> DEFINE x == u[1 + i].lexeme.name
  <2>2. x \in Known /\ Follows(V[x], ws, i)
    BY <1>4, <2>1 DEF Truthful, Honest
  <2>3. V[x] \in Seq(Tokens)
    BY <2>2 DEF Saying
  <2>4. Follows(V[x], u, Len(k) + i)
    BY <1>2, <1>3, <2>2, <2>3, FollowsBoth
  <2> HIDE DEF u
  <2> QED
    BY <1>2, <2>2, <2>4
<1> HIDE DEF u
<1>7. Honest(V, u, 1)
  <2>1. 1 + l <= Len(u)
    BY <1>3, <1>5
  <2>2. ASSUME NEW j \in 1..l PROVE u[1 + j] = us[j]
    <3>1. j \in 1..Len(ws)
      BY <1>3
    <3> QED
      BY <1>3, <1>5, <3>1
  <2>3. Follows(us, u, 1)
    BY <2>1, <2>2 DEF Follows, l
  <2> QED
    BY <1>1, <1>5, <2>3 DEF Honest
<1>8. ASSUME NEW j \in 1..Len(u) PROVE Honest(V, u, j)
  <2>0. Len(ws) \in Nat
    BY <1>3
  <2>1. CASE j = 1
    BY <1>7, <2>1
  <2>2. CASE j # 1
    <3> DEFINE i == j - 1
    <3>1. i \in 1..Len(ws) /\ j = 1 + i
      BY <1>5, <2>0, <2>2
    <3> HIDE DEF i
    <3> QED
      BY <1>6, <3>1
  <2> QED
    BY <2>1, <2>2
<1>9. 1 \in 1..Len(u)
  BY <1>3, <1>5
<1>10. Romless(u)
  <2>1. name \notin Roms
    BY NamesApart DEF Known, Roms, Others, Fours, Twos
  <2>2. Romless(k)
    BY <1>1, <1>2, <2>1 DEF Romless
  <2> QED
    BY <1>2, <1>3, <1>4, <2>2, RomlessBoth DEF Truthful, u
<1> QED
  BY <1>5, <1>8, <1>9, <1>10 DEF Truthful, Named, u, k, ws

\* Tokens that are no keys.
LEMMA PlainIsTruthful ==
  ASSUME NEW V, NEW ts, Plain(ts)
  PROVE  Truthful(V, ts)
BY DEF Plain, Truthful, Honest

(***************************************************************************)
(* A text that says what V does: c children, n tokens, the names K.        *)
(***************************************************************************)
Tells(V, seg, c, n, K) ==
  \E ts : Yields(seg, ts, c) /\ Len(ts) = n /\ Truthful(V, ts) /\ \A name \in K : Named(ts, name)

\* Two, and a comma.
LEMMA CommaTells ==
  ASSUME NEW V \in Saying, NEW a, NEW ca, NEW m, NEW K, Tells(V, a, ca, m, K),
         NEW b, NEW cb, NEW n, NEW L, Tells(V, b, cb, n, L)
  PROVE  Tells(V, (a \o <<Mark("comma")>>) \o b, ca + cb, m + n, K \cup L)
<1>1. PICK ts : Yields(a, ts, ca) /\ Len(ts) = m /\ Truthful(V, ts) /\ \A name \in K : Named(ts, name)
  BY DEF Tells
<1>2. PICK us : Yields(b, us, cb) /\ Len(us) = n /\ Truthful(V, us) /\ \A name \in L : Named(us, name)
  BY DEF Tells
<1>3. ts \in Seq(Tokens) /\ us \in Seq(Tokens)
  BY <1>1, <1>2 DEF Yields
<1>4. Yields((a \o <<Mark("comma")>>) \o b, ts \o us, ca + cb)
  BY <1>1, <1>2, CommaYields
<1>5. Len(ts \o us) = m + n
  BY <1>1, <1>2, <1>3, TokensBoth
<1>6. Truthful(V, ts \o us)
  BY <1>1, <1>2, <1>3, TruthfulBoth
<1>7. \A name \in K \cup L : Named(ts \o us, name)
  BY <1>1, <1>2, <1>3, NamedBoth
<1> QED
  BY <1>4, <1>5, <1>6, <1>7 DEF Tells

\* A member whose value is a string or a number.
LEMMA MemberTells ==
  ASSUME NEW V \in Saying, NEW name \in Known, NEW x \in Lexes, x.kind \in {"string", "number"},
         x.name \notin Roms, V[name] = <<Token(x)>>
  PROVE  Tells(V, Member(name, <<x>>), 1, 2, {name})
<1> DEFINE t == Token(x)
           us == <<t>>
           k == <<Key(name)>>
<1>1. t \in Tokens /\ t.size = 0 /\ t.lexeme.name \notin Roms /\ Key(name) \in Tokens
  BY TokensOf DEF Names
<1>2. us \in Seq(Tokens) /\ Len(us) = 1 /\ us[1] = t
  <2> HIDE DEF t
  <2> QED
    BY <1>1
<1>3. k \in Seq(Tokens) /\ Len(k) = 1
  <2> DEFINE y == Key(name)
  <2> HIDE DEF y
  <2> QED
    BY <1>1 DEF y
<1>4. name \in Names
  BY DEF Names
<1>5. Yields(Member(name, <<x>>), k \o us, 1)
  BY <1>4, MemberYields
<1> HIDE DEF t
<1>6. Plain(us)
  BY <1>1, <1>2 DEF Plain, Romless, IsNamed
<1> HIDE DEF us
<1>7. us \o <<>> = us /\ <<>> \in Seq(Tokens)
  BY <1>2, ConcatEmptySeq
<1>8. Truthful(V, us \o <<>>)
  BY <1>6, <1>7, PlainIsTruthful
<1>9. Truthful(V, k \o us) /\ Named(k \o us, name)
  <2>1. V[name] = us
    BY DEF us, t
  <2>2. Truthful(V, <<Key(name)>> \o (us \o <<>>)) /\ Named(<<Key(name)>> \o (us \o <<>>), name)
    BY <1>2, <1>7, <1>8, <2>1, KeyTruthful
  <2> QED
    BY <1>7, <2>2
<1> HIDE DEF k
<1>10. Len(k \o us) = 2
  BY <1>2, <1>3, TokensBoth, 1 + 1 = 2
<1> QED
  BY <1>5, <1>9, <1>10 DEF Tells

\* Of a nested value: its tokens, in the order of a key and what V says of it.
LEMMA NestIs ==
  ASSUME NEW name \in Known, NEW open \in Openers, NEW close \in {"object_end", "array_end"},
         Opener[close] = open, NEW seg, NEW ts, NEW c, Yields(seg, ts, c)
  PROVE  LET q == <<Sized(Mark(open), c)>>
         IN /\ Yields(Member(name, (<<Mark(open)>> \o seg) \o <<Mark(close)>>), <<Key(name)>> \o (q \o ts), 1)
            /\ q \in Seq(Tokens) /\ Len(q) = 1 /\ Plain(q)
            /\ Len(<<Key(name)>> \o (q \o ts)) = 2 + Len(ts)
<1> DEFINE t == Sized(Mark(open), c)
           q == <<t>>
           y == Key(name)
           k == <<y>>
<1>1. ts \in Seq(Tokens) /\ c \in Nat
  BY DEF Yields
<1>2. Yields(Member(name, (<<Mark(open)>> \o seg) \o <<Mark(close)>>), (k \o q) \o ts, 1) /\ t \in Tokens
  <2>1. name \in Names
    BY DEF Names
  <2> QED
    BY <2>1, NestYields
<1>3. t.lexeme.kind = open /\ open # "string" /\ t.lexeme.name \notin Roms
  BY DEF Sized, Mark, Openers, Roms
<1>4. y \in Tokens
  BY TokensOf DEF Names
<1> HIDE DEF t, y
<1>5. q \in Seq(Tokens) /\ Len(q) = 1 /\ q[1] = t
  BY <1>2
<1>6. k \in Seq(Tokens) /\ Len(k) = 1
  BY <1>4
<1> HIDE DEF q, k
<1>7. Plain(q)
  BY <1>3, <1>5 DEF Plain, Romless, IsNamed
<1>8. (k \o q) \o ts = k \o (q \o ts)
  BY <1>1, <1>5, <1>6, TokensCat
<1>9. q \o ts \in Seq(Tokens) /\ Len(q \o ts) = 1 + Len(ts) /\ Len(ts) \in Nat
  <2>1. q \o ts \in Seq(Tokens) /\ Len(q \o ts) = Len(q) + Len(ts) /\ Len(ts) \in Nat
    BY <1>1, <1>5, TokensBoth
  <2> QED
    BY <1>5, <2>1
<1>10. Len(k \o (q \o ts)) = 2 + Len(ts)
  <2> DEFINE w == q \o ts
  <2> HIDE DEF w
  <2>1. Len(k \o w) = Len(k) + Len(w)
    BY <1>6, <1>9, TokensBoth DEF w
  <2>2. Len(w) = 1 + Len(ts)
    BY <1>9 DEF w
  <2> QED
    BY <1>6, <1>9, <2>1, <2>2 DEF w
<1> QED
  BY <1>2, <1>5, <1>7, <1>8, <1>10 DEF q, k, t, y

\* An object.
LEMMA ObjectTells ==
  ASSUME NEW V \in Saying, NEW name \in Known, V[name] = <<>>, NEW parts, NEW c, NEW n, NEW K,
         Tells(V, Joined(parts), c, n, K)
  PROVE  Tells(V, Object(name, parts), 1, n + 2, K \cup {name})
<1> DEFINE seg == Joined(parts)
           q == <<Sized(Mark("object"), c)>>
           k == <<Key(name)>>
<1>1. PICK ts : Yields(seg, ts, c) /\ Len(ts) = n /\ Truthful(V, ts) /\ \A x \in K : Named(ts, x)
  BY DEF Tells
<1>2. ts \in Seq(Tokens) /\ Len(ts) \in Nat
  BY <1>1, LenProperties DEF Yields
<1>3. /\ Yields(Object(name, parts), k \o (q \o ts), 1)
      /\ q \in Seq(Tokens) /\ Plain(q) /\ Len(k \o (q \o ts)) = 2 + Len(ts)
  <2>1. Opener["object_end"] = "object" /\ "object" \in Openers
    BY DEF Opener, Openers
  <2>2. Object(name, parts) = Member(name, (<<Mark("object")>> \o seg) \o <<Mark("object_end")>>)
    BY DEF Object, Bracketed
  <2> HIDE DEF seg
  <2> QED
    BY <1>1, <2>1, <2>2, NestIs
<1> HIDE DEF q, seg
<1>4. Truthful(V, q \o ts)
  BY <1>1, <1>2, <1>3, TruthfulBoth, PlainIsTruthful
<1>5. q \o ts \in Seq(Tokens) /\ <<>> \o (q \o ts) = q \o ts /\ <<>> \in Seq(Tokens)
  BY <1>2, <1>3, ConcatEmptySeq, TokensBoth
<1>6. Truthful(V, k \o (q \o ts)) /\ Named(k \o (q \o ts), name)
  <2> DEFINE us == q \o ts
             e == <<>>
  <2>1. Truthful(V, e \o us) /\ us \in Seq(Tokens) /\ e \in Seq(Tokens) /\ V[name] = e /\ e \o us = us
    BY <1>4, <1>5
  <2> HIDE DEF us, e
  <2>2. Truthful(V, k \o (e \o us)) /\ Named(k \o (e \o us), name)
    BY <2>1, KeyTruthful
  <2> QED
    BY <2>1, <2>2 DEF us
<1>7. k \in Seq(Tokens)
  <2> DEFINE y == Key(name)
  <2>1. y \in Tokens
    BY TokensOf DEF Names
  <2> HIDE DEF y
  <2> QED
    BY <2>1 DEF y
<1> HIDE DEF k
<1>8. \A x \in K \cup {name} : Named(k \o (q \o ts), x)
  <2>1. ASSUME NEW x \in K PROVE Named(k \o (q \o ts), x)
    <3>1. Named(q \o ts, x)
      BY <1>1, <1>2, <1>3, NamedBoth
    <3> DEFINE w == q \o ts
    <3>2. w \in Seq(Tokens) /\ Named(w, x)
      BY <1>5, <3>1
    <3> HIDE DEF w
    <3>3. Named(k \o w, x)
      BY <1>7, <3>2, NamedBoth
    <3> QED
      BY <3>3 DEF w
  <2> QED
    BY <1>6, <2>1
<1>9. Len(k \o (q \o ts)) = n + 2
  BY <1>1, <1>2, <1>3
<1> QED
  BY <1>3, <1>6, <1>8, <1>9 DEF Tells

\* An array of numbers.
LEMMA ArrayTells ==
  ASSUME NEW V \in Saying, NEW name \in Known, NEW parts, NEW ts, NEW n \in Nat,
         Yields(Joined(parts), ts, n), Len(ts) = n, Plain(ts),
         V[name] = <<Sized(Mark("array"), n)>> \o ts
  PROVE  Tells(V, Member(name, Bracketed("array", parts, "array_end")), 1, n + 2, {name})
<1> DEFINE seg == Joined(parts)
           q == <<Sized(Mark("array"), n)>>
           k == <<Key(name)>>
           text == Member(name, Bracketed("array", parts, "array_end"))
           us == q \o ts
<1>2. ts \in Seq(Tokens) /\ Len(ts) \in Nat
  BY LenProperties DEF Yields
<1>3. /\ Yields(text, k \o us, 1)
      /\ q \in Seq(Tokens) /\ Plain(q) /\ Len(k \o us) = 2 + Len(ts)
  <2>1. Opener["array_end"] = "array" /\ "array" \in Openers
    BY DEF Opener, Openers
  <2>2. text = Member(name, (<<Mark("array")>> \o seg) \o <<Mark("array_end")>>)
    BY DEF Bracketed
  <2> HIDE DEF seg, text
  <2> QED
    BY <2>1, <2>2, NestIs DEF seg
<1> HIDE DEF q, seg, text
<1>4. Truthful(V, us)
  BY <1>2, <1>3, TruthfulBoth, PlainIsTruthful
<1>5. us \in Seq(Tokens) /\ us \o <<>> = us /\ <<>> \in Seq(Tokens) /\ V[name] = us
  BY <1>2, <1>3, ConcatEmptySeq, TokensBoth DEF q
<1> HIDE DEF us
<1>6. Truthful(V, k \o us) /\ Named(k \o us, name)
  <2> DEFINE e == <<>>
  <2>1. Truthful(V, us \o e) /\ us \in Seq(Tokens) /\ e \in Seq(Tokens) /\ V[name] = us /\ us \o e = us
    BY <1>4, <1>5
  <2> HIDE DEF e
  <2>2. Truthful(V, k \o (us \o e)) /\ Named(k \o (us \o e), name)
    BY <2>1, KeyTruthful
  <2> QED
    BY <2>1, <2>2
<1> HIDE DEF k
<1>9. Len(k \o us) = n + 2
  BY <1>2, <1>3
<1> QED
  BY <1>3, <1>6, <1>9 DEF Tells, text

\* The first n parts, and one more.
First(f, n) == [i \in 1..n |-> f[i]]

\* One more part is appended to the first n.
LEMMA FirstMore ==
  ASSUME NEW S, NEW f, NEW n \in Nat, \A i \in 1..(n + 1) : f[i] \in S
  PROVE  /\ First(f, n) \in Seq(S) /\ Len(First(f, n)) = n
         /\ First(f, n + 1) = Append(First(f, n), f[n + 1]) /\ f[n + 1] \in S
<1> DEFINE a == First(f, n)
           b == First(f, n + 1)
           x == f[n + 1]
<1>1. a \in [1..n -> S] /\ b \in [1..(n + 1) -> S] /\ x \in S /\ n + 1 \in Nat
  BY DEF First
<1>2. (\A i \in 1..n : a[i] = f[i]) /\ (\A i \in 1..(n + 1) : b[i] = f[i])
  BY DEF First
<1> HIDE DEF a, b
<1>3. a \in Seq(S) /\ Len(a) = n /\ b \in Seq(S) /\ Len(b) = n + 1
  BY <1>1, FunctionIsSeq
<1>4. /\ Append(a, x) \in Seq(S) /\ Len(Append(a, x)) = n + 1 /\ Append(a, x)[n + 1] = x
      /\ \A i \in 1..n : Append(a, x)[i] = a[i]
  BY <1>1, <1>3, AppendProperties
<1>5. \A i \in 1..(n + 1) : b[i] = Append(a, x)[i]
  BY <1>2, <1>4
<1>6. b = Append(a, x)
  <2>1. Len(b) = Len(Append(a, x)) /\ \A i \in 1..Len(b) : b[i] = Append(a, x)[i]
    BY <1>3, <1>4, <1>5
  <2> QED
    BY <1>3, <1>4, <2>1, SeqEqual
<1> QED
  BY <1>1, <1>3, <1>6 DEF a, b

\* The first parts, all of them taken, are the parts.
LEMMA FirstAll ==
  ASSUME NEW S, NEW f \in Seq(S)
  PROVE  First(f, Len(f)) = f
<1>1. f \in [1..Len(f) -> S] /\ Len(f) \in Nat
  BY LenProperties
<1> DEFINE n == Len(f)
<1> HIDE DEF n
<1>2. f = [i \in 1..n |-> f[i]]
  BY <1>1 DEF n
<1> QED
  BY <1>2 DEF First, n

\* The first part alone, and none.
LEMMA FirstOne ==
  ASSUME NEW f
  PROVE  First(f, 1) = <<f[1]>> /\ First(f, 0) = <<>>
<1>1. First(f, 1) = <<f[1]>>
  BY DEF First
<1>2. First(f, 0) = <<>>
  BY DEF First
<1> QED
  BY <1>1, <1>2

\* The elements of an array.
LEMMA ElementsYield ==
  ASSUME NEW f, NEW N \in Nat, \A i \in 1..N : f[i] \in Int, N > 0
  PROVE  /\ Yields(Joined([i \in 1..N |-> <<Num(f[i])>>]), [i \in 1..N |-> Token(Num(f[i]))], N)
         /\ Len([i \in 1..N |-> Token(Num(f[i]))]) = N /\ Plain([i \in 1..N |-> Token(Num(f[i]))])
<1> DEFINE g == [i \in 1..N |-> <<Num(f[i])>>]
           t == [i \in 1..N |-> Token(Num(f[i]))]
           H == {n \in Nat : n < N => Yields(Joined(First(g, n + 1)), First(t, n + 1), n + 1)}
<1>1. ASSUME NEW i \in 1..N
      PROVE  /\ g[i] = <<Num(f[i])>> /\ g[i] \in Seq(Lexes) /\ t[i] = Token(Num(f[i])) /\ t[i] \in Tokens
             /\ Yields(g[i], <<t[i]>>, 1) /\ ~IsNamed(t[i]) /\ t[i].lexeme.name \notin Roms
  <2>1. Num(f[i]) \in Lexes
    BY LexesAre
  <2>2. g[i] = <<Num(f[i])>> /\ t[i] = Token(Num(f[i]))
    OBVIOUS
  <2>3. Yields(<<Num(f[i])>>, <<Token(Num(f[i]))>>, 1)
    BY NumberYields
  <2>4. Token(Num(f[i])) \in Tokens /\ Token(Num(f[i])).size = 0
    BY <2>1, TokensOf
  <2>5. <<Num(f[i])>> \in Seq(Lexes)
    BY <2>3 DEF Yields
  <2>6. Token(Num(f[i])).lexeme.name \notin Roms
    BY DEF Token, Num, Mark, Roms
  <2> HIDE DEF g, t
  <2> QED
    BY <2>2, <2>3, <2>4, <2>5, <2>6 DEF IsNamed
<1> HIDE DEF g, t
<1>2. 0 \in H
  <2>1. First(g, 1) = <<g[1]>> /\ First(t, 1) = <<t[1]>>
    BY FirstOne
  <2>2. 1 \in 1..N
    OBVIOUS
  <2>3. Joined(<<g[1]>>) = g[1]
    BY <1>1, <2>2, JoinedOne
  <2>4. Yields(Joined(First(g, 1)), First(t, 1), 1)
    BY <1>1, <2>1, <2>2, <2>3
  <2> QED
    BY <2>4, 0 + 1 = 1
<1>3. ASSUME NEW n \in 0..(N - 1), n \in H PROVE n + 1 \in H
  <2> SUFFICES ASSUME n + 1 < N
               PROVE  Yields(Joined(First(g, (n + 1) + 1)), First(t, (n + 1) + 1), (n + 1) + 1)
    OBVIOUS
  <2> DEFINE m == n + 1
             x == g[m + 1]
             y == t[m + 1]
  <2>1. m \in Nat /\ m \in 1..N /\ m + 1 \in 1..N /\ m # 0
    OBVIOUS
  <2>2. Yields(Joined(First(g, m)), First(t, m), m)
    BY <1>3
  <2> HIDE DEF m
  <2>3. (\A i \in 1..(m + 1) : g[i] \in Seq(Lexes)) /\ (\A i \in 1..(m + 1) : t[i] \in Tokens)
    <3>1. \A i \in 1..(m + 1) : i \in 1..N
      BY <2>1
    <3> QED
      BY <1>1, <3>1
  <2>4. /\ First(g, m) \in Seq(Seq(Lexes)) /\ Len(First(g, m)) = m
        /\ First(g, m + 1) = Append(First(g, m), x) /\ x \in Seq(Lexes)
    BY <2>1, <2>3, FirstMore
  <2>5. /\ First(t, m) \in Seq(Tokens) /\ First(t, m + 1) = Append(First(t, m), y) /\ y \in Tokens
    BY <2>1, <2>3, FirstMore, ZenonT(40)
  <2>6. Yields(x, <<y>>, 1)
    BY <1>1, <2>1
  <2> HIDE DEF x, y
  <2> DEFINE a == First(g, m)
             b == First(t, m)
  <2> HIDE DEF a, b
  <2>7. a # <<>> /\ Mark("comma") \in Lexes
    <3>1. a # <<>>
      BY <2>1, <2>4 DEF a
    <3> QED
      BY <3>1, LexesAre DEF Kinds
  <2>8. Joined(Append(a, x)) = (Joined(a) \o <<Mark("comma")>>) \o x
    BY <2>4, <2>7, JoinedMore DEF a
  <2>9. Yields((Joined(a) \o <<Mark("comma")>>) \o x, b \o <<y>>, m + 1)
    BY <2>2, <2>6, CommaYields DEF a, b
  <2>10. Append(b, y) = b \o <<y>>
    BY <2>5, AppendIsConcat DEF b
  <2> QED
    BY <2>4, <2>5, <2>8, <2>9, <2>10 DEF a, b, m
<1> HIDE DEF H
<1>4. N - 1 \in H
  <2>1. N - 1 \in Nat
    OBVIOUS
  <2> DEFINE M == N - 1
  <2>2. M \in Nat /\ \A n \in 0..(M - 1) : n \in H => n + 1 \in H
    BY <1>3, <2>1
  <2> HIDE DEF M
  <2>3. M \in H
    BY <1>2, <2>2, Inductive
  <2> QED
    BY <2>3 DEF M
<1>5. (N - 1) + 1 = N /\ N - 1 < N /\ N - 1 \in Nat
  OBVIOUS
<1>6. Yields(Joined(First(g, N)), First(t, N), N)
  BY <1>4, <1>5 DEF H
<1>7. First(g, N) = g /\ First(t, N) = t
  BY <1>1 DEF First, g, t
<1>8. t \in Seq(Tokens) /\ Len(t) = N
  <2>1. t \in [1..N -> Tokens]
    BY <1>1 DEF t
  <2> QED
    BY <2>1, FunctionIsSeq
<1>9. Plain(t)
  BY <1>1, <1>8 DEF Plain, Romless
<1> QED
  BY <1>6, <1>7, <1>8, <1>9 DEF g, t

\* Lexemes can be joined in either order.
LEMMA LexesCat ==
  ASSUME NEW s \in Seq(Lexes), NEW t \in Seq(Lexes), NEW u \in Seq(Lexes)
  PROVE  (s \o t) \o u = s \o (t \o u)
<1>1. Cat(Cat(s, t), u) = Cat(s, Cat(t, u))
  BY CatsCat
<1> QED
  BY <1>1 DEF Cat

\* The same of the parts of a list.
LEMMA PartsCat ==
  ASSUME NEW s \in Seq(Seq(Lexes)), NEW t \in Seq(Seq(Lexes)), NEW u \in Seq(Seq(Lexes))
  PROVE  (s \o t) \o u = s \o (t \o u)
<1>1. Cat(Cat(s, t), u) = Cat(s, Cat(t, u))
  BY CatsCat
<1> QED
  BY <1>1 DEF Cat

\* Two lists, and the comma between them.
LEMMA JoinedBoth ==
  ASSUME NEW a \in Seq(Seq(Lexes)), NEW b \in Seq(Seq(Lexes)), a # <<>>, b # <<>>
  PROVE  /\ Joined(a \o b) = (Joined(a) \o <<Mark("comma")>>) \o Joined(b)
         /\ a \o b \in Seq(Seq(Lexes)) /\ a \o b # <<>>
<1> DEFINE c == <<Mark("comma")>>
           N == Len(b)
           H == {n \in Nat : n < N => Joined(a \o First(b, n + 1)) = (Joined(a) \o c) \o Joined(First(b, n + 1))}
<1>1. Mark("comma") \in Lexes
  BY LexesAre DEF Kinds
<1>2. c \in Seq(Lexes)
  <2> DEFINE x == Mark("comma")
  <2> HIDE DEF x
  <2> QED
    BY <1>1, OneLexeme DEF x
<1>3. N \in Nat /\ N > 0 /\ \A i \in 1..N : b[i] \in Seq(Lexes)
  BY LenProperties, ElementOfSeq, EmptySeq
<1>4. Joined(a) \in Seq(Lexes)
  BY <1>1, <1>2, JoinedMore
<1>5. First(b, N) = b
  BY FirstAll
<1> HIDE DEF N, c
<1>6. 0 \in H
  <2>1. First(b, 1) = <<b[1]>> /\ b[1] \in Seq(Lexes)
    BY <1>3, FirstOne
  <2> DEFINE x == b[1]
  <2> HIDE DEF x
  <2>2. Joined(<<x>>) = x
    BY <2>1, JoinedOne DEF x
  <2>3. Joined(Append(a, x)) = (Joined(a) \o c) \o x
    BY <1>1, <2>1, JoinedMore DEF c, x
  <2>4. Append(a, x) = a \o <<x>>
    BY <2>1, AppendIsConcat DEF x
  <2>5. Joined(a \o First(b, 1)) = (Joined(a) \o c) \o Joined(First(b, 1))
    BY <2>1, <2>2, <2>3, <2>4 DEF x
  <2> QED
    BY <2>5, 0 + 1 = 1
<1>7. ASSUME NEW n \in 0..(N - 1), n \in H PROVE n + 1 \in H
  <2> SUFFICES ASSUME n + 1 < N PROVE Joined(a \o First(b, (n + 1) + 1)) = (Joined(a) \o c) \o Joined(First(b, (n + 1) + 1))
    BY SMTT(40)
  <2> DEFINE m == n + 1
             x == b[m + 1]
             p == First(b, m)
  <2>1. m \in Nat /\ m # 0 /\ m + 1 <= N
    BY <1>3
  <2>2. Joined(a \o First(b, m)) = (Joined(a) \o c) \o Joined(First(b, m))
    BY <1>3, <1>7, SMTT(40)
  <2> HIDE DEF m
  <2>3. \A i \in 1..(m + 1) : b[i] \in Seq(Lexes)
    BY <1>3, <2>1
  <2>4. p \in Seq(Seq(Lexes)) /\ Len(p) = m /\ First(b, m + 1) = Append(p, x) /\ x \in Seq(Lexes)
    BY <2>1, <2>3, FirstMore, SMTT(40)
  <2>5. Joined(a \o p) = (Joined(a) \o c) \o Joined(p)
    BY <2>2
  <2> HIDE DEF p, x
  <2>6. p # <<>>
    BY <2>1, <2>4
  <2>7. a \o p \in Seq(Seq(Lexes)) /\ a \o p # <<>>
    BY <2>4, ConcatEqualIffEmpty, ConcatProperties
  <2>8. Joined(Append(a \o p, x)) = (Joined(a \o p) \o c) \o x
    <3> DEFINE q == a \o p
    <3> HIDE DEF q
    <3>1. q \in Seq(Seq(Lexes)) /\ q # <<>>
      BY <2>7 DEF q
    <3>2. Joined(Append(q, x)) = (Joined(q) \o c) \o x
      BY <1>1, <2>4, <3>1, JoinedMore DEF c
    <3> QED
      BY <3>2 DEF q
  <2>9. Joined(Append(p, x)) = (Joined(p) \o c) \o x /\ Joined(p) \in Seq(Lexes)
    BY <1>1, <2>4, <2>6, JoinedMore DEF c
  <2>10. a \o Append(p, x) = Append(a \o p, x)
    <3>1. Append(p, x) = p \o <<x>> /\ Append(a \o p, x) = (a \o p) \o <<x>>
      BY <2>4, <2>7, AppendIsConcat
    <3>2. <<x>> \in Seq(Seq(Lexes))
      BY <2>4
    <3>3. (a \o p) \o <<x>> = a \o (p \o <<x>>)
      BY <2>4, <3>2, PartsCat, ZenonT(40)
    <3> QED
      BY <3>1, <3>3
  <2>11. (((Joined(a) \o c) \o Joined(p)) \o c) \o x = (Joined(a) \o c) \o ((Joined(p) \o c) \o x)
    <3> DEFINE s == Joined(a) \o c
               t == Joined(p)
               u == t \o c
    <3>1. s \in Seq(Lexes) /\ t \in Seq(Lexes) /\ u \in Seq(Lexes)
      BY <1>2, <1>4, <2>9, ConcatProperties
    <3> HIDE DEF s, t
    <3>2. (s \o t) \o c = s \o u
      BY <1>2, <3>1, LexesCat, ZenonT(40)
    <3> HIDE DEF u
    <3>3. (s \o u) \o x = s \o (u \o x)
      BY <2>4, <3>1, LexesCat, ZenonT(40)
    <3> QED
      BY <3>2, <3>3 DEF s, t, u
  <2> QED
    BY <2>4, <2>5, <2>8, <2>9, <2>10, <2>11 DEF m
<1> HIDE DEF H
<1>8. N - 1 \in H
  <2> DEFINE M == N - 1
  <2>1. M \in Nat /\ \A n \in 0..(M - 1) : n \in H => n + 1 \in H
    BY <1>3, <1>7
  <2> HIDE DEF M
  <2>2. 0..M \subseteq H
    BY <1>6, <2>1, Inductive, Zenon
  <2>3. M \in 0..M
    BY <2>1
  <2> QED
    BY <2>2, <2>3 DEF M
<1>9. Joined(a \o First(b, N)) = (Joined(a) \o c) \o Joined(First(b, N))
  <2>1. (N - 1) + 1 = N /\ N - 1 < N
    BY <1>3
  <2> QED
    BY <1>8, <2>1 DEF H
<1>10. a \o b \in Seq(Seq(Lexes)) /\ a \o b # <<>>
  BY ConcatEqualIffEmpty, ConcatProperties
<1> QED
  BY <1>5, <1>9, <1>10 DEF c

(***************************************************************************)
(* A list of members.                                                      *)
(***************************************************************************)
Lists(V, parts, c, n, K) == parts \in Seq(Seq(Lexes)) /\ parts # <<>> /\ Tells(V, Joined(parts), c, n, K)

\* A member that tells its value is a list of one.
LEMMA ListOne ==
  ASSUME NEW V, NEW p, NEW c, NEW n, NEW K, Tells(V, p, c, n, K)
  PROVE  Lists(V, <<p>>, c, n, K)
<1>1. p \in Seq(Lexes)
  BY DEF Tells, Yields
<1>2. Joined(<<p>>) = p
  BY <1>1, JoinedOne
<1> QED
  BY <1>1, <1>2 DEF Lists

\* Two lists are one list, which tells what both tell.
LEMMA ListBoth ==
  ASSUME NEW V \in Saying, NEW a, NEW c, NEW m, NEW K, Lists(V, a, c, m, K),
         NEW b, NEW d, NEW n, NEW L, Lists(V, b, d, n, L)
  PROVE  Lists(V, a \o b, c + d, m + n, K \cup L)
<1>1. /\ Joined(a \o b) = (Joined(a) \o <<Mark("comma")>>) \o Joined(b)
      /\ a \o b \in Seq(Seq(Lexes)) /\ a \o b # <<>>
  BY JoinedBoth DEF Lists
<1>2. Tells(V, Joined(a), c, m, K) /\ Tells(V, Joined(b), d, n, L)
  BY DEF Lists
<1>3. Tells(V, (Joined(a) \o <<Mark("comma")>>) \o Joined(b), c + d, m + n, K \cup L)
  BY <1>2, CommaTells
<1> QED
  BY <1>1, <1>3 DEF Lists

\* A list of members of two tokens each.
EachTells(V, f, names, N) == \A i \in 1..N : Tells(V, f[i], 1, 2, {names[i]})

NamesOf(names, N) == {names[i] : i \in 1..N}

\* Members that tell their values one by one are a list that tells them all.
LEMMA ListAll ==
  ASSUME NEW V \in Saying, NEW N \in Nat, N > 0, NEW f, NEW names, EachTells(V, f, names, N)
  PROVE  Lists(V, First(f, N), N, 2 * N, NamesOf(names, N))
<1> DEFINE H == {n \in Nat : n < N => Lists(V, First(f, n + 1), n + 1, 2 * (n + 1), NamesOf(names, n + 1))}
<1>1. \A i \in 1..N : Lists(V, <<f[i]>>, 1, 2, {names[i]}) /\ f[i] \in Seq(Lexes)
  BY ListOne DEF EachTells, Tells, Yields
<1>2. 0 \in H
  <2>1. First(f, 1) = <<f[1]>> /\ 1 \in 1..N
    BY FirstOne
  <2>2. NamesOf(names, 1) = {names[1]}
    BY DEF NamesOf
  <2>3. Lists(V, First(f, 1), 1, 2, NamesOf(names, 1))
    BY <1>1, <2>1, <2>2
  <2> QED
    BY <2>3, 0 + 1 = 1, 2 * 1 = 2
<1>3. ASSUME NEW n \in 0..(N - 1), n \in H PROVE n + 1 \in H
  <2> DEFINE m == n + 1
             K == NamesOf(names, m)
             a == First(f, m)
             x == f[m + 1]
  <2> SUFFICES ASSUME m < N
               PROVE  Lists(V, First(f, m + 1), m + 1, 2 * (m + 1), NamesOf(names, m + 1))
    OBVIOUS
  <2>1. m \in Nat /\ m + 1 \in 1..N
    OBVIOUS
  <2>2. Lists(V, a, m, 2 * m, K)
    BY <1>3
  <2>3. NamesOf(names, m + 1) = K \cup {names[m + 1]}
    <3> HIDE DEF m
    <3>1. \A i \in 1..(m + 1) : i \in 1..m \/ i = m + 1
      BY <2>1
    <3>2. \A i \in 1..m : i \in 1..(m + 1)
      BY <2>1
    <3>3. m + 1 \in 1..(m + 1)
      BY <2>1
    <3> QED
      BY <3>1, <3>2, <3>3 DEF NamesOf
  <2> HIDE DEF m
  <2>4. a \in Seq(Seq(Lexes)) /\ First(f, m + 1) = Append(a, x) /\ x \in Seq(Lexes)
    <3>1. \A i \in 1..(m + 1) : f[i] \in Seq(Lexes)
      <4>1. \A i \in 1..(m + 1) : i \in 1..N
        BY <2>1
      <4> QED
        BY <1>1, <4>1
    <3> QED
      BY <2>1, <3>1, FirstMore, ZenonT(40)
  <2>5. Lists(V, <<x>>, 1, 2, {names[m + 1]})
    BY <1>1, <2>1
  <2> HIDE DEF a, x, K
  <2>6. Append(a, x) = a \o <<x>>
    BY <2>4, AppendIsConcat
  <2>7. Lists(V, a \o <<x>>, m + 1, 2 * m + 2, K \cup {names[m + 1]})
    <3> DEFINE b == <<x>>
               L == {names[m + 1]}
    <3>1. Lists(V, b, 1, 2, L)
      BY <2>5
    <3> HIDE DEF b, L
    <3>2. Lists(V, a \o b, m + 1, 2 * m + 2, K \cup L)
      BY <2>2, <3>1, ListBoth
    <3> QED
      BY <3>2 DEF b, L
  <2>8. 2 * m + 2 = 2 * (m + 1)
    BY <2>1
  <2> QED
    BY <2>3, <2>4, <2>6, <2>7, <2>8
<1> HIDE DEF H
<1>4. N - 1 \in H
  <2> DEFINE M == N - 1
  <2>1. M \in Nat /\ \A n \in 0..(M - 1) : n \in H => n + 1 \in H
    BY <1>3
  <2> HIDE DEF M
  <2>2. M \in H
    BY <1>2, <2>1, Inductive
  <2> QED
    BY <2>2 DEF M
<1>5. (N - 1) + 1 = N /\ N - 1 < N /\ N - 1 \in Nat
  OBVIOUS
<1> QED
  BY <1>4, <1>5 DEF H

(***************************************************************************)
(* A machine whose values fit their variables, and its file.               *)
(***************************************************************************)
Width(name) == IF name \in Wide \cup {"tone"} THEN 65536 ELSE 256
Fitting(m) ==
  /\ \A name \in Numbers : m[name] \in 0..(Width(name) - 1)
  /\ \A name \in Fours : m[name] \in [0..3 -> 0..(Width(name) - 1)]
  /\ \A name \in Twos  : m[name] \in [0..1 -> 0..(Width(name) - 1)]
  /\ m["ram"] \in [0..(RAM_BYTES - 1) -> 0..255]
  /\ m["vram"] \in [0..(VRAM_BYTES - 1) -> 0..255]
  /\ m["rom"] \in [0..(ROM_BYTES - 1) -> 0..255]

\* The numbers of an array, as tokens.
Elements(a, n)  == [i \in 1..n |-> Token(Num(a[i - 1]))]
Arrayed(a, n)   == <<Sized(Mark("array"), n)>> \o Elements(a, n)
Said(m, beyond, name) ==
  IF name \in Numbers THEN <<Token(Num(m[name]))>>
  ELSE IF name \in Fours THEN Arrayed(m[name], 4)
  ELSE IF name \in Twos  THEN Arrayed(m[name], 2)
  ELSE IF name = "ram"  THEN <<Token(Blob(encode_blob(m["ram"], RAM_BYTES, beyond)))>>
  ELSE IF name = "vram" THEN <<Token(Blob(encode_blob(m["vram"], VRAM_BYTES, beyond)))>>
  ELSE <<>>
Says(m, beyond) == [name \in Known |-> Said(m, beyond, name)]

\* The blobs are text.
Blobs(m, beyond) ==
  /\ encode_blob(m["ram"], RAM_BYTES, beyond) \in Seq(Int)
  /\ encode_blob(m["vram"], VRAM_BYTES, beyond) \in Seq(Int)

\* A sequence of one token.
LEMMA JustOne ==
  ASSUME NEW t \in Tokens
  PROVE  <<t>> \in Seq(Tokens) /\ Len(<<t>>) = 1 /\ <<t>>[1] = t
OBVIOUS

\* The elements of an array in the file, and their tokens.
LEMMA ElementsAre ==
  ASSUME NEW a, NEW n \in Nat, n > 0, \A i \in 0..(n - 1) : a[i] \in Int
  PROVE  /\ Yields(Joined([i \in 1..n |-> <<Num(a[i - 1])>>]), Elements(a, n), n)
         /\ Elements(a, n) \in Seq(Tokens) /\ Len(Elements(a, n)) = n /\ Plain(Elements(a, n))
         /\ \A i \in 1..n : Elements(a, n)[i] = Token(Num(a[i - 1]))
         /\ Arrayed(a, n) \in Seq(Tokens) /\ Len(Arrayed(a, n)) = 1 + n
<1> DEFINE f == [i \in 1..n |-> a[i - 1]]
           g == [i \in 1..n |-> <<Num(f[i])>>]
           t == [i \in 1..n |-> Token(Num(f[i]))]
<1>1. \A i \in 1..n : f[i] \in Int
  <2>1. \A i \in 1..n : i - 1 \in 0..(n - 1)
    OBVIOUS
  <2> QED
    BY <2>1
<1>2. g = [i \in 1..n |-> <<Num(a[i - 1])>>] /\ t = Elements(a, n)
  BY DEF Elements
<1>3. Yields(Joined(g), t, n) /\ Len(t) = n /\ Plain(t)
  <2> HIDE DEF f
  <2> QED
    BY <1>1, ElementsYield
<1>4. \A i \in 1..n : Elements(a, n)[i] = Token(Num(a[i - 1]))
  BY DEF Elements
<1>5. t \in Seq(Tokens)
  BY <1>3 DEF Yields
<1> HIDE DEF g, t
<1>6. Sized(Mark("array"), n) \in Tokens
  BY LexesAre DEF Kinds, Sized, Tokens
<1> DEFINE q == Sized(Mark("array"), n)
<1> HIDE DEF q
<1>7. <<q>> \in Seq(Tokens) /\ Len(<<q>>) = 1
  BY <1>6, JustOne DEF q
<1>8. <<q>> \o t \in Seq(Tokens) /\ Len(<<q>> \o t) = 1 + n
  <2>1. <<q>> \o t \in Seq(Tokens) /\ Len(<<q>> \o t) = Len(<<q>>) + Len(t)
    BY <1>5, <1>7, TokensBoth
  <2> QED
    BY <1>3, <1>7, <2>1
<1> QED
  BY <1>2, <1>3, <1>4, <1>5, <1>8 DEF Arrayed, q

\* What is in the arrays.
LEMMA FittingArrays ==
  ASSUME NEW m, Fitting(m), NEW name, NEW n,
         (name \in Fours /\ n = 4) \/ (name \in Twos /\ n = 2)
  PROVE  n \in Nat /\ n > 0 /\ \A i \in 0..(n - 1) : m[name][i] \in Int
<1>1. CASE name \in Fours /\ n = 4
  <2>1. m[name] \in [0..3 -> 0..(Width(name) - 1)]
    BY <1>1 DEF Fitting
  <2>2. \A i \in 0..3 : m[name][i] \in Int
    BY <2>1
  <2> QED
    BY <1>1, <2>2
<1>2. CASE name \in Twos /\ n = 2
  <2>1. m[name] \in [0..1 -> 0..(Width(name) - 1)]
    BY <1>2 DEF Fitting
  <2>2. \A i \in 0..1 : m[name][i] \in Int
    BY <2>1
  <2> QED
    BY <1>2, <2>2
<1> QED
  BY <1>1, <1>2

\* What a machine says are tokens.
LEMMA SaysAre ==
  ASSUME NEW m, Fitting(m), NEW beyond, Blobs(m, beyond)
  PROVE  Says(m, beyond) \in Saying
<1>1. ASSUME NEW name \in Known PROVE Said(m, beyond, name) \in Seq(Tokens)
  <2>1. CASE name \in Numbers
    <3>1. m[name] \in Int
      BY <2>1 DEF Fitting, Width
    <3>2. Token(Num(m[name])) \in Tokens
      BY <3>1, LexesAre, TokensOf
    <3> QED
      BY <2>1, <3>2, JustOne DEF Said
  <2>2. CASE name \notin Numbers /\ name \in Fours
    <3> DEFINE n == 4
               a == m[name]
    <3>0. n = 4
      OBVIOUS
    <3> HIDE DEF n
    <3>a. (name \in Fours /\ n = 4) \/ (name \in Twos /\ n = 2)
      BY <2>2, <3>0
    <3>1. n \in Nat /\ n > 0 /\ \A i \in 0..(n - 1) : a[i] \in Int
      BY <3>a, FittingArrays
    <3> HIDE DEF a
    <3>2. Arrayed(a, n) \in Seq(Tokens)
      BY <3>1, ElementsAre
    <3> QED
      BY <2>2, <3>2 DEF Said, n, a
  <2>3. CASE name \notin Numbers /\ name \notin Fours /\ name \in Twos
    <3> DEFINE n == 2
               a == m[name]
    <3>0. n = 2
      OBVIOUS
    <3> HIDE DEF n
    <3>a. (name \in Fours /\ n = 4) \/ (name \in Twos /\ n = 2)
      BY <2>3, <3>0
    <3>1. n \in Nat /\ n > 0 /\ \A i \in 0..(n - 1) : a[i] \in Int
      BY <3>a, FittingArrays
    <3> HIDE DEF a
    <3>2. Arrayed(a, n) \in Seq(Tokens)
      BY <3>1, ElementsAre
    <3> QED
      BY <2>3, <3>2 DEF Said, n, a
  <2>4. CASE name \notin Numbers /\ name \notin Fours /\ name \notin Twos
    <3>1. /\ Token(Blob(encode_blob(m["ram"], RAM_BYTES, beyond))) \in Tokens
          /\ Token(Blob(encode_blob(m["vram"], VRAM_BYTES, beyond))) \in Tokens
      BY LexesAre, TokensOf DEF Blobs
    <3>2. <<>> \in Seq(Tokens)
      OBVIOUS
    <3> QED
      BY <2>4, <3>1, <3>2, JustOne DEF Said
  <2> QED
    BY <2>1, <2>2, <2>3, <2>4
<1> QED
  BY <1>1 DEF Says, Saying

\* A number, numbers, an array.
LEMMA IntTells ==
  ASSUME NEW m, Fitting(m), NEW beyond, Blobs(m, beyond), NEW name \in Numbers
  PROVE  Tells(Says(m, beyond), write_int(m, name), 1, 2, {name})
<1>1. m[name] \in Int /\ name \in Known
  BY DEF Fitting, Width, Known
<1>2. Num(m[name]) \in Lexes /\ Num(m[name]).kind = "number" /\ Num(m[name]).name \notin Roms
  BY <1>1, LexesAre DEF Num, Mark, Roms
<1>3. Says(m, beyond)[name] = <<Token(Num(m[name]))>>
  BY <1>1 DEF Says, Said
<1> QED
  BY <1>1, <1>2, <1>3, SaysAre, MemberTells DEF write_int

Integral(names, N) == DOMAIN names = 1..N /\ \A i \in 1..N : names[i] \in Numbers

\* The integers that write_ints names are told, each at its name.
LEMMA IntsList ==
  ASSUME NEW m, Fitting(m), NEW beyond, Blobs(m, beyond), NEW names, NEW N \in Nat, N > 0,
         Integral(names, N)
  PROVE  Lists(Says(m, beyond), write_ints(m, names), N, 2 * N, ToSet(names))
<1> DEFINE f == write_ints(m, names)
           V == Says(m, beyond)
<1>0. DOMAIN names = 1..N /\ \A i \in 1..N : names[i] \in Numbers
  BY DEF Integral
<1>1. \A i \in 1..N : f[i] = write_int(m, names[i])
  BY <1>0 DEF write_ints
<1>2. First(f, N) = f /\ NamesOf(names, N) = ToSet(names)
  BY <1>0 DEF First, write_ints, ToSet, NamesOf
<1>3. V \in Saying
  BY SaysAre
<1>4. EachTells(V, f, names, N)
  BY <1>0, <1>1, IntTells DEF EachTells
<1> HIDE DEF f, V
<1>5. Lists(V, First(f, N), N, 2 * N, NamesOf(names, N))
  BY <1>3, <1>4, ListAll
<1> QED
  BY <1>2, <1>5 DEF f, V

\* An array of a machine is told whole, in order.
LEMMA WriteArrayTells ==
  ASSUME NEW m, Fitting(m), NEW beyond, Blobs(m, beyond), NEW name, NEW n,
         (name \in Fours /\ n = 4) \/ (name \in Twos /\ n = 2)
  PROVE  Tells(Says(m, beyond), WriteArray(m, name, n), 1, n + 2, {name})
<1> DEFINE V == Says(m, beyond)
           parts == [i \in 1..n |-> <<Num(m[name][i - 1])>>]
           ts == Elements(m[name], n)
<1>1. n \in Nat /\ n > 0 /\ name \in Known /\ \A i \in 0..(n - 1) : m[name][i] \in Int
  <2>1. name \in Known
    BY DEF Known, Fours, Twos
  <2> QED
    BY <2>1, FittingArrays
<1>2. V[name] = <<Sized(Mark("array"), n)>> \o ts
  <2>1. name \notin Numbers /\ (name \in Twos => name \notin Fours)
    BY NamesApart
  <2> QED
    BY <1>1, <2>1 DEF Says, Said, Arrayed
<1>3. V \in Saying
  BY SaysAre
<1>4. Yields(Joined(parts), ts, n) /\ Len(ts) = n /\ Plain(ts)
  BY <1>1, ElementsAre
<1> HIDE DEF V, parts, ts
<1>5. Tells(V, Member(name, Bracketed("array", parts, "array_end")), 1, n + 2, {name})
  BY <1>1, <1>2, <1>3, <1>4, ArrayTells
<1> QED
  BY <1>5 DEF WriteArray, V, parts

\* The RAM and the video RAM of a machine are told as the text of their bytes.
LEMMA WriteBlobTells ==
  ASSUME NEW m, Fitting(m), NEW beyond, Blobs(m, beyond)
  PROVE  /\ Tells(Says(m, beyond), WriteBlob(m, "ram", RAM_BYTES, beyond), 1, 2, {"ram"})
         /\ Tells(Says(m, beyond), WriteBlob(m, "vram", VRAM_BYTES, beyond), 1, 2, {"vram"})
<1> DEFINE V == Says(m, beyond)
           x == Blob(encode_blob(m["ram"], RAM_BYTES, beyond))
           y == Blob(encode_blob(m["vram"], VRAM_BYTES, beyond))
<1>1. "ram" \in Known /\ "vram" \in Known
  BY DEF Known
<1>2. x \in Lexes /\ x.kind = "string" /\ y \in Lexes /\ y.kind = "string"
      /\ x.name \notin Roms /\ y.name \notin Roms
  BY LexesAre DEF Blobs, Roms
<1>3. V["ram"] = <<Token(x)>> /\ V["vram"] = <<Token(y)>>
  <2>1. {"ram", "vram"} \cap (Numbers \cup Fours \cup Twos) = {}
    BY NamesApart
  <2> QED
    BY <1>1, <2>1 DEF Says, Said
<1>4. V \in Saying
  BY SaysAre
<1> HIDE DEF V, x, y
<1>5. Tells(V, Member("ram", <<x>>), 1, 2, {"ram"})
  BY <1>1, <1>2, <1>3, <1>4, MemberTells
<1>6. Tells(V, Member("vram", <<y>>), 1, 2, {"vram"})
  BY <1>1, <1>2, <1>3, <1>4, MemberTells
<1> QED
  BY <1>5, <1>6 DEF WriteBlob, V, x, y

\* One member more.
LEMMA ListMore ==
  ASSUME NEW V \in Saying, NEW a, NEW c, NEW m, NEW K, Lists(V, a, c, m, K),
         NEW p, NEW n, NEW L, Tells(V, p, 1, n, L)
  PROVE  Lists(V, Append(a, p), c + 1, m + n, K \cup L)
<1>1. Lists(V, <<p>>, 1, n, L)
  BY ListOne
<1> DEFINE b == <<p>>
<1>2. a \in Seq(Seq(Lexes)) /\ p \in Seq(Lexes)
  BY DEF Lists, Tells, Yields
<1>3. Append(a, p) = a \o b
  <2> DEFINE S == Seq(Lexes)
  <2>1. a \in Seq(S) /\ p \in S
    BY <1>2
  <2> HIDE DEF S
  <2> QED
    BY <2>1, AppendIsConcat
<1>4. Lists(V, b, 1, n, L)
  BY <1>1
<1> HIDE DEF b
<1>5. Lists(V, a \o b, c + 1, m + n, K \cup L)
  BY <1>4, ListBoth
<1> QED
  BY <1>3, <1>5

\* The names in an object are those of its members, and its own.
Z80Names == ToSet(Z80Registers) \cup ToSet(Z80Ticks) \cup ToSet(Z80Pins)
            \cup {"opcode", "read_buffer", "write_buffer", "read_index", "read_is_io", "write_address",
                  "write_index", "write_is_io", "data", "data_latch", "address"}

\* Fewer names.
LEMMA TellsFewer ==
  ASSUME NEW V, NEW p, NEW c, NEW n, NEW K, Tells(V, p, c, n, K), NEW L, L \subseteq K
  PROVE  Tells(V, p, c, n, L)
BY DEF Tells

\* A list tells any of the names it tells.
LEMMA ListsFewer ==
  ASSUME NEW V, NEW p, NEW c, NEW n, NEW K, Lists(V, p, c, n, K), NEW L, L \subseteq K
  PROVE  Lists(V, p, c, n, L)
BY TellsFewer DEF Lists

\* The registers of the Z80.
LEMMA Z80Tells ==
  ASSUME NEW m, Fitting(m), NEW beyond, Blobs(m, beyond)
  PROVE  Tells(Says(m, beyond), dump_z80(m), 1, 102, Z80Names)
<1> DEFINE V == Says(m, beyond)
           N3 == <<"read_index", "read_is_io", "write_address">>
           N5 == <<"write_index", "write_is_io", "data", "data_latch", "address">>
           a == write_ints(m, Z80Registers)
           b == <<WriteArray(m, "opcode", 4)>>
           c == write_ints(m, Z80Ticks)
           d == <<WriteArray(m, "read_buffer", 2)>>
           e == write_ints(m, N3)
           f == <<WriteArray(m, "write_buffer", 2)>>
           g == write_ints(m, N5)
           h == write_ints(m, Z80Pins)
           KA == ToSet(Z80Registers)
           KC == ToSet(Z80Ticks)
           KE == {"read_index", "read_is_io", "write_address"}
           KG == {"write_index", "write_is_io", "data", "data_latch", "address"}
           KH == ToSet(Z80Pins)
<1>v. V \in Saying
  BY SaysAre
<1>a. Lists(V, a, 17, 34, KA)
  <2> DEFINE n == 17
  <2>1. Integral(Z80Registers, n) /\ n \in Nat /\ n > 0 /\ ToSet(Z80Registers) = KA
    BY DEF Integral, Numbers, ToSet, Z80Registers
  <2>2. 2 * n = 34
    OBVIOUS
  <2> HIDE DEF n, V, KA
  <2>3. Lists(Says(m, beyond), write_ints(m, Z80Registers), n, 2 * n, ToSet(Z80Registers))
    BY <2>1, IntsList
  <2> QED
    BY <2>1, <2>2, <2>3 DEF V, n
<1>c. Lists(V, c, 6, 12, KC)
  <2> DEFINE n == 6
  <2>1. Integral(Z80Ticks, n) /\ n \in Nat /\ n > 0 /\ ToSet(Z80Ticks) = KC
    BY DEF Integral, Numbers, ToSet, Z80Ticks
  <2>2. 2 * n = 12
    OBVIOUS
  <2> HIDE DEF n, V, KC
  <2>3. Lists(Says(m, beyond), write_ints(m, Z80Ticks), n, 2 * n, ToSet(Z80Ticks))
    BY <2>1, IntsList
  <2> QED
    BY <2>1, <2>2, <2>3 DEF V, n
<1>h. Lists(V, h, 12, 24, KH)
  <2> DEFINE n == 12
  <2>1. Integral(Z80Pins, n) /\ n \in Nat /\ n > 0 /\ ToSet(Z80Pins) = KH
    BY DEF Integral, Numbers, ToSet, Z80Pins
  <2>2. 2 * n = 24
    OBVIOUS
  <2> HIDE DEF n, V, KH
  <2>3. Lists(Says(m, beyond), write_ints(m, Z80Pins), n, 2 * n, ToSet(Z80Pins))
    BY <2>1, IntsList
  <2> QED
    BY <2>1, <2>2, <2>3 DEF V, n
<1>e. Lists(V, e, 3, 6, KE)
  <2> DEFINE n == 3
  <2>1. Integral(N3, n) /\ n \in Nat /\ n > 0 /\ ToSet(N3) = KE
    BY DEF Integral, Numbers, ToSet
  <2>2. 2 * n = 6
    OBVIOUS
  <2> HIDE DEF n, V, KE, N3
  <2>3. Lists(Says(m, beyond), write_ints(m, N3), n, 2 * n, ToSet(N3))
    BY <2>1, IntsList
  <2> QED
    BY <2>1, <2>2, <2>3 DEF V, n
<1>g. Lists(V, g, 5, 10, KG)
  <2> DEFINE n == 5
  <2>1. Integral(N5, n) /\ n \in Nat /\ n > 0 /\ ToSet(N5) = KG
    BY DEF Integral, Numbers, ToSet
  <2>2. 2 * n = 10
    OBVIOUS
  <2> HIDE DEF n, V, KG, N5
  <2>3. Lists(Says(m, beyond), write_ints(m, N5), n, 2 * n, ToSet(N5))
    BY <2>1, IntsList
  <2> QED
    BY <2>1, <2>2, <2>3 DEF V, n
<1>b. Lists(V, b, 1, 6, {"opcode"})
  <2>1. Tells(V, WriteArray(m, "opcode", 4), 1, 4 + 2, {"opcode"})
    BY WriteArrayTells DEF Fours
  <2> QED
    BY <2>1, ListOne, 4 + 2 = 6
<1>d. Lists(V, d, 1, 4, {"read_buffer"})
  <2>1. Tells(V, WriteArray(m, "read_buffer", 2), 1, 2 + 2, {"read_buffer"})
    BY WriteArrayTells DEF Twos
  <2> QED
    BY <2>1, ListOne, 2 + 2 = 4
<1>f. Lists(V, f, 1, 4, {"write_buffer"})
  <2>1. Tells(V, WriteArray(m, "write_buffer", 2), 1, 2 + 2, {"write_buffer"})
    BY WriteArrayTells DEF Twos
  <2> QED
    BY <2>1, ListOne, 2 + 2 = 4
<1>z. dump_z80(m) = Object("z80", ((((((a \o b) \o c) \o d) \o e) \o f) \o g) \o h)
  BY DEF dump_z80
<1> HIDE DEF V, a, b, c, d, e, f, g, h, KA, KC, KE, KG, KH
<1>1. Lists(V, a \o b, 18, 40, KA \cup {"opcode"})
  BY <1>v, <1>a, <1>b, ListBoth, 17 + 1 = 18, 34 + 6 = 40
<1> DEFINE ab == a \o b
           K1 == KA \cup {"opcode"}
<1> HIDE DEF ab, K1
<1>2. Lists(V, ab \o c, 24, 52, K1 \cup KC)
  BY <1>v, <1>1, <1>c, ListBoth, 18 + 6 = 24, 40 + 12 = 52 DEF ab, K1
<1> DEFINE abc == ab \o c
           K2 == K1 \cup KC
<1> HIDE DEF abc, K2
<1>3. Lists(V, abc \o d, 25, 56, K2 \cup {"read_buffer"})
  BY <1>v, <1>2, <1>d, ListBoth, 24 + 1 = 25, 52 + 4 = 56 DEF abc, K2
<1> DEFINE abcd == abc \o d
           K3 == K2 \cup {"read_buffer"}
<1> HIDE DEF abcd, K3
<1>4. Lists(V, abcd \o e, 28, 62, K3 \cup KE)
  BY <1>v, <1>3, <1>e, ListBoth, 25 + 3 = 28, 56 + 6 = 62 DEF abcd, K3
<1> DEFINE abcde == abcd \o e
           K4 == K3 \cup KE
<1> HIDE DEF abcde, K4
<1>5. Lists(V, abcde \o f, 29, 66, K4 \cup {"write_buffer"})
  BY <1>v, <1>4, <1>f, ListBoth, 28 + 1 = 29, 62 + 4 = 66 DEF abcde, K4
<1> DEFINE abcdef == abcde \o f
           K5 == K4 \cup {"write_buffer"}
<1> HIDE DEF abcdef, K5
<1>6. Lists(V, abcdef \o g, 34, 76, K5 \cup KG)
  BY <1>v, <1>5, <1>g, ListBoth, 29 + 5 = 34, 66 + 10 = 76 DEF abcdef, K5
<1> DEFINE most == abcdef \o g
           K6 == K5 \cup KG
<1> HIDE DEF most, K6
<1>7. Lists(V, most \o h, 46, 100, K6 \cup KH)
  <2>1. Lists(V, most, 34, 76, K6)
    BY <1>6 DEF most, K6
  <2>2. Lists(V, most \o h, 34 + 12, 76 + 24, K6 \cup KH)
    BY <1>v, <1>h, <2>1, ListBoth
  <2> QED
    BY <2>2, 34 + 12 = 46, 76 + 24 = 100
<1> DEFINE all == most \o h
           K7 == K6 \cup KH
<1> HIDE DEF all, K7
<1>8. "z80" \in Known /\ V["z80"] = <<>>
  <2>1. "z80" \in Known /\ "z80" \in Others
    BY DEF Known, Others
  <2>2. "z80" \notin Numbers \cup Fours \cup Twos \cup {"ram", "vram"}
    BY <2>1, NamesApart
  <2> QED
    BY <2>1, <2>2 DEF V, Says, Said
<1>9. Tells(V, Object("z80", all), 1, 102, K7 \cup {"z80"})
  <2>1. Tells(V, Joined(all), 46, 100, K7)
    BY <1>7 DEF Lists, all, K7
  <2>2. Tells(V, Object("z80", all), 1, 100 + 2, K7 \cup {"z80"})
    BY <1>v, <1>8, <2>1, ObjectTells
  <2> QED
    BY <2>2, 100 + 2 = 102
<1>10. Z80Names \subseteq K7 \cup {"z80"}
  BY DEF Z80Names, K7, K6, K5, K4, K3, K2, K1, KA, KC, KE, KG, KH
<1>11. dump_z80(m) = Object("z80", all)
  BY <1>z DEF all, most, abcdef, abcde, abcd, abc, ab
<1> QED
  BY <1>9, <1>10, <1>11, TellsFewer DEF V

\* A small object of numbers.
LEMMA SmallObject ==
  ASSUME NEW m, Fitting(m), NEW beyond, Blobs(m, beyond), NEW names, Integral(names, 3),
         NEW name \in {"mapper", "peripheral"}
  PROVE  Tells(Says(m, beyond), Object(name, write_ints(m, names)), 1, 8, ToSet(names))
<1> DEFINE V == Says(m, beyond)
           a == write_ints(m, names)
           n == 3
<1>1. V \in Saying
  BY SaysAre
<1>2. n \in Nat /\ n > 0 /\ 2 * n = 6 /\ n = 3 /\ 6 + 2 = 8
  OBVIOUS
<1>3. name \in Known /\ V[name] = <<>>
  <2>1. name \in Known /\ name \in Others
    BY DEF Known, Others
  <2>2. name \notin Numbers \cup Fours \cup Twos \cup {"ram", "vram"}
    BY <2>1, NamesApart
  <2> QED
    BY <2>1, <2>2 DEF Says, Said
<1> HIDE DEF n
<1>4. Lists(V, a, n, 2 * n, ToSet(names))
  BY <1>2, IntsList
<1> HIDE DEF V, a
<1>5. Tells(V, Object(name, a), 1, 6 + 2, ToSet(names) \cup {name})
  <2>1. Tells(V, Joined(a), 3, 6, ToSet(names))
    BY <1>2, <1>4 DEF Lists
  <2> QED
    BY <1>1, <1>3, <2>1, ObjectTells
<1>6. Tells(V, Object(name, a), 1, 8, ToSet(names) \cup {name})
  BY <1>2, <1>5
<1> QED
  BY <1>6, TellsFewer DEF V, a

\* The PSG.
LEMMA PsgTells ==
  ASSUME NEW m, Fitting(m), NEW beyond, Blobs(m, beyond)
  PROVE  Tells(Says(m, beyond), dump_psg(m), 1, 14, {"volume", "tone"})
<1> DEFINE V == Says(m, beyond)
           a == WriteArray(m, "volume", 4)
           b == WriteArray(m, "tone", 4)
<1>1. V \in Saying
  BY SaysAre
<1>2. "psg" \in Known /\ V["psg"] = <<>>
  <2>1. "psg" \in Known /\ "psg" \in Others
    BY DEF Known, Others
  <2>2. "psg" \notin Numbers \cup Fours \cup Twos \cup {"ram", "vram"}
    BY <2>1, NamesApart
  <2> QED
    BY <2>1, <2>2 DEF Says, Said
<1>3. Tells(V, a, 1, 4 + 2, {"volume"}) /\ Tells(V, b, 1, 4 + 2, {"tone"})
  BY WriteArrayTells DEF Fours
<1>4. dump_psg(m) = Object("psg", <<a, b>>)
  BY DEF dump_psg
<1> HIDE DEF V, a, b
<1>5. <<a, b>> = Append(<<a>>, b)
  OBVIOUS
<1>6. Lists(V, <<a>>, 1, 6, {"volume"}) /\ Tells(V, b, 1, 6, {"tone"})
  BY <1>3, ListOne, 4 + 2 = 6
<1> DEFINE l == <<a>>
<1>a. Lists(V, l, 1, 6, {"volume"})
  BY <1>6
<1> HIDE DEF l
<1>7. Lists(V, Append(l, b), 1 + 1, 6 + 6, {"volume"} \cup {"tone"})
  BY <1>1, <1>6, <1>a, ListMore
<1>8. Tells(V, Joined(Append(l, b)), 2, 12, {"volume", "tone"})
  <2>1. {"volume"} \cup {"tone"} = {"volume", "tone"}
    OBVIOUS
  <2> QED
    BY <1>7, <2>1, 1 + 1 = 2, 6 + 6 = 12 DEF Lists
<1>9. Tells(V, Object("psg", Append(l, b)), 1, 12 + 2, {"volume", "tone"} \cup {"psg"})
  BY <1>1, <1>2, <1>8, ObjectTells
<1>10. Object("psg", Append(l, b)) = dump_psg(m)
  BY <1>4, <1>5 DEF l
<1>11. Tells(V, dump_psg(m), 1, 14, {"volume", "tone"} \cup {"psg"})
  BY <1>9, <1>10, 12 + 2 = 14
<1> QED
  BY <1>11, TellsFewer DEF V

\* The VDP has nothing to tell.
LEMMA VdpTells ==
  ASSUME NEW m, Fitting(m), NEW beyond, Blobs(m, beyond)
  PROVE  Tells(Says(m, beyond), dump_vdp, 1, 2, {})
<1> DEFINE V == Says(m, beyond)
           e == <<>>
<1>1. V \in Saying
  BY SaysAre
<1>2. "vdp" \in Known /\ V["vdp"] = <<>>
  <2>1. "vdp" \in Known /\ "vdp" \in Others
    BY DEF Known, Others
  <2>2. "vdp" \notin Numbers \cup Fours \cup Twos \cup {"ram", "vram"}
    BY <2>1, NamesApart
  <2> QED
    BY <2>1, <2>2 DEF Says, Said
<1>3. Joined(e) = <<>>
  <2>1. <<>> \in Seq(Lexes)
    OBVIOUS
  <2> QED
    BY <2>1, JoinedOne
<1>4. Len(<<>>) = 0 /\ Truthful(V, <<>>)
  BY DEF Truthful, Romless
<1> HIDE DEF V
<1>5. Tells(V, Joined(e), 0, 0, {})
  BY <1>3, <1>4, NothingYields DEF Tells
<1>6. dump_vdp = Object("vdp", e)
  BY DEF dump_vdp
<1> HIDE DEF e
<1>7. Tells(V, Object("vdp", e), 1, 0 + 2, {} \cup {"vdp"})
  BY <1>1, <1>2, <1>5, ObjectTells
<1>8. Tells(V, dump_vdp, 1, 2, {} \cup {"vdp"})
  BY <1>6, <1>7, 0 + 2 = 2
<1> QED
  BY <1>8, TellsFewer DEF V

\* All but the ROM and the versions.
FrontParts(m, beyond) ==
  << dump_rom_mapper(m), dump_io(m), dump_peripheral(m), dump_psg(m), dump_z80(m), dump_vdp,
     WriteBlob(m, "ram", RAM_BYTES, beyond), WriteBlob(m, "vram", VRAM_BYTES, beyond) >>
FrontNames == Numbers \cup Fours \cup Twos \cup {"ram", "vram"}

\* Everything before the ROM is told in 140 tokens.
LEMMA FrontLists ==
  ASSUME NEW m, Fitting(m), NEW beyond, Blobs(m, beyond)
  PROVE  Lists(Says(m, beyond), FrontParts(m, beyond), 8, 140, FrontNames)
<1> DEFINE V == Says(m, beyond)
           a == dump_rom_mapper(m)
           b == dump_io(m)
           c == dump_peripheral(m)
           d == dump_psg(m)
           e == dump_z80(m)
           f == dump_vdp
           g == WriteBlob(m, "ram", RAM_BYTES, beyond)
           h == WriteBlob(m, "vram", VRAM_BYTES, beyond)
           KA == {"slot0", "slot1", "slot2"}
           KC == {"control", "ab", "bm"}
           KD == {"volume", "tone"}
<1>v. V \in Saying
  BY SaysAre
<1>a. Tells(V, a, 1, 8, KA)
  <2> DEFINE names == <<"slot0", "slot1", "slot2">>
  <2>1. Integral(names, 3) /\ ToSet(names) = KA
    BY DEF Integral, Numbers, ToSet
  <2>2. a = Object("mapper", write_ints(m, names))
    BY DEF dump_rom_mapper
  <2> HIDE DEF names, KA, a, V
  <2> QED
    BY <2>1, <2>2, SmallObject DEF V
<1>b. Tells(V, b, 1, 2, {"io_stat"})
  BY IntTells DEF dump_io, Numbers
<1>c. Tells(V, c, 1, 8, KC)
  <2> DEFINE names == <<"control", "ab", "bm">>
  <2>1. Integral(names, 3) /\ ToSet(names) = KC
    BY DEF Integral, Numbers, ToSet
  <2>2. c = Object("peripheral", write_ints(m, names))
    BY DEF dump_peripheral
  <2> HIDE DEF names, KC, c, V
  <2> QED
    BY <2>1, <2>2, SmallObject DEF V
<1>d. Tells(V, d, 1, 14, KD)
  BY PsgTells
<1>e. Tells(V, e, 1, 102, Z80Names)
  BY Z80Tells
<1>f. Tells(V, f, 1, 2, {})
  BY VdpTells
<1>g. Tells(V, g, 1, 2, {"ram"}) /\ Tells(V, h, 1, 2, {"vram"})
  BY WriteBlobTells
<1>p. FrontParts(m, beyond) = <<a, b, c, d, e, f, g, h>>
  BY DEF FrontParts
<1> HIDE DEF V, a, b, c, d, e, f, g, h, KA, KC, KD
<1> DEFINE l1 == <<a>>
           l2 == <<a, b>>
           l3 == <<a, b, c>>
           l4 == <<a, b, c, d>>
           l5 == <<a, b, c, d, e>>
           l6 == <<a, b, c, d, e, f>>
           l7 == <<a, b, c, d, e, f, g>>
           l8 == <<a, b, c, d, e, f, g, h>>
<1>l. /\ l2 = Append(l1, b) /\ l3 = Append(l2, c) /\ l4 = Append(l3, d) /\ l5 = Append(l4, e)
      /\ l6 = Append(l5, f) /\ l7 = Append(l6, g) /\ l8 = Append(l7, h)
  OBVIOUS
<1>1. Lists(V, l1, 1, 8, KA)
  BY <1>a, ListOne
<1>8. FrontParts(m, beyond) = l8
  BY <1>p
<1> HIDE DEF l1, l2, l3, l4, l5, l6, l7, l8
<1> DEFINE K2 == KA \cup {"io_stat"}
           K3 == K2 \cup KC
           K4 == K3 \cup KD
           K5 == K4 \cup Z80Names
           K6 == K5 \cup {}
           K7 == K6 \cup {"ram"}
           K8 == K7 \cup {"vram"}
<1>2. Lists(V, l2, 2, 10, K2)
  <2>1. Lists(V, Append(l1, b), 1 + 1, 8 + 2, KA \cup {"io_stat"})
    BY <1>v, <1>1, <1>b, ListMore
  <2> QED
    BY <2>1, <1>l, 1 + 1 = 2, 8 + 2 = 10
<1> HIDE DEF K2
<1>3. Lists(V, l3, 3, 18, K3)
  <2>1. Lists(V, Append(l2, c), 2 + 1, 10 + 8, K2 \cup KC)
    BY <1>v, <1>2, <1>c, ListMore
  <2> QED
    BY <2>1, <1>l, 2 + 1 = 3, 10 + 8 = 18
<1> HIDE DEF K3
<1>4. Lists(V, l4, 4, 32, K4)
  <2>1. Lists(V, Append(l3, d), 3 + 1, 18 + 14, K3 \cup KD)
    BY <1>v, <1>3, <1>d, ListMore
  <2> QED
    BY <2>1, <1>l, 3 + 1 = 4, 18 + 14 = 32
<1> HIDE DEF K4
<1>5. Lists(V, l5, 5, 134, K5)
  <2>1. Lists(V, Append(l4, e), 4 + 1, 32 + 102, K4 \cup Z80Names)
    BY <1>v, <1>4, <1>e, ListMore
  <2> QED
    BY <2>1, <1>l, 4 + 1 = 5, 32 + 102 = 134
<1> HIDE DEF K5
<1>6. Lists(V, l6, 6, 136, K6)
  <2> DEFINE E == {}
  <2>1. Tells(V, f, 1, 2, E) /\ K6 = K5 \cup E
    BY <1>f
  <2> HIDE DEF E, K6
  <2>2. Lists(V, Append(l5, f), 5 + 1, 134 + 2, K5 \cup E)
    BY <1>v, <1>5, <2>1, ListMore
  <2> QED
    BY <2>1, <2>2, <1>l, 5 + 1 = 6, 134 + 2 = 136
<1> HIDE DEF K6
<1>7. Lists(V, l7, 7, 138, K7)
  <2>1. Lists(V, Append(l6, g), 6 + 1, 136 + 2, K6 \cup {"ram"})
    BY <1>v, <1>6, <1>g, ListMore
  <2> QED
    BY <2>1, <1>l, 6 + 1 = 7, 136 + 2 = 138
<1> HIDE DEF K7
<1>9. Lists(V, l8, 8, 140, K8)
  <2>1. Lists(V, Append(l7, h), 7 + 1, 138 + 2, K7 \cup {"vram"})
    BY <1>v, <1>7, <1>g, ListMore
  <2> QED
    BY <2>1, <1>l, 7 + 1 = 8, 138 + 2 = 140
<1> HIDE DEF K8
<1>10. FrontNames \subseteq K8
  BY DEF FrontNames, Numbers, Fours, Twos, Z80Names, K8, K7, K6, K5, K4, K3, K2, KA, KC, KD
<1> QED
  BY <1>8, <1>9, <1>10, ListsFewer DEF V

\* The object that is the whole file.
Root            == <<Token(Mark("object"))>>
RootOpen        == <<1>>
Headed(c, ts)   == <<Sized(Mark("object"), c)>> \o ts

\* A file begins.
LEMMA RootParsed ==
  /\ After(jsmn_init, <<Mark("object")>>) = Inside(Root, RootOpen)
  /\ Within(Root, RootOpen) /\ Innermost(RootOpen) = 1 /\ Len(Root) = 1
  /\ <<Mark("object")>> \in Seq(Lexes)
<1> DEFINE e == <<>>
           x == Mark("object")
           o == "object"
           z == 0
<1>0. /\ e \in Seq(Tokens) /\ e \in Seq(Nat) /\ Len(e) = 0 /\ z \in 0..Len(e) /\ o \in Openers
      /\ z = 0 /\ Len(e) < MAX_JSON_TOKENS /\ Len(e) + 1 = 1
  BY RoomAssumption DEF Openers
<1>1. x \in Lexes
  BY LexesAre DEF Kinds
<1>2. jsmn_init = At(e, e, 0)
  BY DEF jsmn_init, At
<1>3. Append(e, 1) = RootOpen
  BY DEF RootOpen
<1>4. \A t : e \o <<t>> = <<t>>
  OBVIOUS
<1> DEFINE t == Token(x)
<1>5. Raised(e, 0, 1) \o <<Token(Mark(o))>> = Root
  <2>1. Raised(e, 0, 1) = e
    BY DEF Raised
  <2>2. Root = <<t>> /\ Token(Mark(o)) = t
    BY DEF Root
  <2> HIDE DEF e, t
  <2> QED
    BY <1>4, <2>1, <2>2
<1> HIDE DEF e, x, t, z
<1>6. /\ Parsed(At(e, e, z), Mark(o)) = At(Raised(e, z, 1) \o <<Token(Mark(o))>>, Append(e, Len(e) + 1), Len(e) + 1)
      /\ Within(Raised(e, z, 1) \o <<Token(Mark(o))>>, Append(e, Len(e) + 1))
      /\ Innermost(Append(e, Len(e) + 1)) = Len(e) + 1
      /\ Len(Raised(e, z, 1) \o <<Token(Mark(o))>>) = Len(e) + 1
  BY <1>0, OpenParsed
<1>7. Parsed(jsmn_init, x) = At(Root, RootOpen, 1)
  BY <1>0, <1>2, <1>3, <1>5, <1>6 DEF x
<1>8. After(jsmn_init, <<x>>) = At(Root, RootOpen, 1)
  BY <1>7, AfterOne
<1>9. Within(Root, RootOpen) /\ Innermost(RootOpen) = 1 /\ Len(Root) = 1
  BY <1>0, <1>3, <1>5, <1>6
<1>10. <<x>> \in Seq(Lexes)
  BY <1>1, OneLexeme
<1> QED
  BY <1>8, <1>9, <1>10 DEF x, Inside

\* What the root counts.
LEMMA RootGrows ==
  ASSUME NEW c \in Nat, NEW ts \in Seq(Tokens)
  PROVE  Grown(Root, RootOpen, c, ts) = Headed(c, ts)
<1> DEFINE e == <<>>
           x == Mark("object")
           k == Sized(x, c)
           t == Token(x)
<1>1. x \in Lexes /\ e \in Seq(Tokens) /\ Len(e) + 1 = 1
  BY LexesAre DEF Kinds
<1>2. \A a : e \o <<a>> = <<a>>
  OBVIOUS
<1> HIDE DEF e, x
<1>3. Raised(e \o <<Token(x)>>, Len(e) + 1, c) = e \o <<Sized(x, c)>>
  BY <1>1, LastCounts, ZenonT(40)
<1> HIDE DEF k, t
<1>4. e \o <<t>> = <<t>> /\ e \o <<k>> = <<k>>
  BY <1>2
<1>5. Raised(<<t>>, 1, c) = <<k>>
  BY <1>1, <1>3, <1>4 DEF t, k
<1>6. Root = <<t>>
  BY DEF Root, t, x
<1> QED
  BY <1>5, <1>6, RootParsed DEF Grown, Headed, k, x

\* The text is the beginning of a file, of which the parser makes the tokens G.
ReadAs(G, p) == \E s : p = At(G, RootOpen, s) /\ Settled(G, RootOpen, s)
Reads(text, G) == text \in Seq(Lexes) /\ Within(G, RootOpen) /\ ReadAs(G, After(jsmn_init, text))

\* Another value, after a comma.
LEMMA ReadsMore ==
  ASSUME NEW text, NEW c \in Nat, NEW ts \in Seq(Tokens), Reads(text, Headed(c, ts)),
         NEW seg, NEW us, NEW d, Yields(seg, us, d), Len(ts) + Len(us) + 1 <= MAX_JSON_TOKENS
  PROVE  Reads((text \o <<Mark("comma")>>) \o seg, Headed(c + d, ts \o us))
<1> DEFINE G == Headed(c, ts)
           H == Grown(G, RootOpen, d, us)
           k == <<Mark("comma")>>
           x == Mark("comma")
<1>1. text \in Seq(Lexes) /\ Within(G, RootOpen) /\ seg \in Seq(Lexes) /\ us \in Seq(Tokens) /\ d \in Nat
  BY DEF Reads, Yields
<1>2. PICK s : After(jsmn_init, text) = At(G, RootOpen, s) /\ Settled(G, RootOpen, s)
  BY DEF Reads, ReadAs
<1>x. x \in Lexes
  BY LexesAre DEF Kinds
<1>3. k \in Seq(Lexes)
  <2> HIDE DEF x
  <2> QED
    BY <1>x, OneLexeme DEF x
<1>4. G = Grown(Root, RootOpen, c, ts)
  BY RootGrows
<1>5. Len(G) = 1 + Len(ts) /\ Len(ts) \in Nat /\ Len(us) \in Nat
  <2> HIDE DEF G
  <2>1. Len(Grown(Root, RootOpen, c, ts)) = Len(Root) + Len(ts) /\ Len(ts) \in Nat
    BY RootParsed, StaysWithin
  <2> QED
    BY <1>1, <1>4, <2>1, RootParsed, LenProperties
<1> HIDE DEF G, k
<1>6. Fits(G, RootOpen, Len(us))
  BY <1>1, <1>5, RoomAssumption DEF Fits
<1>7. PICK r : After(Inside(G, RootOpen), seg) = At(H, RootOpen, r) /\ Settled(H, RootOpen, r)
  BY <1>6 DEF Yields, Runs
<1> HIDE DEF H
<1>8. Parsed(At(G, RootOpen, s), x) = Inside(G, RootOpen)
  BY <1>1, <1>2, CommaParsed DEF Inside
<1> HIDE DEF x
<1>9. After(At(G, RootOpen, s), <<x>>) = Inside(G, RootOpen)
  BY <1>8, AfterOne
<1>10. text \o k \in Seq(Lexes) /\ (text \o k) \o seg \in Seq(Lexes)
  BY <1>1, <1>3
<1>11. After(jsmn_init, text \o k) = Inside(G, RootOpen)
  <2>1. After(jsmn_init, text \o k) = After(After(jsmn_init, text), k)
    BY <1>1, <1>3, AfterBoth
  <2> QED
    BY <1>2, <1>9, <2>1 DEF k, x
<1>12. After(jsmn_init, (text \o k) \o seg) = At(H, RootOpen, r)
  <2>1. After(jsmn_init, (text \o k) \o seg) = After(After(jsmn_init, text \o k), seg)
    BY <1>1, <1>10, AfterBoth
  <2> QED
    BY <1>7, <1>11, <2>1
<1>13. H = Headed(c + d, ts \o us) /\ Within(H, RootOpen)
  <2>1. Grown(Grown(Root, RootOpen, c, ts), RootOpen, d, us) = Grown(Root, RootOpen, c + d, ts \o us)
    BY <1>1, RootParsed, GrownTwice
  <2>2. c + d \in Nat /\ ts \o us \in Seq(Tokens)
    BY <1>1
  <2>3. Grown(Root, RootOpen, c + d, ts \o us) = Headed(c + d, ts \o us)
    BY <2>2, RootGrows
  <2>4. Within(Grown(G, RootOpen, d, us), RootOpen)
    BY <1>1, StaysWithin
  <2> QED
    BY <1>4, <2>1, <2>3, <2>4 DEF H
<1> QED
  BY <1>7, <1>10, <1>12, <1>13 DEF Reads, ReadAs, k

\* All of a file up to its ROM.
Opening(m, beyond) == <<Mark("object")>> \o Joined(FrontParts(m, beyond))
Speaks(V, ts)      == Len(ts) = 140 /\ Truthful(V, ts) /\ \A name \in FrontNames : Named(ts, name)

\* The parser reads all of that, in an object that is still open.
LEMMA OpeningReads ==
  ASSUME NEW m, Fitting(m), NEW beyond, Blobs(m, beyond)
  PROVE  \E ts \in Seq(Tokens) : Speaks(Says(m, beyond), ts) /\ Reads(Opening(m, beyond), Headed(8, ts))
<1> DEFINE a == <<Mark("object")>>
           b == Joined(FrontParts(m, beyond))
           V == Says(m, beyond)
<1>0. Tells(V, b, 8, 140, FrontNames)
  BY FrontLists DEF Lists
<1> HIDE DEF V, b
<1>1. PICK ts : Yields(b, ts, 8) /\ Speaks(V, ts)
  BY <1>0 DEF Tells, Speaks
<1>2. ts \in Seq(Tokens) /\ b \in Seq(Lexes)
  BY <1>1 DEF Yields
<1> DEFINE n == 8
           G == Grown(Root, RootOpen, n, ts)
<1>3. n \in Nat /\ n = 8
  OBVIOUS
<1>4. Fits(Root, RootOpen, Len(ts))
  <2>1. 1 + 140 <= MAX_JSON_TOKENS
    BY RoomAssumption
  <2> QED
    BY <1>1, <2>1, RootParsed DEF Fits, Speaks
<1> HIDE DEF n, a
<1>5. PICK s : After(Inside(Root, RootOpen), b) = At(G, RootOpen, s) /\ Settled(G, RootOpen, s)
  BY <1>1, <1>3, <1>4 DEF Yields, Runs
<1>6. Within(G, RootOpen)
  BY <1>2, <1>3, RootParsed, StaysWithin
<1> HIDE DEF G
<1>7. a \in Seq(Lexes) /\ After(jsmn_init, a) = Inside(Root, RootOpen)
  BY RootParsed DEF a
<1>8. After(jsmn_init, a \o b) = At(G, RootOpen, s) /\ a \o b \in Seq(Lexes)
  <2>1. After(jsmn_init, a \o b) = After(After(jsmn_init, a), b)
    BY <1>2, <1>7, AfterBoth
  <2> QED
    BY <1>2, <1>5, <1>7, <2>1
<1>9. Opening(m, beyond) = a \o b
  BY DEF Opening, a, b
<1>10. G = Headed(8, ts)
  BY <1>2, <1>3, RootGrows DEF G
<1> QED
  BY <1>1, <1>2, <1>5, <1>6, <1>8, <1>9, <1>10 DEF Reads, ReadAs, V

Results == {"ok", "NOMEM", "INVAL", "PART"}
State(T, O, s, r) == [tokens |-> T, open |-> O, toksuper |-> s, result |-> r]

\* A parser by its parts.
LEMMA StateIs ==
  ASSUME NEW T, NEW O, NEW s, NEW r
  PROVE  /\ State(T, O, s, r).tokens = T /\ State(T, O, s, r).open = O
         /\ State(T, O, s, r).toksuper = s /\ State(T, O, s, r).result = r
         /\ At(T, O, s) = State(T, O, s, "ok")
         /\ \A e : Failed(State(T, O, s, r), e) = State(T, O, s, e)
BY DEF State, At, Failed

\* What a lexeme may do to a parser: an error, a token, a token that opens, the end of the
\* innermost, a colon, a comma.
Makes(T, O, s, x, q) ==
  \/ \E e \in Results : q = State(T, O, s, e)
  \/ q = At(Raised(T, s, 1) \o <<Token(x)>>, O, s)
  \/ q = At(Raised(T, s, 1) \o <<Token(x)>>, Append(O, Len(T) + 1), Len(T) + 1)
  \/ O # <<>> /\ q = At(T, SubSeq(O, 1, Len(O) - 1), Innermost(SubSeq(O, 1, Len(O) - 1)))
  \/ q = At(T, O, Len(T))
  \/ q = At(T, O, Innermost(O))

\* A token is taken or there is no room.
LEMMA Allocates ==
  ASSUME NEW T \in Seq(Tokens), NEW O, NEW s \in 0..Len(T), NEW x \in Lexes
  PROVE  \/ Allocated(At(T, O, s), Token(x)) = At(Raised(T, s, 1) \o <<Token(x)>>, O, s)
         \/ Allocated(At(T, O, s), Token(x)) = State(T, O, s, "NOMEM")
<1>1. CASE Len(T) < MAX_JSON_TOKENS
  BY <1>1, TokenTaken
<1>2. CASE Len(T) >= MAX_JSON_TOKENS
  <2> DEFINE t == Token(x)
             p == At(T, O, s)
  <2>1. p.tokens = T
    BY AtIs
  <2>2. Failed(p, "NOMEM") = State(T, O, s, "NOMEM")
    BY StateIs
  <2> HIDE DEF t, p
  <2>3. Allocated(p, t) = Failed(p, "NOMEM")
    BY <1>2, <2>1 DEF Allocated
  <2> QED
    BY <2>2, <2>3 DEF t, p
<1>3. Len(T) \in Nat
  BY LenProperties
<1> QED
  BY <1>1, <1>2, <1>3, RoomAssumption

\* It opens, for any lexeme.
LEMMA Opens ==
  ASSUME NEW T \in Seq(Tokens), NEW O, NEW s \in 0..Len(T), NEW x \in Lexes
  PROVE  Makes(T, O, s, x, Opened(At(T, O, s), x))
<1> DEFINE p == At(T, O, s)
           U == Raised(T, s, 1) \o <<Token(x)>>
           q == Allocated(p, Token(x))
           i == Len(T) + 1
<1>1. CASE q = State(T, O, s, "NOMEM")
  <2>1. q.result # "ok"
    BY <1>1, StateIs
  <2> HIDE DEF q
  <2>2. Opened(p, x) = q
    BY <2>1 DEF Opened, q
  <2> QED
    BY <1>1, <2>2 DEF Makes, Results
<1>2. CASE q = At(U, O, s)
  <2>1. Len(U) = i
    <3> DEFINE R == Raised(T, s, 1)
               t == Token(x)
    <3>1. R \in Seq(Tokens) /\ Len(R) = Len(T) /\ t \in Tokens
      <4>1. 1 \in Nat
        OBVIOUS
      <4> QED
        BY <4>1, RaisedIs, TokensOf
    <3> HIDE DEF R, t
    <3>2. Len(R \o <<t>>) = Len(R) + 1
      BY <3>1, OneToken
    <3> QED
      BY <3>1, <3>2 DEF R, t
  <2> HIDE DEF U, i
  <2>2. q.result = "ok" /\ q.tokens = U
    BY <1>2, AtIs
  <2>3. [q EXCEPT !.open = Append(@, i), !.toksuper = i] = At(U, Append(O, i), i)
    <3> DEFINE P == Append(O, i)
    <3>1. At(U, O, s).open = O
      BY AtIs
    <3>2. [At(U, O, s) EXCEPT !.open = Append(@, i), !.toksuper = i]
            = [[At(U, O, s) EXCEPT !.open = P] EXCEPT !.toksuper = i]
      BY <3>1
    <3> HIDE DEF P
    <3>3. [At(U, O, s) EXCEPT !.open = P] = At(U, P, s)
      BY DEF At
    <3>4. [At(U, P, s) EXCEPT !.toksuper = i] = At(U, P, i)
      BY DEF At
    <3>5. [q EXCEPT !.open = Append(@, i), !.toksuper = i] = At(U, P, i)
      BY <1>2, <3>2, <3>3, <3>4
    <3> QED
      BY <3>5 DEF P
  <2> HIDE DEF q
  <2>4. Opened(p, x) = At(U, Append(O, i), i)
    BY <2>1, <2>2, <2>3 DEF Opened, q
  <2> QED
    BY <2>4 DEF Makes, U, i
<1>3. q = At(U, O, s) \/ q = State(T, O, s, "NOMEM")
  BY Allocates
<1> QED
  BY <1>1, <1>2, <1>3

\* It closes.
LEMMA Closes ==
  ASSUME NEW T, NEW O, NEW s, NEW x, NEW c
  PROVE  Makes(T, O, s, x, Closed(At(T, O, s), c))
<1> DEFINE p == At(T, O, s)
           P == SubSeq(O, 1, Len(O) - 1)
           i == Innermost(P)
<1>1. p.open = O /\ Failed(p, "INVAL") = State(T, O, s, "INVAL")
  BY AtIs, StateIs
<1>2. [p EXCEPT !.open = P, !.toksuper = i] = At(T, P, i)
  <2> HIDE DEF P, i
  <2>1. [At(T, O, s) EXCEPT !.open = P] = At(T, P, s)
    BY DEF At
  <2>2. [At(T, P, s) EXCEPT !.toksuper = i] = At(T, P, i)
    BY DEF At
  <2>3. [At(T, O, s) EXCEPT !.open = P, !.toksuper = i] = [[At(T, O, s) EXCEPT !.open = P] EXCEPT !.toksuper = i]
    OBVIOUS
  <2> QED
    BY <2>1, <2>2, <2>3
<1> HIDE DEF p
<1>3. \/ Closed(p, c) = Failed(p, "INVAL")
      \/ O # <<>> /\ Closed(p, c) = [p EXCEPT !.open = P, !.toksuper = i]
  BY <1>1 DEF Closed
<1> QED
  BY <1>1, <1>2, <1>3 DEF Makes, Results, p

\* Any lexeme.
LEMMA LexemeMakes ==
  ASSUME NEW T \in Seq(Tokens), NEW O, NEW s \in 0..Len(T), NEW x \in Lexes
  PROVE  Makes(T, O, s, x, Parsed(At(T, O, s), x))
<1> DEFINE p == At(T, O, s)
<1>1. p.tokens = T /\ p.open = O /\ p.toksuper = s /\ p.result = "ok"
  BY AtIs
<1>2. Parsed(p, x) = Lexeme(p, x)
  BY <1>1 DEF Parsed
<1>3. x.kind \in Kinds
  BY DEF Lexes
<1>4. CASE x.kind \in {"object", "array"}
  <2>1. Lexeme(p, x) = Opened(p, x)
    BY <1>4 DEF Lexeme
  <2> QED
    BY <1>2, <2>1, Opens
<1>5. CASE x.kind \in {"object_end", "array_end"}
  <2>1. Lexeme(p, x) = Closed(p, x.kind)
    BY <1>5 DEF Lexeme
  <2> QED
    BY <1>2, <2>1, Closes
<1>6. CASE x.kind = "colon"
  <2>1. Lexeme(p, x) = [p EXCEPT !.toksuper = Len(p.tokens)]
    BY <1>6 DEF Lexeme
  <2>2. [p EXCEPT !.toksuper = Len(T)] = At(T, O, Len(T))
    BY DEF At
  <2> QED
    BY <1>1, <1>2, <2>1, <2>2 DEF Makes
<1>7. CASE x.kind = "comma"
  <2>1. Lexeme(p, x) = Comma(p)
    BY <1>7 DEF Lexeme
  <2>2. [p EXCEPT !.toksuper = Innermost(O)] = At(T, O, Innermost(O))
    BY DEF At
  <2>3. p = State(T, O, s, "ok")
    BY StateIs
  <2> HIDE DEF p
  <2>4. Comma(p) = p \/ Comma(p) = [p EXCEPT !.toksuper = Innermost(O)]
    BY <1>1 DEF Comma
  <2> QED
    BY <1>2, <2>1, <2>2, <2>3, <2>4 DEF Makes, Results, p
<1>8. CASE x.kind \in {"string", "number"}
  <2>1. Lexeme(p, x) = Allocated(p, Token(x))
    BY <1>8 DEF Lexeme
  <2> QED
    BY <1>2, <2>1, Allocates DEF Makes, Results
<1>9. CASE x.kind \in {"unclosed", "unescapable"}
  <2>1. Lexeme(p, x) = Failed(p, "PART") \/ Lexeme(p, x) = Failed(p, "INVAL")
    BY <1>9 DEF Lexeme
  <2>2. Failed(p, "PART") = State(T, O, s, "PART") /\ Failed(p, "INVAL") = State(T, O, s, "INVAL")
    BY StateIs
  <2> QED
    BY <1>2, <2>1, <2>2 DEF Makes, Results
<1> QED
  BY <1>3, <1>4, <1>5, <1>6, <1>7, <1>8, <1>9 DEF Kinds

\* The tokens T are still there in U: those in P may have got children.
Grew(T, U, P) ==
  /\ U \in Seq(Tokens) /\ Len(T) <= Len(U)
  /\ \A i \in 1..Len(T) :
       U[i].lexeme = T[i].lexeme /\ U[i].size >= T[i].size /\ (i \in P \/ U[i] = T[i])

\* A parser that will leave it so: what it raises next is in P.
Holds(A, O, s, T, P) ==
  /\ Grew(T, A, P) /\ O \in Seq(Nat) /\ s \in 0..Len(A) /\ s \in {0} \cup P /\ Len(A) \in {0} \cup P
  /\ \A i \in 1..Len(O) : O[i] \in P /\ O[i] \in 1..Len(A)
Keeping(p, T, P) ==
  \E A, O, s, r : p = State(A, O, s, r) /\ Grew(T, A, P) /\ (r = "ok" => Holds(A, O, s, T, P))

\* P has every new token.
Loose(P, T) == P \subseteq Nat /\ \A n \in Nat : n > Len(T) => n \in P

\* Tokens stay when one is taken.
LEMMA GrewMore ==
  ASSUME NEW T \in Seq(Tokens), NEW P, NEW A, Grew(T, A, P), NEW s \in 0..Len(A), s \in {0} \cup P,
         NEW x \in Lexes
  PROVE  /\ Grew(T, Raised(A, s, 1) \o <<Token(x)>>, P)
         /\ Len(Raised(A, s, 1) \o <<Token(x)>>) = Len(A) + 1
<1> DEFINE R == Raised(A, s, 1)
           t == Token(x)
           U == R \o <<t>>
<1>0. A \in Seq(Tokens) /\ Len(A) \in Nat /\ Len(T) \in Nat /\ Len(T) <= Len(A) /\ t \in Tokens
  BY LenProperties, TokensOf DEF Grew
<1>1. /\ R \in Seq(Tokens) /\ Len(R) = Len(A)
      /\ \A i \in 1..Len(A) : R[i] = IF i = s THEN [lexeme |-> A[i].lexeme, size |-> A[i].size + 1] ELSE A[i]
  <2>1. 1 \in Nat
    OBVIOUS
  <2> QED
    BY <1>0, <2>1, RaisedIs, ZenonT(40)
<1> HIDE DEF R, t
<1>2. U \in Seq(Tokens) /\ Len(U) = Len(A) + 1 /\ \A i \in 1..Len(A) : U[i] = R[i]
  BY <1>0, <1>1, OneToken
<1> HIDE DEF U
<1>3. ASSUME NEW i \in 1..Len(T)
      PROVE  U[i].lexeme = T[i].lexeme /\ U[i].size >= T[i].size /\ (i \in P \/ U[i] = T[i])
  <2>1. i \in 1..Len(A) /\ i > 0
    BY <1>0
  <2>2. /\ A[i].lexeme = T[i].lexeme /\ A[i].size >= T[i].size /\ (i \in P \/ A[i] = T[i])
        /\ A[i].size \in Nat /\ T[i].size \in Nat
    <3>1. A[i] \in Tokens /\ T[i] \in Tokens
      BY <1>0, <2>1
    <3> QED
      BY <3>1 DEF Grew, Tokens
  <2>3. U[i] = IF i = s THEN [lexeme |-> A[i].lexeme, size |-> A[i].size + 1] ELSE A[i]
    BY <1>1, <1>2, <2>1
  <2>4. CASE i = s
    <3>1. i \in P
      BY <2>1, <2>4
    <3>2. U[i].lexeme = A[i].lexeme /\ U[i].size = A[i].size + 1
      BY <2>3, <2>4
    <3> QED
      BY <2>2, <3>1, <3>2, SMTT(40)
  <2>5. CASE i # s
    BY <2>2, <2>3, <2>5
  <2> QED
    BY <2>4, <2>5
<1>4. Len(T) <= Len(U)
  BY <1>0, <1>2
<1>5. Grew(T, U, P)
  BY <1>2, <1>3, <1>4 DEF Grew
<1> QED
  BY <1>2, <1>5 DEF U, R, t

\* The innermost open element, and what is open around it.
LEMMA InnermostIs ==
  ASSUME NEW O \in Seq(Nat)
  PROVE  /\ O = <<>> => Innermost(O) = 0
         /\ O # <<>> => Len(O) \in 1..Len(O) /\ Innermost(O) = O[Len(O)]
         /\ O # <<>> => LET Q == SubSeq(O, 1, Len(O) - 1)
                        IN Q \in Seq(Nat) /\ Len(Q) = Len(O) - 1 /\ \A i \in 1..Len(Q) : i \in 1..Len(O) /\ Q[i] = O[i]
<1>1. Len(O) \in Nat /\ (O # <<>> => Len(O) > 0)
  BY LenProperties, EmptySeq
<1>2. O # <<>> => Len(O) \in 1..Len(O)
  BY <1>1
<1>3. ASSUME O # <<>>
      PROVE  LET Q == SubSeq(O, 1, Len(O) - 1)
             IN Q \in Seq(Nat) /\ Len(Q) = Len(O) - 1 /\ \A i \in 1..Len(Q) : i \in 1..Len(O) /\ Q[i] = O[i]
  <2> DEFINE n == Len(O) - 1
             Q == SubSeq(O, 1, n)
  <2>1. n \in Nat /\ n <= Len(O) /\ \A i \in 1..n : i \in 1..Len(O)
    BY <1>1, <1>3
  <2> HIDE DEF n
  <2>2. Q \in Seq(Nat) /\ Len(Q) = n /\ \A i \in 1..n : Q[i] = O[i]
    BY <1>1, <2>1
  <2> HIDE DEF Q
  <2> QED
    BY <2>1, <2>2 DEF Q, n
<1> QED
  BY <1>2, <1>3 DEF Innermost

\* Whatever the next lexeme makes of it.
LEMMA HoldsStep ==
  ASSUME NEW T \in Seq(Tokens), NEW P, Loose(P, T), NEW A, NEW O, NEW s, Holds(A, O, s, T, P),
         NEW x \in Lexes
  PROVE  /\ Holds(A, O, Len(A), T, P) /\ Holds(A, O, Innermost(O), T, P)
         /\ Holds(Raised(A, s, 1) \o <<Token(x)>>, O, s, T, P)
         /\ Holds(Raised(A, s, 1) \o <<Token(x)>>, Append(O, Len(A) + 1), Len(A) + 1, T, P)
         /\ O # <<>> => LET Q == SubSeq(O, 1, Len(O) - 1) IN Holds(A, Q, Innermost(Q), T, P)
<1> DEFINE U == Raised(A, s, 1) \o <<Token(x)>>
           N == Append(O, Len(A) + 1)
<1>1. /\ Grew(T, A, P) /\ O \in Seq(Nat) /\ s \in 0..Len(A) /\ s \in {0} \cup P /\ Len(A) \in {0} \cup P
      /\ \A i \in 1..Len(O) : O[i] \in P /\ O[i] \in 1..Len(A)
  BY DEF Holds
<1>2. Len(A) \in Nat /\ Len(T) \in Nat /\ Len(T) <= Len(A) /\ Len(O) \in Nat
  <2>1. A \in Seq(Tokens) /\ Len(T) <= Len(A)
    BY <1>1 DEF Grew
  <2> QED
    BY <1>1, <2>1, LenProperties
<1>3. Grew(T, U, P) /\ Len(U) = Len(A) + 1
  BY <1>1, GrewMore
<1> HIDE DEF U
<1>4. Len(A) + 1 \in P
  BY <1>2 DEF Loose
<1>5. Innermost(O) \in 0..Len(A) /\ Innermost(O) \in {0} \cup P
  BY <1>1, <1>2, InnermostIs
<1>6. Holds(A, O, Len(A), T, P) /\ Holds(A, O, Innermost(O), T, P)
  BY <1>1, <1>2, <1>5 DEF Holds
<1>7. Holds(U, O, s, T, P)
  <2>1. s \in 0..Len(U) /\ \A i \in 1..Len(O) : O[i] \in P /\ O[i] \in 1..Len(U)
    BY <1>1, <1>2, <1>3
  <2> QED
    BY <1>1, <1>3, <1>4, <2>1 DEF Holds
<1>8. Holds(U, N, Len(A) + 1, T, P)
  <2>1. /\ N \in Seq(Nat) /\ Len(N) = Len(O) + 1 /\ N[Len(O) + 1] = Len(A) + 1
        /\ \A i \in 1..Len(O) : N[i] = O[i]
    BY <1>1, <1>2, AppendProperties
  <2> HIDE DEF N
  <2>2. ASSUME NEW i \in 1..Len(N)
        PROVE  N[i] \in P /\ N[i] \in 1..Len(U)
    <3>1. CASE i \in 1..Len(O)
      <4>1. N[i] \in P /\ N[i] \in 1..Len(A)
        BY <1>1, <2>1, <3>1
      <4> QED
        BY <1>2, <1>3, <4>1
    <3>2. CASE i = Len(O) + 1
      BY <1>2, <1>3, <1>4, <2>1, <3>2
    <3> QED
      BY <1>2, <2>1, <3>1, <3>2
  <2>3. Len(A) + 1 \in 0..Len(U) /\ Len(A) + 1 \in {0} \cup P /\ Len(U) \in {0} \cup P
    BY <1>2, <1>3, <1>4
  <2> QED
    BY <1>3, <2>1, <2>2, <2>3 DEF Holds
<1>9. ASSUME O # <<>>
      PROVE  LET Q == SubSeq(O, 1, Len(O) - 1) IN Holds(A, Q, Innermost(Q), T, P)
  <2> DEFINE Q == SubSeq(O, 1, Len(O) - 1)
  <2>1. Q \in Seq(Nat) /\ Len(Q) = Len(O) - 1 /\ \A i \in 1..Len(Q) : i \in 1..Len(O) /\ Q[i] = O[i]
    BY <1>1, <1>9, InnermostIs
  <2> HIDE DEF Q
  <2>2. \A i \in 1..Len(Q) : Q[i] \in P /\ Q[i] \in 1..Len(A)
    BY <1>1, <2>1
  <2>3. Innermost(Q) \in 0..Len(A) /\ Innermost(Q) \in {0} \cup P
    BY <1>2, <2>1, <2>2, InnermostIs
  <2> QED
    BY <1>1, <2>1, <2>2, <2>3 DEF Holds, Q
<1> QED
  BY <1>6, <1>7, <1>8, <1>9 DEF U

\* One more lexeme.
LEMMA StepKeeps ==
  ASSUME NEW T \in Seq(Tokens), NEW P, Loose(P, T), NEW p, Keeping(p, T, P), NEW x \in Lexes
  PROVE  Keeping(Parsed(p, x), T, P)
<1>1. PICK A, O, s, r : p = State(A, O, s, r) /\ Grew(T, A, P) /\ (r = "ok" => Holds(A, O, s, T, P))
  BY DEF Keeping
<1>2. p.result = r
  BY <1>1, StateIs
<1>3. CASE r # "ok"
  BY <1>2, <1>3 DEF Parsed
<1>4. CASE r = "ok"
  <2>0. Holds(A, O, s, T, P)
    BY <1>1, <1>4
  <2> DEFINE q == Parsed(p, x)
             U == Raised(A, s, 1) \o <<Token(x)>>
             Q == SubSeq(O, 1, Len(O) - 1)
             N == Append(O, Len(A) + 1)
  <2>1. p = At(A, O, s)
    BY <1>1, <1>4, StateIs
  <2>2. A \in Seq(Tokens) /\ s \in 0..Len(A)
    BY <2>0 DEF Holds, Grew
  <2>3. Makes(A, O, s, x, q)
    BY <2>1, <2>2, LexemeMakes
  <2>4. /\ Holds(A, O, Len(A), T, P) /\ Holds(A, O, Innermost(O), T, P) /\ Holds(U, O, s, T, P)
        /\ Holds(U, N, Len(A) + 1, T, P) /\ (O # <<>> => Holds(A, Q, Innermost(Q), T, P))
    BY <2>0, HoldsStep
  <2> HIDE DEF U, q, Q, N
  <2>5. ASSUME NEW B, NEW C, NEW z, Holds(B, C, z, T, P)
        PROVE  Keeping(At(B, C, z), T, P)
    <3>1. At(B, C, z) = State(B, C, z, "ok")
      BY StateIs
    <3>2. Grew(T, B, P)
      BY <2>5 DEF Holds
    <3> QED
      BY <2>5, <3>1, <3>2 DEF Keeping
  <2>6. \A e : Keeping(State(A, O, s, e), T, P)
    BY <1>1, <2>0 DEF Keeping
  <2>7. \/ \E e \in Results : q = State(A, O, s, e)
        \/ q = At(U, O, s)
        \/ q = At(U, N, Len(A) + 1)
        \/ O # <<>> /\ q = At(A, Q, Innermost(Q))
        \/ q = At(A, O, Len(A))
        \/ q = At(A, O, Innermost(O))
    BY <2>3 DEF Makes, U, Q, N
  <2>8. Keeping(q, T, P)
    BY <2>4, <2>5, <2>6, <2>7
  <2> QED
    BY <2>8 DEF q
<1> QED
  BY <1>3, <1>4

\* Any number of them.
LEMMA RunKeeps ==
  ASSUME NEW T \in Seq(Tokens), NEW P, Loose(P, T), NEW p, Keeping(p, T, P), NEW text \in Seq(Lexes)
  PROVE  Keeping(After(p, text), T, P)
<1> DEFINE f == States(p, text)
           N == Len(text)
           H == {n \in 0..N : Keeping(f[n], T, P)}
<1>0. N \in Nat
  BY LenProperties
<1>1. f[0] = p /\ \A i \in 0..(N - 1) : f[i + 1] = Parsed(f[i], text[i + 1])
  BY StatesAre
<1>2. \A i \in 0..(N - 1) : text[i + 1] \in Lexes
  BY <1>0
<1>3. After(p, text) = f[N]
  BY DEF After
<1> HIDE DEF f, N
<1>4. 0 \in H
  BY <1>0, <1>1
<1>5. ASSUME NEW n \in 0..(N - 1), n \in H
      PROVE  n + 1 \in H
  <2>1. Keeping(f[n], T, P)
    BY <1>5
  <2>2. text[n + 1] \in Lexes /\ f[n + 1] = Parsed(f[n], text[n + 1]) /\ n + 1 \in 0..N
    BY <1>0, <1>1, <1>2
  <2>3. Keeping(Parsed(f[n], text[n + 1]), T, P)
    BY <2>1, <2>2, StepKeeps
  <2> QED
    BY <2>2, <2>3
<1> HIDE DEF H
<1>6. 0..N \subseteq H
  BY <1>0, <1>4, <1>5, Inductive
<1>7. N \in H
  BY <1>0, <1>6
<1> QED
  BY <1>3, <1>7 DEF H

\* What a value in the root may raise: the root, and what comes after.
After1(G) == {1} \cup {n \in Nat : n > Len(G)}

\* The first token of the rest.
LEMMA FirstScalar ==
  ASSUME NEW G, Within(G, RootOpen), NEW x \in Lexes,
         x.kind \in {"string", "number", "unclosed", "unescapable"}
  PROVE  Keeping(Parsed(Inside(G, RootOpen), x), G, After1(G)) /\ Loose(After1(G), G)
<1> DEFINE P == After1(G)
           p == At(G, RootOpen, 1)
           U == Raised(G, 1, 1) \o <<Token(x)>>
           one == 1
<1>0. /\ G \in Seq(Tokens) /\ Len(G) \in Nat /\ one \in 1..Len(G) /\ one \in 0..Len(G) /\ one \in {0} \cup P
      /\ one \in P /\ RootOpen \in Seq(Nat)
      /\ Len(RootOpen) = 1 /\ RootOpen[1] = 1
  <2>1. G \in Seq(Tokens) /\ 1 \in 1..Len(G)
    BY RootParsed DEF Within
  <2> QED
    BY <2>1, LenProperties DEF RootOpen, After1
<1>1. Loose(P, G)
  BY <1>0 DEF Loose, After1
<1>2. Inside(G, RootOpen) = p /\ p.result = "ok" /\ p = State(G, RootOpen, 1, "ok")
  BY RootParsed, StateIs, AtIs DEF Inside
<1>3. Grew(G, G, P)
  <2>1. ASSUME NEW i \in 1..Len(G)
        PROVE  G[i].lexeme = G[i].lexeme /\ G[i].size >= G[i].size /\ (i \in P \/ G[i] = G[i])
    <3>1. G[i] \in Tokens
      BY <1>0
    <3> QED
      BY <3>1 DEF Tokens
  <2>2. Len(G) <= Len(G)
    BY <1>0
  <2> QED
    BY <1>0, <2>1, <2>2 DEF Grew
<1>4. Grew(G, U, P) /\ Len(U) = Len(G) + 1
  <2> HIDE DEF P, one
  <2>1. /\ Grew(G, Raised(G, one, 1) \o <<Token(x)>>, P)
        /\ Len(Raised(G, one, 1) \o <<Token(x)>>) = Len(G) + 1
    BY <1>0, <1>3, GrewMore
  <2> QED
    BY <2>1 DEF one
<1>5. Holds(U, RootOpen, 1, G, P)
  <2> HIDE DEF U
  <2>1. Len(U) \in P /\ 1 \in 0..Len(U) /\ 1 \in {0} \cup P /\ 1 \in P /\ 1 \in 1..Len(U)
    BY <1>0, <1>4 DEF After1
  <2>2. \A i \in 1..Len(RootOpen) : RootOpen[i] = 1
    BY <1>0
  <2> HIDE DEF P
  <2> QED
    BY <1>0, <1>4, <2>1, <2>2 DEF Holds
<1>6. \A e : e # "ok" => Keeping(State(G, RootOpen, 1, e), G, P)
  BY <1>3 DEF Keeping
<1>7. Keeping(At(U, RootOpen, 1), G, P)
  <2> HIDE DEF U, P
  <2>1. At(U, RootOpen, 1) = State(U, RootOpen, 1, "ok")
    BY StateIs
  <2> QED
    BY <1>4, <1>5, <2>1 DEF Keeping
<1>8. Parsed(p, x) = Lexeme(p, x)
  BY <1>2 DEF Parsed
<1>9. CASE x.kind \in {"string", "number"}
  <2>1. Lexeme(p, x) = Allocated(p, Token(x))
    BY <1>9 DEF Lexeme
  <2>2. Allocated(p, Token(x)) = At(U, RootOpen, 1) \/ Allocated(p, Token(x)) = State(G, RootOpen, 1, "NOMEM")
    <3> HIDE DEF one
    <3>1. \/ Allocated(At(G, RootOpen, one), Token(x)) = At(Raised(G, one, 1) \o <<Token(x)>>, RootOpen, one)
          \/ Allocated(At(G, RootOpen, one), Token(x)) = State(G, RootOpen, one, "NOMEM")
      BY <1>0, Allocates
    <3> QED
      BY <3>1 DEF one
  <2> HIDE DEF p, U, P
  <2> QED
    BY <1>1, <1>2, <1>6, <1>7, <1>8, <2>1, <2>2 DEF P
<1>10. CASE x.kind \in {"unclosed", "unescapable"}
  <2>1. Lexeme(p, x) = Failed(p, "PART") \/ Lexeme(p, x) = Failed(p, "INVAL")
    BY <1>10 DEF Lexeme
  <2>2. Failed(p, "PART") = State(G, RootOpen, 1, "PART") /\ Failed(p, "INVAL") = State(G, RootOpen, 1, "INVAL")
    BY StateIs
  <2> HIDE DEF p, P
  <2> QED
    BY <1>1, <1>2, <1>6, <1>8, <2>1, <2>2 DEF P
<1> QED
  BY <1>9, <1>10

\* What follows a comma leaves the tokens before it as they are, but for the root's count.
LEMMA TailKeeps ==
  ASSUME NEW text, NEW G, Reads(text, G), NEW x \in Lexes,
         x.kind \in {"string", "number", "unclosed", "unescapable"}, NEW tail \in Seq(Lexes)
  PROVE  Grew(G, After(jsmn_init, (text \o <<Mark("comma")>>) \o (<<x>> \o tail)).tokens, After1(G))
<1> DEFINE k == <<Mark("comma")>>
           c == Mark("comma")
           i == Inside(G, RootOpen)
           u == <<x>>
           P == After1(G)
<1>1. text \in Seq(Lexes) /\ Within(G, RootOpen)
  BY DEF Reads
<1>2. PICK s : After(jsmn_init, text) = At(G, RootOpen, s) /\ Settled(G, RootOpen, s)
  BY DEF Reads, ReadAs
<1>x. c \in Lexes
  BY LexesAre DEF Kinds
<1>3. Parsed(At(G, RootOpen, s), c) = i
  BY <1>1, <1>2, CommaParsed DEF Inside
<1>4. Keeping(Parsed(i, x), G, P) /\ Loose(P, G)
  BY <1>1, FirstScalar
<1> HIDE DEF c, i, P
<1>5. k \in Seq(Lexes) /\ u \in Seq(Lexes)
  BY <1>x, OneLexeme DEF c
<1>6. After(At(G, RootOpen, s), <<c>>) = i /\ After(i, <<x>>) = Parsed(i, x)
  BY <1>3, AfterOne
<1>7. k = <<c>>
  BY DEF c
<1> HIDE DEF k, u
<1>8. After(jsmn_init, text \o k) = i /\ text \o k \in Seq(Lexes) /\ u \o tail \in Seq(Lexes)
  <2>1. After(jsmn_init, text \o k) = After(After(jsmn_init, text), k)
    BY <1>1, <1>5, AfterBoth
  <2> QED
    BY <1>1, <1>2, <1>5, <1>6, <1>7, <2>1
<1>9. After(jsmn_init, (text \o k) \o (u \o tail)) = After(i, u \o tail)
  BY <1>8, AfterBoth
<1>10. After(i, u \o tail) = After(After(i, u), tail)
  BY <1>5, AfterBoth
<1>11. After(i, u) = Parsed(i, x)
  BY <1>6 DEF u
<1>12. Keeping(After(Parsed(i, x), tail), G, P)
  <2> DEFINE q == Parsed(i, x)
  <2>1. Keeping(q, G, P) /\ G \in Seq(Tokens)
    BY <1>1, <1>4 DEF Within
  <2> HIDE DEF q
  <2>2. Keeping(After(q, tail), G, P)
    BY <1>4, <2>1, RunKeeps
  <2> QED
    BY <2>2 DEF q
<1>13. Keeping(After(jsmn_init, (text \o k) \o (u \o tail)), G, P)
  BY <1>9, <1>10, <1>11, <1>12
<1> QED
  BY <1>13, StateIs DEF Keeping, k, u, P

\* A text gets tokens, and more of it more.
LEMMA TextGrows ==
  ASSUME NEW u \in Seq(Lexes), NEW v \in Seq(Lexes)
  PROVE  Grew(After(jsmn_init, u).tokens, After(jsmn_init, u \o v).tokens, Nat)
<1> DEFINE e == <<>>
           i == jsmn_init
<1>1. e \in Seq(Tokens) /\ Len(e) = 0 /\ e \in Seq(Nat)
  OBVIOUS
<1>2. i = State(e, e, 0, "ok")
  BY DEF jsmn_init, State
<1> HIDE DEF e, i
<1>3. Loose(Nat, e)
  BY DEF Loose
<1>4. Grew(e, e, Nat)
  BY <1>1 DEF Grew
<1>5. Holds(e, e, 0, e, Nat)
  BY <1>1, <1>4 DEF Holds
<1>6. Keeping(i, e, Nat)
  BY <1>2, <1>4, <1>5 DEF Keeping
<1>7. Keeping(After(i, u), e, Nat)
  BY <1>1, <1>3, <1>6, RunKeeps
<1>8. PICK A, O, s, r : After(i, u) = State(A, O, s, r) /\ Grew(e, A, Nat) /\ (r = "ok" => Holds(A, O, s, e, Nat))
  BY <1>7 DEF Keeping
<1>9. A \in Seq(Tokens) /\ Grew(A, A, Nat)
  <2>1. A \in Seq(Tokens)
    BY <1>8 DEF Grew
  <2>2. ASSUME NEW n \in 1..Len(A)
        PROVE  A[n].lexeme = A[n].lexeme /\ A[n].size >= A[n].size /\ (n \in Nat \/ A[n] = A[n])
    <3>1. A[n] \in Tokens
      BY <2>1
    <3> QED
      BY <3>1 DEF Tokens
  <2>3. Len(A) <= Len(A)
    BY <2>1, LenProperties
  <2> QED
    BY <2>1, <2>2, <2>3 DEF Grew
<1>10. r = "ok" => Holds(A, O, s, A, Nat)
  BY <1>8, <1>9 DEF Holds
<1>11. Keeping(After(i, u), A, Nat)
  BY <1>8, <1>9, <1>10 DEF Keeping
<1>12. Loose(Nat, A)
  BY DEF Loose
<1> DEFINE q == After(i, u)
<1>13. Keeping(After(q, v), A, Nat)
  <2> HIDE DEF q
  <2> QED
    BY <1>9, <1>11, <1>12, RunKeeps DEF q
<1>14. Grew(A, After(q, v).tokens, Nat)
  <2> HIDE DEF q
  <2> QED
    BY <1>13, StateIs DEF Keeping
<1>15. After(i, u).tokens = A
  BY <1>8, StateIs
<1>16. After(i, u \o v) = After(q, v)
  BY AfterBoth
<1> QED
  BY <1>14, <1>15, <1>16 DEF i

\* From the token j on none has a name of S.
Free(S, j, ts) == \A n \in 1..Len(ts) : n >= j => ts[n].lexeme.name \notin S

\* One lexeme adds nothing but itself.
LEMMA OneMoreFree ==
  ASSUME NEW u \in Seq(Lexes), NEW x \in Lexes, NEW S, x.name \notin S,
         NEW j \in Nat, Free(S, j, After(jsmn_init, u).tokens)
  PROVE  Free(S, j, After(jsmn_init, u \o <<x>>).tokens)
<1> DEFINE i == jsmn_init
           q == After(i, u)
           e == <<>>
<1>0. e \in Seq(Lexes) /\ u \o e = u /\ <<x>> \in Seq(Lexes)
  BY OneLexeme
<1> DEFINE w == <<x>>
<1>1. After(i, u \o w) = After(q, w) /\ After(q, w) = Parsed(q, x)
  <2>1. After(q, <<x>>) = Parsed(q, x)
    BY AfterOne
  <2> HIDE DEF w
  <2>2. After(i, u \o w) = After(After(i, u), w)
    BY <1>0, AfterBoth DEF w
  <2> QED
    BY <2>1, <2>2 DEF w
<1>2. PICK A, O, s, r : q = State(A, O, s, r) /\ A \in Seq(Tokens) /\ (r = "ok" => s \in 0..Len(A))
  <2>1. e \in Seq(Tokens) /\ Len(e) = 0 /\ e \in Seq(Nat)
    OBVIOUS
  <2>2. i = State(e, e, 0, "ok")
    BY DEF jsmn_init, State
  <2> HIDE DEF e, i
  <2>3. Loose(Nat, e)
    BY DEF Loose
  <2>4. Grew(e, e, Nat)
    BY <2>1 DEF Grew
  <2>5. Holds(e, e, 0, e, Nat)
    BY <2>1, <2>4 DEF Holds
  <2>6. Keeping(i, e, Nat)
    BY <2>2, <2>4, <2>5 DEF Keeping
  <2>7. Keeping(q, e, Nat)
    BY <2>1, <2>3, <2>6, RunKeeps
  <2> QED
    BY <2>7 DEF Keeping, Holds, Grew
<1> HIDE DEF q
<1>3. q.tokens = A /\ q.result = r
  BY <1>2, StateIs
<1>4. Free(S, j, A)
  BY <1>3 DEF q
<1>5. CASE r # "ok"
  <2>1. Parsed(q, x) = q
    BY <1>3, <1>5 DEF Parsed
  <2> QED
    BY <1>1, <1>3, <1>4, <2>1
<1>6. CASE r = "ok"
  <2> DEFINE R == Raised(A, s, 1)
             t == Token(x)
             U == R \o <<t>>
  <2>1. q = At(A, O, s) /\ s \in 0..Len(A)
    BY <1>2, <1>6, StateIs
  <2>2. Makes(A, O, s, x, Parsed(q, x))
    BY <1>2, <2>1, LexemeMakes
  <2>3. /\ R \in Seq(Tokens) /\ Len(R) = Len(A)
        /\ \A n \in 1..Len(A) : R[n] = IF n = s THEN [lexeme |-> A[n].lexeme, size |-> A[n].size + 1] ELSE A[n]
    <3>1. 1 \in Nat
      OBVIOUS
    <3> QED
      BY <1>2, <2>1, <3>1, RaisedIs
  <2>4. t \in Tokens /\ t.lexeme = x
    BY TokensOf
  <2>5. Parsed(q, x).tokens = A \/ Parsed(q, x).tokens = U
    <3> HIDE DEF R, t
    <3> DEFINE X == Parsed(q, x)
    <3> HIDE DEF X
    <3>1. \/ \E f \in Results : X = State(A, O, s, f)
          \/ \E B, z : X = At(U, B, z)
          \/ \E B, z : X = At(A, B, z)
      BY <2>2 DEF Makes, X, R, t
    <3> HIDE DEF U
    <3> QED
      BY <3>1, AtIs, StateIs DEF X
  <2> HIDE DEF R, t
  <2>6. U \in Seq(Tokens) /\ Len(U) = Len(A) + 1 /\ U[Len(A) + 1] = t /\ \A n \in 1..Len(A) : U[n] = R[n]
    BY <2>3, <2>4, OneToken
  <2> HIDE DEF U
  <2>7. Free(S, j, U)
    <3>1. ASSUME NEW n \in 1..Len(U), n >= j
          PROVE  U[n].lexeme.name \notin S
      <4>1. CASE n \in 1..Len(A)
        <5>1. U[n].lexeme = A[n].lexeme
          <6>1. U[n] = R[n] /\ R[n] = IF n = s THEN [lexeme |-> A[n].lexeme, size |-> A[n].size + 1] ELSE A[n]
            BY <2>3, <2>6, <4>1
          <6>2. R[n].lexeme = A[n].lexeme
            BY <6>1
          <6> QED
            BY <6>1, <6>2
        <5> QED
          BY <1>4, <3>1, <4>1, <5>1 DEF Free
      <4>2. CASE n = Len(A) + 1
        BY <2>4, <2>6, <4>2
      <4> QED
        BY <1>2, <2>6, <4>1, <4>2, LenProperties
    <3> QED
      BY <3>1 DEF Free
  <2> QED
    BY <1>1, <1>4, <2>5, <2>7
<1> QED
  BY <1>5, <1>6

\* A lexeme that is not a ROM's name brings none.
LEMMA OneMoreRomless ==
  ASSUME NEW u \in Seq(Lexes), NEW x \in Lexes, x.name \notin Roms,
         Romless(After(jsmn_init, u).tokens)
  PROVE  Romless(After(jsmn_init, u \o <<x>>).tokens)
<1> DEFINE A == After(jsmn_init, u).tokens
           U == After(jsmn_init, u \o <<x>>).tokens
           zero == 0
<1>1. zero \in Nat /\ Free(Roms, zero, A)
  BY DEF Romless, Free
<1> HIDE DEF zero
<1>2. Free(Roms, zero, U)
  BY <1>1, OneMoreFree
<1> HIDE DEF U
<1>3. \A n \in 1..Len(U) : U[n].lexeme.name \notin Roms
  BY <1>2 DEF Free, zero
<1> QED
  BY <1>3 DEF Romless, U

\* The root and what is in it.
LEMMA HeadedIs ==
  ASSUME NEW c \in Nat, NEW ts \in Seq(Tokens)
  PROVE  /\ Headed(c, ts) \in Seq(Tokens) /\ Len(Headed(c, ts)) = 1 + Len(ts) /\ Len(ts) \in Nat
         /\ Headed(c, ts)[1] = Sized(Mark("object"), c)
         /\ \A i \in 1..Len(ts) : Headed(c, ts)[i + 1] = ts[i]
<1> DEFINE k == Sized(Mark("object"), c)
           s == <<k>>
<1>1. k \in Tokens
  <2>1. Mark("object") \in Lexes
    BY LexesAre DEF Kinds
  <2> QED
    BY <2>1 DEF Sized, Tokens
<1> HIDE DEF k
<1>2. s \in Seq(Tokens) /\ Len(s) = 1 /\ s[1] = k
  BY <1>1
<1> HIDE DEF s
<1>3. /\ s \o ts \in Seq(Tokens) /\ Len(s \o ts) = Len(s) + Len(ts) /\ Len(ts) \in Nat
      /\ \A i \in 1..Len(s) : (s \o ts)[i] = s[i]
      /\ \A i \in 1..Len(ts) : (s \o ts)[Len(s) + i] = ts[i]
  BY <1>2, TokensBoth
<1>4. \A i \in 1..Len(ts) : (s \o ts)[i + 1] = ts[i]
  <2>1. ASSUME NEW i \in 1..Len(ts) PROVE (s \o ts)[i + 1] = ts[i]
    <3>1. (s \o ts)[Len(s) + i] = ts[i] /\ Len(s) + i = i + 1
      BY <1>2, <1>3
    <3> QED
      BY <3>1
  <2> QED
    BY <2>1
<1>5. (s \o ts)[1] = k
  BY <1>2, <1>3
<1>6. Headed(c, ts) = s \o ts
  BY DEF Headed, s, k
<1> QED
  BY <1>2, <1>3, <1>4, <1>5, <1>6 DEF k

\* What find_token finds.
LEMMA FindIs ==
  ASSUME NEW T \in Seq(Tokens), NEW name
  PROVE  /\ (\A i \in 2..Len(T) : ~IsKey(T[i], name)) => find_token(T, name) = Missing
         /\ (\E i \in 2..Len(T) : IsKey(T[i], name)) =>
              \E i \in 2..Len(T) :
                /\ IsKey(T[i], name) /\ find_token(T, name) = 1 + i
                /\ \A j \in 2..Len(T) : IsKey(T[j], name) => i <= j
<1> DEFINE K == { i \in 2..Len(T) : IsKey(T[i], name) }
           least == CHOOSE i \in K : \A j \in K : i <= j
<1>0. Len(T) \in Nat
  BY LenProperties
<1>1. find_token(T, name) = IF K = {} THEN Missing ELSE 1 + least
  BY DEF find_token
<1>2. ASSUME K # {} PROVE least \in K /\ \A j \in K : least <= j
  <2>1. K \in SUBSET Nat
    BY <1>0
  <2> HIDE DEF K
  <2>2. \E i \in K : \A j \in K : i <= j
    BY <1>2, <2>1, Least
  <2> QED
    BY <2>2
<1> HIDE DEF least
<1>3. CASE K = {}
  <2>1. \A i \in 2..Len(T) : ~IsKey(T[i], name)
    BY <1>3
  <2> QED
    BY <1>1, <1>3, <2>1
<1>4. CASE K # {}
  <2>1. /\ least \in 2..Len(T) /\ IsKey(T[least], name)
        /\ \A j \in 2..Len(T) : IsKey(T[j], name) => least <= j
    BY <1>2, <1>4
  <2>2. find_token(T, name) = 1 + least
    BY <1>1, <1>4
  <2> QED
    BY <2>1, <2>2
<1> QED
  BY <1>3, <1>4

\* A restore hears what the file says of a name.
Hears(T, name, us) ==
  /\ find_token(T, name) # Missing
  /\ \A k \in 1..Len(us) : T[find_token(T, name) + k - 1] = us[k]

\* What stays of the root's tokens.
LEMMA GrewHeaded ==
  ASSUME NEW c \in Nat, NEW ts \in Seq(Tokens), NEW T,
         Grew(Headed(c, ts), T, After1(Headed(c, ts)))
  PROVE  /\ T \in Seq(Tokens) /\ Len(T) >= 1 + Len(ts) /\ Len(T) \in Nat /\ Len(ts) \in Nat
         /\ T[1].size >= c
         /\ \A i \in 1..Len(ts) : T[i + 1] = ts[i]
<1> DEFINE G == Headed(c, ts)
           k == Sized(Mark("object"), c)
<1>1. /\ G \in Seq(Tokens) /\ Len(G) = 1 + Len(ts) /\ Len(ts) \in Nat /\ G[1] = k
      /\ \A i \in 1..Len(ts) : G[i + 1] = ts[i]
  BY HeadedIs
<1>2. k.size = c
  BY DEF Sized
<1> HIDE DEF G, k
<1>3. T \in Seq(Tokens) /\ Len(G) <= Len(T) /\ Len(T) \in Nat
  BY LenProperties DEF Grew, G
<1>4. T[1].size >= c
  <2>1. 1 \in 1..Len(G)
    BY <1>1
  <2>2. T[1].size >= G[1].size
    BY <2>1 DEF Grew, G
  <2> QED
    BY <1>1, <1>2, <2>2
<1>5. ASSUME NEW i \in 1..Len(ts) PROVE T[i + 1] = ts[i]
  <2>1. i + 1 \in 1..Len(G) /\ i + 1 \notin After1(G)
    BY <1>1 DEF After1
  <2>2. T[i + 1] = G[i + 1]
    BY <2>1 DEF Grew, G
  <2> QED
    BY <1>1, <2>2
<1> QED
  BY <1>1, <1>3, <1>4, <1>5

\* A name in the front is found there, with its value.
LEMMA Found ==
  ASSUME NEW c \in Nat, NEW ts \in Seq(Tokens), NEW T,
         Grew(Headed(c, ts), T, After1(Headed(c, ts))),
         NEW V \in Saying, Truthful(V, ts), NEW name \in Known, Named(ts, name)
  PROVE  Hears(T, name, V[name])
<1>1. /\ T \in Seq(Tokens) /\ Len(T) >= 1 + Len(ts) /\ Len(T) \in Nat /\ Len(ts) \in Nat
      /\ \A i \in 1..Len(ts) : T[i + 1] = ts[i]
  BY GrewHeaded
<1>2. PICK i \in 1..Len(ts) : ts[i] = Key(name)
  BY DEF Named
<1>3. name \in Names
  BY DEF Names
<1>4. IsKey(Key(name), name)
  <2>1. Key(name).lexeme = Str(name) /\ Key(name).size = 1
    BY <1>3, TokensOf
  <2>2. Str(name).kind = "string" /\ Str(name).name = name
    BY <1>3, LexesAre
  <2> QED
    BY <2>1, <2>2 DEF IsKey
<1>5. i + 1 \in 2..Len(T) /\ IsKey(T[i + 1], name)
  BY <1>1, <1>2, <1>4
<1>6. PICK j \in 2..Len(T) :
        /\ IsKey(T[j], name) /\ find_token(T, name) = 1 + j
        /\ \A n \in 2..Len(T) : IsKey(T[n], name) => j <= n
  BY <1>1, <1>5, FindIs
<1> DEFINE h == j - 1
<1>7. h \in 1..Len(ts) /\ j = h + 1 /\ j \in Nat
  BY <1>1, <1>5, <1>6
<1> HIDE DEF h
<1>8. ts[h] = T[j]
  BY <1>1, <1>7
<1>9. IsNamed(ts[h]) /\ ts[h].lexeme.name = name
  BY <1>6, <1>8 DEF IsKey, IsNamed
<1>10. Follows(V[name], ts, h)
  BY <1>7, <1>9 DEF Truthful, Honest
<1>11. V[name] \in Seq(Tokens) /\ Len(V[name]) \in Nat
  BY LenProperties DEF Saying
<1>12. find_token(T, name) # Missing
  BY <1>6, <1>7 DEF Missing
<1>13. ASSUME NEW k \in 1..Len(V[name])
       PROVE  T[find_token(T, name) + k - 1] = V[name][k]
  <2> DEFINE us == V[name]
             n == h + k
  <2>1. h + Len(us) <= Len(ts) /\ ts[h + k] = us[k]
    BY <1>10, <1>13 DEF Follows
  <2>2. n \in 1..Len(ts) /\ find_token(T, name) + k - 1 = n + 1
    BY <1>1, <1>6, <1>7, <1>11, <1>13, <2>1
  <2> HIDE DEF n
  <2>3. T[n + 1] = ts[n]
    BY <1>1, <2>2
  <2> QED
    BY <2>1, <2>2, <2>3 DEF n
<1> QED
  BY <1>12, <1>13 DEF Hears

\* Neither the ROM nor its name is found where it is not.
LEMMA NoRom ==
  ASSUME NEW T \in Seq(Tokens), NEW name \in Roms,
         \A i \in 2..Len(T) : T[i].lexeme.name \in Roms => T[i].size # 1
  PROVE  find_token(T, name) = Missing
<1>1. ASSUME NEW i \in 2..Len(T) PROVE ~IsKey(T[i], name)
  BY DEF IsKey
<1> QED
  BY <1>1, FindIs

\* The ROM, or its name, after the rest.
LEMMA FoundRom ==
  ASSUME NEW c \in Nat, NEW ts \in Seq(Tokens), Romless(ts), NEW name \in Roms, NEW t \in Tokens,
         NEW T, Grew(Headed(c, ts \o (<<Key(name)>> \o <<t>>)), T,
                     After1(Headed(c, ts \o (<<Key(name)>> \o <<t>>))))
  PROVE  find_token(T, name) # Missing /\ T[find_token(T, name)] = t
<1> DEFINE k == Key(name)
           a == <<k>>
           b == <<t>>
           us == ts \o (a \o b)
           n == Len(ts)
<1>1. name \in Names
  BY DEF Roms, Names
<1>2. k \in Tokens /\ IsKey(k, name)
  <2>1. Key(name).lexeme = Str(name) /\ Key(name).size = 1 /\ Key(name) \in Tokens
    BY <1>1, TokensOf
  <2>2. Str(name).kind = "string" /\ Str(name).name = name
    BY <1>1, LexesAre
  <2> QED
    BY <2>1, <2>2 DEF IsKey
<1> HIDE DEF k
<1>3. a \in Seq(Tokens) /\ b \in Seq(Tokens) /\ Len(a) = 1 /\ Len(b) = 1 /\ a[1] = k /\ b[1] = t
  BY <1>2
<1>c. Grew(Headed(c, us), T, After1(Headed(c, us)))
  BY DEF k
<1> HIDE DEF a, b
<1>4. /\ a \o b \in Seq(Tokens) /\ Len(a \o b) = Len(a) + Len(b)
      /\ \A i \in 1..Len(a) : (a \o b)[i] = a[i]
      /\ \A i \in 1..Len(b) : (a \o b)[Len(a) + i] = b[i]
  BY <1>3, TokensBoth
<1> DEFINE w == a \o b
<1>5. w \in Seq(Tokens) /\ Len(w) = 2 /\ w[1] = k /\ w[2] = t
  BY <1>3, <1>4
<1> HIDE DEF w
<1>6. /\ ts \o w \in Seq(Tokens) /\ Len(ts \o w) = Len(ts) + Len(w) /\ Len(ts) \in Nat
      /\ \A i \in 1..Len(ts) : (ts \o w)[i] = ts[i]
      /\ \A i \in 1..Len(w) : (ts \o w)[Len(ts) + i] = w[i]
  BY <1>5, TokensBoth
<1>7. /\ us \in Seq(Tokens) /\ Len(us) = n + 2 /\ n \in Nat /\ us[n + 1] = k /\ us[n + 2] = t
      /\ \A i \in 1..n : us[i] = ts[i]
  BY <1>5, <1>6 DEF w
<1> HIDE DEF us
<1>8. /\ T \in Seq(Tokens) /\ Len(T) >= 1 + Len(us) /\ Len(T) \in Nat
      /\ \A i \in 1..Len(us) : T[i + 1] = us[i]
  BY <1>7, <1>c, GrewHeaded
<1> HIDE DEF n
<1>9. n + 2 \in 2..Len(T) /\ T[n + 2] = k /\ T[n + 3] = t
  <2>1. n + 1 \in 1..Len(us) /\ n + 2 \in 1..Len(us) /\ (n + 1) + 1 = n + 2 /\ (n + 2) + 1 = n + 3
    BY <1>7
  <2>2. T[(n + 1) + 1] = us[n + 1] /\ T[(n + 2) + 1] = us[n + 2]
    BY <1>8, <2>1
  <2> QED
    BY <1>7, <1>8, <2>1, <2>2
<1>10. PICK j \in 2..Len(T) :
        /\ IsKey(T[j], name) /\ find_token(T, name) = 1 + j
        /\ \A i \in 2..Len(T) : IsKey(T[i], name) => j <= i
  BY <1>2, <1>8, <1>9, FindIs
<1>11. j >= n + 2
  <2> SUFFICES ASSUME j < n + 2 PROVE FALSE
    BY <1>7, <1>8, <1>10
  <2> DEFINE h == j - 1
  <2>1. h \in 1..n /\ h \in 1..Len(us) /\ j = h + 1
    BY <1>7, <1>8, <1>10
  <2> HIDE DEF h
  <2>2. T[j] = ts[h]
    BY <1>7, <1>8, <2>1
  <2>3. ts[h].lexeme.name \notin Roms
    BY <2>1 DEF Romless, n
  <2> QED
    BY <1>10, <2>2, <2>3 DEF IsKey
<1>12. j = n + 2
  BY <1>2, <1>7, <1>8, <1>9, <1>10, <1>11
<1>13. find_token(T, name) = n + 3
  BY <1>7, <1>10, <1>12
<1> QED
  BY <1>7, <1>9, <1>13 DEF Missing

CommaSeq == <<Mark("comma")>>
RomKey(name) == IF name = NoName THEN "rom" ELSE "rom_name"
RomValue(m, name, beyond) ==
  IF name = NoName THEN Blob(encode_blob(m["rom"], ROM_BYTES, beyond))
  ELSE IF name = "unescapable" THEN Unescapable ELSE Str(name)

\* The memories of a machine can be written, next to those bytes.
Writable(m, beyond) ==
  Fitting(m) /\ Blobs(m, beyond) /\ encode_blob(m["rom"], ROM_BYTES, beyond) \in Seq(Int)
Named1(name) == name \in {save[1] : save \in Saves} \cup {NoName}

\* A name, a colon and a value.
LEMMA MemberIs ==
  ASSUME NEW name \in Names, NEW x \in Lexes
  PROVE  /\ Member(name, <<x>>) = <<Str(name)>> \o (<<Mark("colon")>> \o <<x>>)
         /\ Member(name, <<x>>) \in Seq(Lexes) /\ Len(Member(name, <<x>>)) = 3
         /\ Member(name, <<x>>)[1] = Str(name) /\ Member(name, <<x>>)[2] = Mark("colon")
         /\ Member(name, <<x>>)[3] = x
         /\ <<Str(name)>> \in Seq(Lexes) /\ <<Mark("colon")>> \o <<x>> \in Seq(Lexes)
<1> DEFINE s == Str(name)
           c == Mark("colon")
           S == <<s>>
           C == <<c>>
           X == <<x>>
           M == Member(name, <<x>>)
<1>1. s \in Lexes /\ c \in Lexes
  BY LexesAre DEF Kinds
<1> HIDE DEF s, c
<1>2. M = <<s, c>> \o X
  BY DEF Member, s, c
<1>3. S \in Seq(Lexes) /\ C \in Seq(Lexes) /\ X \in Seq(Lexes)
      /\ Len(S) = 1 /\ Len(C) = 1 /\ Len(X) = 1 /\ S[1] = s /\ C[1] = c /\ X[1] = x
  BY <1>1
<1>4. <<s, c>> = S \o C
  BY <1>1, TwoLexemes
<1> HIDE DEF S, C, X, M
<1>5. (S \o C) \o X = S \o (C \o X)
  BY <1>3, LexesCat
<1>6. C \o X \in Seq(Lexes) /\ Len(C \o X) = 2 /\ (C \o X)[1] = c /\ (C \o X)[2] = x
  BY <1>3, ConcatProperties
<1> DEFINE D == C \o X
<1> HIDE DEF D
<1>7. S \o D \in Seq(Lexes) /\ Len(S \o D) = 3 /\ (S \o D)[1] = s /\ (S \o D)[2] = c /\ (S \o D)[3] = x
  BY <1>3, <1>6, ConcatProperties DEF D
<1>8. M = S \o D
  BY <1>2, <1>4, <1>5 DEF D
<1> QED
  BY <1>3, <1>6, <1>7, <1>8 DEF S, C, X, D, M, s, c

\* The end of a file.
LEMMA RomIs ==
  ASSUME NEW m, NEW beyond, Writable(m, beyond), NEW name, Named1(name)
  PROVE  /\ dump_rom(m, name, beyond) = Member(RomKey(name), <<RomValue(m, name, beyond)>>)
         /\ RomKey(name) \in Names /\ RomKey(name) \in Roms /\ RomValue(m, name, beyond) \in Lexes
         /\ RomValue(m, name, beyond).kind \in {"string", "unescapable"}
         /\ name # "unescapable" => RomValue(m, name, beyond).kind = "string"
<1>1. RomKey(name) \in Names /\ RomKey(name) \in Roms
  BY DEF RomKey, Roms, Names
<1>2. CASE name = NoName
  <2> DEFINE b == encode_blob(m["rom"], ROM_BYTES, beyond)
  <2>1. b \in Seq(Int)
    BY DEF Writable
  <2> HIDE DEF b
  <2>2. Blob(b) \in Lexes /\ Blob(b).kind = "string"
    BY <2>1, LexesAre
  <2>3. dump_rom(m, name, beyond) = Member("rom", <<Blob(b)>>)
    BY <1>2 DEF dump_rom, WriteBlob, b
  <2> QED
    BY <1>1, <1>2, <2>2, <2>3 DEF RomKey, RomValue, b
<1>3. CASE name # NoName
  <2>1. dump_rom(m, name, beyond) = Member("rom_name", <<RomValue(m, name, beyond)>>)
    BY <1>3 DEF dump_rom, RomValue
  <2>2. Str(name) \in Lexes /\ Str(name).kind = "string"
    <3>1. name \in Names
      BY <1>3 DEF Named1, Names
    <3> QED
      BY <3>1, LexesAre
  <2>3. Unescapable \in Lexes /\ Unescapable.kind = "unescapable"
    BY LexesAre DEF Unescapable, Kinds
  <2> QED
    BY <1>1, <1>3, <2>1, <2>2, <2>3 DEF RomKey, RomValue
<1> QED
  BY <1>2, <1>3

\* A file is its opening, the ROM, and the rest.
UpToRom(m, name, beyond) == (Opening(m, beyond) \o CommaSeq) \o dump_rom(m, name, beyond)

\* A text in which nothing is called rom.
Quiet(w) == \A i \in 1..Len(w) : w[i].name # "rom"

\* One lexeme is quiet if it is not called so.
LEMMA QuietOne ==
  ASSUME NEW x, x.name # "rom"
  PROVE  Quiet(<<x>>)
<1> DEFINE w == <<x>>
<1>1. Len(w) = 1 /\ w[1] = x
  OBVIOUS
<1> HIDE DEF w
<1>2. Quiet(w)
  BY <1>1 DEF Quiet
<1> QED
  BY <1>2 DEF w

\* Two quiet texts make a quiet one.
LEMMA QuietBoth ==
  ASSUME NEW s \in Seq(Lexes), NEW t \in Seq(Lexes), Quiet(s), Quiet(t)
  PROVE  Quiet(s \o t)
<1>1. /\ Len(s \o t) = Len(s) + Len(t) /\ Len(s) \in Nat /\ Len(t) \in Nat
      /\ \A i \in 1..(Len(s) + Len(t)) : (s \o t)[i] = IF i <= Len(s) THEN s[i] ELSE t[i - Len(s)]
  BY ConcatProperties, LenProperties
<1>2. ASSUME NEW i \in 1..(Len(s) + Len(t))
      PROVE  (s \o t)[i].name # "rom"
  <2>1. CASE i <= Len(s)
    <3>1. i \in 1..Len(s) /\ (s \o t)[i] = s[i]
      BY <1>1, <2>1
    <3> QED
      BY <3>1 DEF Quiet
  <2>2. CASE ~(i <= Len(s))
    <3> DEFINE j == i - Len(s)
    <3>1. j \in 1..Len(t) /\ (s \o t)[i] = t[j]
      BY <1>1, <2>2
    <3> HIDE DEF j
    <3> QED
      BY <3>1 DEF Quiet
  <2> QED
    BY <2>1, <2>2
<1> QED
  BY <1>1, <1>2 DEF Quiet

\* A quiet text is quiet however early it ends.
LEMMA QuietCut ==
  ASSUME NEW s \in Seq(Lexes), Quiet(s), NEW n \in 0..Len(s)
  PROVE  Quiet(SubSeq(s, 1, n))
<1>0. 1 \in Int /\ n \in Int /\ Len(s) \in Nat /\ \A j \in 1..n : s[j] \in Lexes
  BY LenProperties
<1>1. /\ Len(SubSeq(s, 1, n)) = n
      /\ \A i \in 1..n : SubSeq(s, 1, n)[i] = s[i]
  <2>1. /\ Len(SubSeq(s, 1, n)) = IF 1 <= n THEN n - 1 + 1 ELSE 0
        /\ \A i \in 1..(n - 1 + 1) : SubSeq(s, 1, n)[i] = s[1 + i - 1]
    BY <1>0, SubSeqProperties
  <2>2. n - 1 + 1 = n /\ \A i \in 1..n : 1 + i - 1 = i
    BY <1>0
  <2> QED
    BY <1>0, <2>1, <2>2
<1>2. \A i \in 1..n : s[i].name # "rom"
  BY <1>0 DEF Quiet
<1> QED
  BY <1>1, <1>2 DEF Quiet

\* What is before and after the ROM in a file.
LEMMA JoinedSplit ==
  ASSUME NEW m, NEW beyond, Writable(m, beyond), NEW name, Named1(name)
  PROVE  /\ Opening(m, beyond) \in Seq(Lexes) /\ UpToRom(m, name, beyond) \in Seq(Lexes)
         /\ CommaSeq \in Seq(Lexes) /\ dump_rom(m, name, beyond) \in Seq(Lexes)
         /\ \E tail \in Seq(Lexes) :
              /\ Quiet(tail)
              /\ ss_save(m, name, beyond)
                = (UpToRom(m, name, beyond) \o CommaSeq) \o (<<Str("emu_version")>> \o tail)
<1> DEFINE P == FrontParts(m, beyond)
           R == dump_rom(m, name, beyond)
           x == Str("version")
           y == Str("DEVEL")
           E == Member("emu_version", <<x>>)
           S == Member("sav_version", <<y>>)
           K == <<Mark("comma")>>
           k == Mark("comma")
           O == <<Mark("object")>>
           o == Mark("object")
           c == Mark("object_end")
           C == <<Mark("object_end")>>
           e == Str("emu_version")
           L == Seq(Lexes)
<1>1. k \in Lexes /\ o \in Lexes /\ c \in Lexes /\ x \in Lexes /\ y \in Lexes /\ e \in Lexes
  BY LexesAre DEF Kinds, Names
<1>2. R \in L
  <2> DEFINE v == RomValue(m, name, beyond)
             n == RomKey(name)
  <2>1. R = Member(n, <<v>>) /\ n \in Names /\ v \in Lexes
    BY RomIs
  <2> HIDE DEF n, v, R
  <2>2. Member(n, <<v>>) \in L
    BY <2>1, MemberIs
  <2> QED
    BY <2>1, <2>2
<1>q. Quiet(<<k>>) /\ Quiet(<<c>>) /\ Quiet(<<x>>) /\ Quiet(<<y>>) /\ Quiet(<<Mark("colon")>>)
      /\ Quiet(<<Str("sav_version")>>)
  <2>1. k.name # "rom" /\ c.name # "rom" /\ x.name # "rom" /\ y.name # "rom"
        /\ Mark("colon").name # "rom" /\ Str("sav_version").name # "rom"
    BY DEF Mark, Str
  <2> HIDE DEF k, c, x, y
  <2> QED
    BY <2>1, QuietOne
<1>qq. \A n \in L, p \in L : Quiet(n) /\ Quiet(p) => Quiet(n \o p)
  BY QuietBoth
<1>3. \E E2 \in L : E \in L /\ <<e>> \in L /\ E = <<e>> \o E2 /\ Quiet(E2)
  <2> HIDE DEF x
  <2> DEFINE D == <<Mark("colon")>> \o <<x>>
  <2>1. "emu_version" \in Names
    BY DEF Names
  <2>2. E = <<Str("emu_version")>> \o D /\ E \in L /\ <<Str("emu_version")>> \in L /\ D \in L
    BY <1>1, <2>1, MemberIs
  <2>3. Quiet(D)
    <3> DEFINE a == <<Mark("colon")>>
               b == <<x>>
    <3>1. a \in L /\ b \in L
      <4>1. Mark("colon") \in Lexes
        BY LexesAre DEF Kinds
      <4> QED
        BY <1>1, <4>1, OneLexeme
    <3> HIDE DEF L
    <3> QED
      BY <1>q, <1>qq, <3>1
  <2> HIDE DEF D, E
  <2> QED
    BY <2>2, <2>3
<1>4. S \in L /\ Quiet(S)
  <2> HIDE DEF y
  <2> DEFINE D == <<Mark("colon")>> \o <<y>>
             q == <<Str("sav_version")>>
  <2>1. "sav_version" \in Names
    BY DEF Names
  <2>2. S \in L /\ S = q \o D
    BY <1>1, <2>1, MemberIs
  <2>3. D \in L /\ Quiet(D)
    <3> DEFINE a == <<Mark("colon")>>
               b == <<y>>
    <3>1. a \in L /\ b \in L
      <4>1. Mark("colon") \in Lexes
        BY LexesAre DEF Kinds
      <4> QED
        BY <1>1, <4>1, OneLexeme
    <3>2. Quiet(a) /\ Quiet(b)
      BY <1>q
    <3> HIDE DEF a, b
    <3>3. a \o b \in L
      BY <3>1
    <3> HIDE DEF L
    <3>4. Quiet(a \o b)
      BY <1>qq, <3>1, <3>2
    <3> QED
      BY <3>3, <3>4 DEF a, b
  <2>4. q \in L
    <3>1. Str("sav_version") \in Lexes
      BY <2>1, LexesAre
    <3> QED
      BY <3>1, OneLexeme
  <2>5. Quiet(q)
    BY <1>q
  <2> HIDE DEF D, q, S, L
  <2> QED
    BY <1>qq, <2>2, <2>3, <2>4, <2>5
<1>5. P \in Seq(L) /\ P # <<>>
  <2>1. Lists(Says(m, beyond), P, 8, 140, FrontNames)
    BY FrontLists DEF Writable
  <2> HIDE DEF P
  <2> QED
    BY <2>1 DEF Lists
<1>6. ss_save(m, name, beyond) = (O \o Joined(Append(Append(Append(P, R), E), S))) \o C
  <2> DEFINE a == dump_rom_mapper(m)
             b == dump_io(m)
             d == dump_peripheral(m)
             f == dump_psg(m)
             g == dump_z80(m)
             h == dump_vdp
             i == WriteBlob(m, "ram", RAM_BYTES, beyond)
             j == WriteBlob(m, "vram", VRAM_BYTES, beyond)
             all == <<a, b, d, f, g, h, i, j, R, E, S>>
  <2>1. ss_save(m, name, beyond) = Bracketed("object", all, "object_end")
    BY DEF ss_save
  <2>2. P = <<a, b, d, f, g, h, i, j>>
    BY DEF FrontParts
  <2> HIDE DEF a, b, d, f, g, h, i, j, R, E, S, P
  <2>3. all = Append(Append(Append(<<a, b, d, f, g, h, i, j>>, R), E), S)
    OBVIOUS
  <2> HIDE DEF all
  <2>4. Bracketed("object", all, "object_end") = (O \o Joined(all)) \o C
    BY DEF Bracketed
  <2> QED
    BY <2>1, <2>2, <2>3, <2>4
<1>k. CommaSeq = K
  BY DEF CommaSeq
<1>7. K \in L /\ O \in L /\ C \in L
  <2> HIDE DEF k, o, c
  <2>1. <<k>> \in L /\ <<o>> \in L /\ <<c>> \in L
    BY <1>1, OneLexeme
  <2> QED
    BY <2>1 DEF k, o, c
<1> HIDE DEF P, R, E, S
<1> DEFINE P1 == Append(P, R)
           P2 == Append(P1, E)
           J == Joined(P)
           J1 == (J \o K) \o R
           J2 == (J1 \o K) \o E
           J3 == (J2 \o K) \o S
<1>8. P1 \in Seq(L) /\ P1 # <<>> /\ P2 \in Seq(L) /\ P2 # <<>>
  <2> HIDE DEF L
  <2>1. P1 \in Seq(L) /\ P1 # <<>>
    BY <1>2, <1>5, AppendProperties DEF L
  <2> HIDE DEF P1
  <2>2. E \in L
    BY <1>3
  <2>3. P2 \in Seq(L) /\ P2 # <<>>
    BY <2>1, <2>2, AppendProperties
  <2> QED
    BY <2>1, <2>3
<1>9. Joined(P1) = J1 /\ J \in L
  BY <1>1, <1>2, <1>5, JoinedMore
<1>10. Joined(P2) = J2
  <2>1. Joined(Append(P1, E)) = (Joined(P1) \o K) \o E
    <3> HIDE DEF P1
    <3> QED
      BY <1>1, <1>3, <1>8, JoinedMore
  <2> QED
    BY <1>9, <2>1
<1>11. Joined(Append(P2, S)) = J3
  <2>1. Joined(Append(P2, S)) = (Joined(P2) \o K) \o S
    <3> HIDE DEF P2
    <3> QED
      BY <1>1, <1>4, <1>8, JoinedMore
  <2> QED
    BY <1>10, <2>1
<1>12. ss_save(m, name, beyond) = (O \o J3) \o C
  BY <1>6, <1>11
<1> HIDE DEF K, O, C, J, P1, P2
<1> DEFINE F == O \o J
           F1 == (F \o K) \o R
           W == F1 \o K
<1>13. F \in L /\ F \o K \in L /\ F1 \in L /\ W \in L
  <2>1. F \in L
    BY <1>7, <1>9
  <2> HIDE DEF F
  <2>2. F \o K \in L
    BY <1>7, <2>1
  <2> DEFINE f == F \o K
  <2> HIDE DEF f
  <2>3. f \o R \in L
    BY <1>2, <2>2 DEF f
  <2> DEFINE g == f \o R
  <2> HIDE DEF g
  <2>4. g \o K \in L
    BY <1>7, <2>3 DEF g
  <2> QED
    BY <2>1, <2>2, <2>3, <2>4 DEF f, g
<1>14. J \o K \in L /\ J1 \in L /\ J1 \o K \in L /\ J2 \in L /\ J2 \o K \in L
  <2>1. J \o K \in L
    BY <1>7, <1>9
  <2> DEFINE f == J \o K
  <2> HIDE DEF f
  <2>2. f \o R \in L
    BY <1>2, <2>1 DEF f
  <2>2a. J1 \in L
    BY <2>2 DEF f
  <2> HIDE DEF J1
  <2>3. J1 \o K \in L
    BY <1>7, <2>2a
  <2> DEFINE g == J1 \o K
  <2> HIDE DEF g
  <2>4. g \o E \in L
    BY <1>3, <2>3 DEF g
  <2>4a. J2 \in L
    BY <2>4 DEF g
  <2> HIDE DEF J2
  <2>5. J2 \o K \in L
    BY <1>7, <2>4a
  <2> QED
    BY <2>1, <2>2a, <2>3, <2>4a, <2>5
<1>oo. O \in L
  BY <1>7
<1>kk. K \in L
  BY <1>7
<1>cc. C \in L
  BY <1>7
<1>rr. R \in L
  BY <1>2
<1>ss. S \in L
  BY <1>4
<1>j1. J1 \in L
  BY <1>14
<1>j2. J2 \in L
  BY <1>14
<1>c. W \in L
  BY <1>13
<1>15. O \o J1 = F1
  <2> DEFINE a == J \o K
  <2>1. O \o a = F \o K
    BY <1>7, <1>9, LexesCat
  <2>0. a \in L
    BY <1>14
  <2> HIDE DEF a, F
  <2>2. O \o (a \o R) = (O \o a) \o R
    BY <1>oo, <1>rr, <2>0, LexesCat
  <2> QED
    BY <2>1, <2>2 DEF a
<1>16. O \o J2 = W \o E
  <2> DEFINE a == J1 \o K
  <2>0. E \in L /\ a \in L
    BY <1>3, <1>14
  <2>1. O \o a = (O \o J1) \o K
    <3> HIDE DEF J1, J
    <3> QED
      BY <1>oo, <1>kk, <1>j1, LexesCat
  <2> HIDE DEF a, F1
  <2>2. O \o (a \o E) = (O \o a) \o E
    BY <1>7, <2>0, LexesCat
  <2> HIDE DEF J1
  <2> QED
    BY <1>15, <2>1, <2>2 DEF a
<1>17. O \o J3 = ((W \o E) \o K) \o S
  <2> DEFINE a == J2 \o K
  <2>1. O \o a = (O \o J2) \o K
    <3> HIDE DEF J2, J1, J
    <3> QED
      BY <1>oo, <1>kk, <1>j2, LexesCat
  <2>2. a \in L
    BY <1>14
  <2> HIDE DEF a, W
  <2>3. O \o (a \o S) = (O \o a) \o S
    BY <1>4, <1>7, <2>2, LexesCat, ZenonT(40)
  <2> HIDE DEF J2
  <2> QED
    BY <1>16, <2>1, <2>3 DEF a
<1>18. PICK E2 \in L : E \in L /\ <<e>> \in L /\ E = <<e>> \o E2 /\ Quiet(E2)
  BY <1>3
<1>d. E \in L
  BY <1>18
<1>dd. E2 \in L
  BY <1>18
<1> DEFINE X == <<e>>
           Z1 == E \o K
           Z2 == Z1 \o S
           Z9 == Z2 \o C
           Y1 == E2 \o K
           Y2 == Y1 \o S
           Y3 == Y2 \o C
<1> HIDE DEF W, e
<1>19. ((W \o E) \o K) \o S = W \o Z2
  <2>1. (W \o E) \o K = W \o Z1
    BY <1>kk, <1>c, <1>d, LexesCat
  <2>2. Z1 \in L
    BY <1>7, <1>18
  <2> HIDE DEF Z1
  <2>3. (W \o Z1) \o S = W \o Z2
    BY <1>ss, <1>c, <2>2, LexesCat
  <2> QED
    BY <2>1, <2>3
<1>20. Z1 \in L /\ Z2 \in L
  <2>2. Z1 \in L
    BY <1>7, <1>18
  <2> HIDE DEF Z1
  <2>3. Z1 \o S \in L
    BY <1>4, <2>2
  <2> QED
    BY <2>2, <2>3
<1>21. Y1 \in L /\ Y2 \in L /\ Y3 \in L
  <2>2. Y1 \in L
    BY <1>7, <1>18
  <2> HIDE DEF Y1
  <2>3. Y1 \o S \in L
    BY <1>4, <2>2
  <2> DEFINE d == Y1 \o S
  <2> HIDE DEF d
  <2>4. d \o C \in L
    BY <1>7, <2>3 DEF d
  <2> QED
    BY <2>2, <2>3, <2>4 DEF d
<1>Y. Quiet(Y3)
  <2>1. Quiet(K) /\ Quiet(C) /\ Quiet(S) /\ Quiet(E2) /\ S \in L /\ K \in L /\ C \in L /\ E2 \in L
    BY <1>q, <1>4, <1>7, <1>18 DEF K, C
  <2>2. Quiet(Y1)
    <3> HIDE DEF L
    <3> QED
      BY <1>qq, <2>1
  <2>3. Quiet(Y2)
    <3>1. Y1 \in L
      BY <1>21
    <3> HIDE DEF L, Y1
    <3> QED
      BY <1>qq, <2>1, <2>2, <3>1
  <2>4. Quiet(Y3)
    <3>1. Y2 \in L
      BY <1>21
    <3> HIDE DEF L, Y2
    <3> QED
      BY <1>qq, <2>1, <2>3, <3>1
  <2> QED
    BY <2>4
<1>22. (W \o Z2) \o C = W \o Z9
  <2>1. Z2 \in L
    BY <1>20
  <2> HIDE DEF Z2
  <2> QED
    BY <1>cc, <1>c, <2>1, LexesCat
<1>23. Z9 = X \o Y3
  <2> HIDE DEF X
  <2>1. Z1 = X \o Y1
    <3>1. E = X \o E2 /\ X \in L
      BY <1>18 DEF X
    <3> QED
      BY <1>kk, <1>dd, <3>1, LexesCat
  <2>0. X \in L
    BY <1>18 DEF X
  <2>2. (X \o Y1) \o S = X \o Y2
    <3> HIDE DEF Y1
    <3> QED
      BY <1>4, <1>21, <2>0, LexesCat
  <2>3. (X \o Y2) \o C = X \o Y3
    <3> HIDE DEF Y2
    <3> QED
      BY <1>7, <1>21, <2>0, LexesCat, SMTT(40)
  <2> QED
    BY <2>1, <2>2, <2>3
<1> HIDE DEF J3, F, F1, Z1, Z2, Z9, Y1, Y2, Y3
<1>24. ss_save(m, name, beyond) = W \o (X \o Y3)
  BY <1>12, <1>17, <1>19, <1>22, <1>23 DEF Z9
<1>25. Opening(m, beyond) = F /\ UpToRom(m, name, beyond) = F1
  BY <1>k DEF Opening, UpToRom, F1, F, J, O, R, P, K
<1> QED
  BY <1>2, <1>7, <1>13, <1>21, <1>Y, <1>24, <1>25, <1>k DEF W, e, R

\* A text that is cut within its first part, and beyond.
LEMMA CutLow ==
  ASSUME NEW s \in Seq(Lexes), NEW t \in Seq(Lexes), NEW n \in 0..Len(s)
  PROVE  SubSeq(s \o t, 1, n) = SubSeq(s, 1, n) /\ SubSeq(s, 1, n) \in Seq(Lexes)
<1>1. Len(s) \in Nat
  BY LenProperties
<1>2. CASE n = 0
  <2>1. SubSeq(s \o t, 1, n) = <<>> /\ SubSeq(s, 1, n) = <<>>
    BY <1>2, SubSeqEmpty
  <2> QED
    BY <2>1
<1>3. CASE n # 0
  <2>1. 1 \in 1..Len(s) /\ n \in 1..Len(s)
    BY <1>1, <1>3
  <2>2. SubSeq(s \o t, 1, n) = SubSeq(s, 1, n)
    BY <2>1, SubSeqOfConcat1
  <2>3. 1 \in Int /\ n \in Int /\ \A i \in 1..n : s[i] \in Lexes
    BY <1>1, <2>1
  <2>4. SubSeq(s, 1, n) \in Seq(Lexes)
    BY <2>3, SubSeqProperties
  <2> QED
    BY <2>2, <2>4
<1> QED
  BY <1>2, <1>3

\* A prefix of two texts that ends in the second one holds all of the first.
LEMMA CutHigh ==
  ASSUME NEW s \in Seq(Lexes), NEW t \in Seq(Lexes), NEW n \in 0..Len(t)
  PROVE  SubSeq(s \o t, 1, Len(s) + n) = s \o SubSeq(t, 1, n) /\ SubSeq(t, 1, n) \in Seq(Lexes)
<1> DEFINE u == SubSeq(s \o t, 1, Len(s) + n)
           v == SubSeq(t, 1, n)
           a == Len(s)
<1>1. a \in Nat /\ Len(t) \in Nat /\ n \in Nat
  BY LenProperties
<1>2. /\ s \o t \in Seq(Lexes) /\ Len(s \o t) = a + Len(t)
      /\ \A i \in 1..(a + Len(t)) : (s \o t)[i] = IF i <= a THEN s[i] ELSE t[i - a]
  BY ConcatProperties
<1>3. v \in Seq(Lexes) /\ Len(v) = n /\ \A i \in 1..n : v[i] = t[i]
  <2>1. 1 \in Int /\ n \in Int /\ \A i \in 1..n : t[i] \in Lexes
    BY <1>1
  <2> QED
    BY <1>1, <2>1, SubSeqProperties
<1> HIDE DEF v
<1>4. u \in Seq(Lexes) /\ Len(u) = a + n /\ \A i \in 1..(a + n) : u[i] = (s \o t)[i]
  <2> DEFINE b == a + n
             w == s \o t
  <2>1. 1 \in Int /\ b \in Int /\ 1 <= b + 1 /\ \A i \in 1..b : i \in 1..Len(w)
    BY <1>1, <1>2
  <2>2. w \in Seq(Lexes) /\ \A i \in 1..Len(w) : w[i] \in Lexes
    BY <1>2
  <2> HIDE DEF w, b
  <2>3. \A i \in 1..b : w[i] \in Lexes
    BY <2>1, <2>2
  <2>4. /\ SubSeq(w, 1, b) \in Seq(Lexes) /\ Len(SubSeq(w, 1, b)) = IF 1 <= b THEN b - 1 + 1 ELSE 0
        /\ \A i \in 1..(b - 1 + 1) : SubSeq(w, 1, b)[i] = w[1 + i - 1]
    BY <2>1, <2>3, SubSeqProperties
  <2>5. b - 1 + 1 = b /\ Len(SubSeq(w, 1, b)) = b
    BY <2>1, <2>4
  <2>6. \A i \in 1..b : SubSeq(w, 1, b)[i] = w[i]
    <3>1. ASSUME NEW i \in 1..b PROVE SubSeq(w, 1, b)[i] = w[i]
      <4>1. 1 + i - 1 = i
        BY <2>1
      <4> QED
        BY <2>4, <2>5, <4>1
    <3> QED
      BY <3>1
  <2> QED
    BY <2>4, <2>5, <2>6 DEF w, b
<1> HIDE DEF u
<1>5. /\ s \o v \in Seq(Lexes) /\ Len(s \o v) = a + n
      /\ \A i \in 1..(a + n) : (s \o v)[i] = IF i <= a THEN s[i] ELSE v[i - a]
  BY <1>3, ConcatProperties
<1>6. ASSUME NEW i \in 1..(a + n) PROVE u[i] = (s \o v)[i]
  <2>1. CASE i <= a
    BY <1>1, <1>2, <1>4, <1>5, <2>1
  <2>2. CASE i > a
    <3>1. i - a \in 1..n /\ ~(i <= a) /\ i \in 1..(a + Len(t))
      BY <1>1, <2>2
    <3>2. v[i - a] = t[i - a]
      BY <1>3, <3>1
    <3>3. u[i] = t[i - a]
      BY <1>2, <1>4, <3>1
    <3> QED
      BY <1>5, <3>1, <3>2, <3>3
  <2>3. i <= a \/ i > a
    BY <1>1
  <2> QED
    BY <2>1, <2>2, <2>3
<1>7. u = s \o v
  <2> DEFINE w == s \o v
  <2>1. w \in Seq(Lexes) /\ Len(u) = Len(w) /\ \A i \in 1..Len(u) : u[i] = w[i]
    BY <1>4, <1>5, <1>6
  <2> HIDE DEF w
  <2>2. u = w
    BY <1>4, <2>1, SeqEqual
  <2> QED
    BY <2>2 DEF w
<1> QED
  BY <1>3, <1>7 DEF u, v

\* What an incomplete file may end in.
Bit1(p) == p = <<>> \/ \E y \in Lexes : p = <<y>> /\ y.name \notin Roms /\ y.kind \in {"number", "unclosed"}
Shut(p) == p = <<>> \/ p = <<Unclosed>>

\* The piece that is left of a cut lexeme names no ROM.
LEMMA PieceIs ==
  ASSUME NEW x \in Lexes
  PROVE  /\ Bit1(Piece(x)) /\ Bit1(<<>>) /\ Piece(x) \in Seq(Lexes)
         /\ x.kind # "number" => Shut(Piece(x))
         /\ x.kind \notin {"string", "number"} => Piece(x) = <<>>
<1>1. Unclosed \in Lexes /\ Unclosed.name = "none" /\ Unclosed.kind = "unclosed"
  BY LexesAre DEF Unclosed, Kinds, Mark
<1> DEFINE n == x.number \div 10
<1>2. Num(n) \in Lexes /\ Num(n).name = "none" /\ Num(n).kind = "number"
  <2>1. n \in Int
    BY DEF Lexes
  <2> HIDE DEF n
  <2>2. Num(n) \in Lexes /\ Num(n).kind = "number"
    BY <2>1, LexesAre
  <2>3. Num(n).name = "none"
    BY DEF Num, Mark
  <2> QED
    BY <2>2, <2>3
<1>3. "none" \notin Roms
  BY DEF Roms
<1> HIDE DEF n
<1>4. CASE x.kind = "string"
  <2>1. Piece(x) = <<Unclosed>>
    BY <1>4 DEF Piece
  <2> QED
    BY <1>1, <1>3, <1>4, <2>1, OneLexeme DEF Bit1, Shut
<1>5. CASE x.kind = "number"
  <2>1. Piece(x) = <<Num(n)>>
    BY <1>5 DEF Piece, n
  <2> QED
    BY <1>2, <1>3, <1>5, <2>1, OneLexeme DEF Bit1
<1>6. CASE x.kind # "string" /\ x.kind # "number"
  <2>1. Piece(x) = <<>>
    BY <1>6 DEF Piece
  <2> QED
    BY <2>1 DEF Bit1, Shut
<1> QED
  BY <1>4, <1>5, <1>6

\* A file that ends in its opening has no ROM and no name of one.
LEMMA LowCut ==
  ASSUME NEW text, NEW c \in Nat, NEW ts \in Seq(Tokens), Romless(ts), Reads(text, Headed(c, ts)),
         NEW n \in 0..Len(text), NEW p, Bit1(p)
  PROVE  Romless(After(jsmn_init, SubSeq(text, 1, n) \o p).tokens)
<1> DEFINE i == jsmn_init
           G == Headed(c, ts)
           u == SubSeq(text, 1, n)
           v == SubSeq(text, n + 1, Len(text))
<1>1. text \in Seq(Lexes) /\ Len(text) \in Nat
  BY LenProperties, SMTT(40) DEF Reads
<1>2. u \in Seq(Lexes) /\ v \in Seq(Lexes) /\ u \o v = text
  <2>1. u \in Seq(Lexes)
    <3>1. 1 \in Int /\ n \in Int /\ \A j \in 1..n : text[j] \in Lexes
      BY <1>1
    <3> QED
      BY <3>1, SubSeqProperties
  <2>2. v \in Seq(Lexes)
    <3>1. n + 1 \in Int /\ Len(text) \in Int /\ \A j \in (n + 1)..Len(text) : text[j] \in Lexes
      BY <1>1
    <3> QED
      BY <3>1, SubSeqProperties
  <2>3. u \o v = SubSeq(text, 1, Len(text))
    <3>1. 1 \in 1..(Len(text) + 1) /\ n \in (1 - 1)..Len(text) /\ Len(text) \in n..Len(text)
      BY <1>1
    <3> QED
      BY <1>1, <3>1, ConcatAdjacentSubSeq
  <2>4. SubSeq(text, 1, Len(text)) = text
    BY <1>1, SubSeqFull
  <2> QED
    BY <2>1, <2>2, <2>3, <2>4, Zenon
<1> HIDE DEF u, v
<1>3. After(i, text).tokens = G
  BY AtIs DEF Reads, ReadAs
<1>4. /\ G \in Seq(Tokens) /\ Len(G) = 1 + Len(ts) /\ Len(ts) \in Nat /\ G[1] = Sized(Mark("object"), c)
      /\ \A j \in 1..Len(ts) : G[j + 1] = ts[j]
  BY HeadedIs
<1>5. Sized(Mark("object"), c).lexeme.name \notin Roms
  BY DEF Sized, Mark, Roms
<1> HIDE DEF G
<1>6. Romless(G)
  <2>1. ASSUME NEW j \in 1..Len(G) PROVE G[j].lexeme.name \notin Roms
    <3>1. CASE j = 1
      BY <1>4, <1>5, <3>1
    <3>2. CASE j # 1
      <4> DEFINE h == j - 1
      <4>1. h \in 1..Len(ts) /\ j = h + 1
        BY <1>4, <3>2
      <4> HIDE DEF h
      <4>2. G[j] = ts[h]
        BY <1>4, <4>1
      <4> QED
        BY <4>1, <4>2 DEF Romless
    <3> QED
      BY <3>1, <3>2
  <2> QED
    BY <2>1 DEF Romless
<1>7. Romless(After(i, u).tokens)
  <2> DEFINE T == After(i, u).tokens
  <2>1. Grew(T, After(i, u \o v).tokens, Nat)
    BY <1>2, TextGrows
  <2>2. Grew(T, G, Nat)
    BY <1>2, <1>3, <2>1
  <2> HIDE DEF T
  <2>3. ASSUME NEW j \in 1..Len(T) PROVE T[j].lexeme.name \notin Roms
    <3>1. G[j].lexeme = T[j].lexeme /\ Len(T) <= Len(G)
      BY <2>2, <2>3 DEF Grew
    <3>2. j \in 1..Len(G)
      <4>1. Len(G) \in Nat /\ j \in Int /\ 1 <= j /\ j <= Len(T)
        BY <1>4, <2>3
      <4>2. Len(T) \in Nat \/ Len(T) \notin Nat
        OBVIOUS
      <4>3. Len(T) \in Int
        <5>1. Grew(<<>>, T, Nat)
          <6>1. <<>> \in Seq(Lexes) /\ <<>> \o u = u
            BY <1>2
          <6>2. After(i, <<>>).tokens = <<>>
            <7>1. After(i, <<>>) = i
              BY AfterOne
            <7>2. jsmn_init.tokens = <<>>
              BY DEF jsmn_init
            <7> QED
              BY <7>1, <7>2
          <6> DEFINE e == <<>>
          <6>3. e \in Seq(Lexes) /\ e \o u = u /\ After(i, e).tokens = <<>>
            BY <6>1, <6>2
          <6> HIDE DEF e
          <6>4. Grew(After(i, e).tokens, After(i, e \o u).tokens, Nat)
            BY <1>2, <6>3, TextGrows
          <6> QED
            BY <6>3, <6>4 DEF T
        <5>2. T \in Seq(Tokens)
          BY <5>1 DEF Grew
        <5> QED
          BY <5>2, LenProperties
      <4> QED
        BY <3>1, <4>1, <4>3
    <3> QED
      BY <1>6, <3>1, <3>2 DEF Romless
  <2> QED
    BY <2>3 DEF Romless, T
<1>8. CASE p = <<>>
  <2>1. u \o p = u
    BY <1>2, <1>8
  <2> QED
    BY <1>7, <2>1 DEF u
<1>9. CASE p # <<>>
  <2>1. PICK y \in Lexes : p = <<y>> /\ y.name \notin Roms
    BY <1>9 DEF Bit1
  <2>2. Romless(After(i, u \o <<y>>).tokens)
    BY <1>2, <1>7, <2>1, OneMoreRomless
  <2> QED
    BY <2>1, <2>2 DEF u
<1> QED
  BY <1>8, <1>9, SMTT(40)

Keyless(T) == \A i \in 2..Len(T) : T[i].lexeme.name \in Roms => T[i].size # 1

\* A string without its quote changes no token.
LEMMA ShutKeeps ==
  ASSUME NEW q, NEW p, Shut(p)
  PROVE  After(q, p).tokens = q.tokens
<1>1. CASE p = <<>>
  BY <1>1, AfterOne
<1>2. CASE p = <<Unclosed>>
  <2>1. After(q, <<Unclosed>>) = Parsed(q, Unclosed)
    BY AfterOne
  <2>2. Unclosed.kind = "unclosed"
    BY DEF Unclosed, Mark
  <2> DEFINE x == Unclosed
  <2> HIDE DEF x
  <2>3. Parsed(q, x) = q \/ Parsed(q, x) = Failed(q, "PART")
    <3>1. x.kind = "unclosed"
      BY <2>2 DEF x
    <3>2. Lexeme(q, x) = Failed(q, "PART")
      BY <3>1 DEF Lexeme
    <3> QED
      BY <3>2 DEF Parsed
  <2>4. Failed(q, "PART").tokens = q.tokens
    BY DEF Failed
  <2> QED
    BY <1>2, <2>1, <2>3, <2>4 DEF x
<1> QED
  BY <1>1, <1>2 DEF Shut

\* A file that ends between the opening and the ROM's value.
LEMMA MidCut ==
  ASSUME NEW text, NEW c \in Nat, NEW ts \in Seq(Tokens), Romless(ts), Reads(text, Headed(c, ts)),
         1 + Len(ts) < MAX_JSON_TOKENS, NEW name \in Names, NEW w,
         w = <<>> \/ w = <<Str(name)>> \/ w = <<Str(name), Mark("colon")>>,
         NEW p, Shut(p), p \in Seq(Lexes)
  PROVE  /\ Keyless(After(jsmn_init, (text \o CommaSeq) \o (w \o p)).tokens)
         /\ After(jsmn_init, (text \o CommaSeq) \o (w \o p)).tokens \in Seq(Tokens)
<1> DEFINE G == Headed(c, ts)
           x == Str(name)
           y == Mark("colon")
           i == jsmn_init
           k == Mark("comma")
           q == At(G, RootOpen, 1)
           one == 1
           t == Token(x)
           R == Raised(G, one, 1)
           U == R \o <<t>>
           a == <<x>>
           b == <<x, y>>
<1>1. text \in Seq(Lexes) /\ Within(G, RootOpen)
  BY DEF Reads
<1>2. PICK s : After(i, text) = At(G, RootOpen, s) /\ Settled(G, RootOpen, s)
  BY DEF Reads, ReadAs
<1>3. k \in Lexes /\ x \in Lexes /\ y \in Lexes /\ x.kind = "string"
  BY LexesAre DEF Kinds
<1>4. Parsed(At(G, RootOpen, s), k) = q
  BY <1>1, <1>2, CommaParsed, RootParsed
<1>5. /\ G \in Seq(Tokens) /\ Len(G) = 1 + Len(ts) /\ Len(ts) \in Nat
      /\ \A j \in 1..Len(ts) : G[j + 1] = ts[j]
  BY HeadedIs
<1>6. t \in Tokens /\ t.size = 0 /\ t.lexeme = x
  BY <1>3, TokensOf
<1> HIDE DEF G, x, y, k, t
<1>7. CommaSeq = <<k>> /\ CommaSeq \in Seq(Lexes)
  BY <1>3, OneLexeme DEF CommaSeq, k
<1>8. one \in 1..Len(G) /\ one \in 0..Len(G) /\ Len(G) < MAX_JSON_TOKENS
  BY <1>5
<1>9. After(i, text \o CommaSeq) = q /\ text \o CommaSeq \in Seq(Lexes)
  <2>1. After(i, text \o CommaSeq) = After(After(i, text), CommaSeq)
    BY <1>1, <1>7, AfterBoth
  <2>2. After(At(G, RootOpen, s), <<k>>) = q
    BY <1>4, AfterOne
  <2> QED
    BY <1>1, <1>2, <1>7, <2>1, <2>2
<1>10. a \in Seq(Lexes) /\ b \in Seq(Lexes)
  BY <1>3, OneLexeme, TwoLexemes
<1>11. w \in Seq(Lexes) /\ w \o p \in Seq(Lexes)
  <2>1. <<>> \in Seq(Lexes)
    OBVIOUS
  <2>2. w \in Seq(Lexes)
    BY <1>10, <2>1 DEF x, y
  <2> QED
    BY <2>2
<1>12. After(i, (text \o CommaSeq) \o (w \o p)).tokens = After(q, w).tokens
  <2>1. After(i, (text \o CommaSeq) \o (w \o p)) = After(After(i, text \o CommaSeq), w \o p)
    BY <1>9, <1>11, AfterBoth
  <2>2. After(q, w \o p) = After(After(q, w), p)
    BY <1>11, AfterBoth
  <2> QED
    BY <1>9, <2>1, <2>2, ShutKeeps
<1>13. /\ R \in Seq(Tokens) /\ Len(R) = Len(G)
       /\ \A j \in 1..Len(G) : R[j] = IF j = one THEN [lexeme |-> G[j].lexeme, size |-> G[j].size + 1] ELSE G[j]
  <2>1. 1 \in Nat
    OBVIOUS
  <2> HIDE DEF one
  <2> QED
    BY <1>5, <1>8, <2>1, RaisedIs
<1>14. After(q, a) = At(U, RootOpen, 1)
  <2>1. After(q, <<x>>) = Parsed(q, x)
    BY AfterOne
  <2> HIDE DEF one, U
  <2>2. Parsed(At(G, RootOpen, one), x) = At(Raised(G, one, 1) \o <<Token(x)>>, RootOpen, one)
    BY <1>3, <1>5, <1>8, ScalarParsed
  <2> QED
    BY <2>1, <2>2 DEF one, U, t
<1>15. After(q, b).tokens = U
  <2> HIDE DEF one
  <2>1. After(At(G, RootOpen, one), <<Str(name), Mark("colon")>>)
          = At(Raised(G, one, 1) \o <<Token(Str(name))>>, RootOpen, Len(G) + 1)
    BY <1>5, <1>8, KeyParsed
  <2>2. After(At(G, RootOpen, one), b) = At(U, RootOpen, Len(G) + 1)
    BY <2>1 DEF x, y, t
  <2>3. At(U, RootOpen, Len(G) + 1).tokens = U
    <3> HIDE DEF U
    <3> QED
      BY AtIs
  <2> QED
    BY <2>2, <2>3 DEF one
<1> HIDE DEF R
<1>16. U \in Seq(Tokens) /\ Len(U) = Len(G) + 1 /\ U[Len(G) + 1] = t /\ \A j \in 1..Len(G) : U[j] = R[j]
  BY <1>6, <1>13, OneToken
<1> HIDE DEF U
<1>17. ASSUME NEW j \in 2..Len(G) PROVE G[j].lexeme.name \notin Roms
  <2> DEFINE h == j - 1
  <2>1. h \in 1..Len(ts) /\ j = h + 1
    BY <1>5
  <2> HIDE DEF h
  <2>2. G[j] = ts[h]
    BY <1>5, <2>1
  <2> QED
    BY <2>1, <2>2 DEF Romless
<1>18. Keyless(G)
  BY <1>17 DEF Keyless
<1>19. Keyless(U)
  <2>1. ASSUME NEW j \in 2..Len(U), U[j].lexeme.name \in Roms PROVE U[j].size # 1
    <3>1. CASE j = Len(G) + 1
      BY <1>6, <1>16, <3>1
    <3>2. CASE j # Len(G) + 1
      <4>1. j \in 2..Len(G) /\ j \in 1..Len(G) /\ j # one
        BY <1>5, <1>16, <3>2
      <4>2. U[j] = G[j]
        BY <1>13, <1>16, <4>1
      <4> QED
        BY <1>17, <2>1, <4>1, <4>2
    <3> QED
      BY <3>1, <3>2
  <2> QED
    BY <2>1 DEF Keyless
<1>20. After(q, w).tokens = G \/ After(q, w).tokens = U
  <2>1. CASE w = <<>>
    <3>1. After(q, <<>>) = q
      BY AfterOne
    <3>2. q.tokens = G
      BY AtIs
    <3> QED
      BY <2>1, <3>1, <3>2
  <2>2. CASE w = <<Str(name)>>
    <3>1. w = a
      BY <2>2 DEF x
    <3> HIDE DEF a
    <3> QED
      BY <1>14, <3>1, AtIs
  <2>3. CASE w = <<Str(name), Mark("colon")>>
    <3>1. w = b
      BY <2>3 DEF x, y
    <3> HIDE DEF b
    <3> QED
      BY <1>15, <3>1
  <2> QED
    BY <2>1, <2>2, <2>3
<1> QED
  BY <1>5, <1>12, <1>16, <1>18, <1>19, <1>20

\* The element of a text of two parts.
LEMMA CatAt ==
  ASSUME NEW s \in Seq(Lexes), NEW t \in Seq(Lexes), NEW n
  PROVE  /\ n \in 1..Len(s) => (s \o t)[n] = s[n]
         /\ n \in 1..Len(t) => (s \o t)[Len(s) + n] = t[n]
         /\ Len(s \o t) = Len(s) + Len(t) /\ Len(s) \in Nat /\ Len(t) \in Nat /\ s \o t \in Seq(Lexes)
<1>1. /\ s \o t \in Seq(Lexes) /\ Len(s \o t) = Len(s) + Len(t) /\ Len(s) \in Nat /\ Len(t) \in Nat
      /\ \A i \in 1..(Len(s) + Len(t)) : (s \o t)[i] = IF i <= Len(s) THEN s[i] ELSE t[i - Len(s)]
  BY ConcatProperties, LenProperties
<1>2. ASSUME n \in 1..Len(s) PROVE (s \o t)[n] = s[n]
  BY <1>1, <1>2
<1>3. ASSUME n \in 1..Len(t) PROVE (s \o t)[Len(s) + n] = t[n]
  <2> DEFINE i == Len(s) + n
  <2>1. i \in 1..(Len(s) + Len(t)) /\ ~(i <= Len(s)) /\ i - Len(s) = n
    BY <1>1, <1>3
  <2> HIDE DEF i
  <2>2. (s \o t)[i] = t[n]
    BY <1>1, <2>1
  <2> QED
    BY <2>2 DEF i
<1> QED
  BY <1>1, <1>2, <1>3

\* ... and of its second part.
LEMMA CatNext ==
  ASSUME NEW s \in Seq(Lexes), NEW t \in Seq(Lexes), NEW n \in 1..Len(t)
  PROVE  (s \o t)[Len(s) + n] = t[n]
BY CatAt

\* Where a file may end: in the opening, before the value of the ROM, or after it.
EndsLow(text, F) == \E n \in 0..Len(F) : \E p : Bit1(p) /\ text = SubSeq(F, 1, n) \o p
EndsMid(text, F, nm) ==
  \E w, p : /\ w = <<>> \/ w = <<Str(nm)>> \/ w = <<Str(nm), Mark("colon")>>
            /\ Shut(p) /\ p \in Seq(Lexes) /\ text = (F \o CommaSeq) \o (w \o p)
EndsHigh(text, E) ==
  \/ text = E \/ text = E \o CommaSeq
  \/ \E x \in Lexes, tail \in Seq(Lexes) :
       /\ x.kind \in {"string", "unclosed"} /\ x.name # "rom" /\ Quiet(tail)
       /\ text = (E \o CommaSeq) \o (<<x>> \o tail)

\* The cut text of a file.
CutText(full, n, piece) == SubSeq(full, 1, n) \o (IF piece THEN Piece(full[n + 1]) ELSE <<>>)

\* It is cut in the opening F, in the member R, or in what follows the comma after that.
LEMMA CutIsLow ==
  ASSUME NEW F \in Seq(Lexes), NEW t \in Seq(Lexes), NEW n \in 0..Len(F), NEW piece,
         n + 1 \in 1..Len(F \o t)
  PROVE  EndsLow(CutText(F \o t, n, piece), F)
<1> DEFINE full == F \o t
           p == IF piece THEN Piece(full[n + 1]) ELSE <<>>
<1>1. full \in Seq(Lexes)
  BY ConcatProperties
<1>2. SubSeq(full, 1, n) = SubSeq(F, 1, n)
  BY CutLow
<1> HIDE DEF full
<1>3. full[n + 1] \in Lexes
  <2>1. n + 1 \in 1..Len(full)
    BY DEF full
  <2> QED
    BY <1>1, <2>1
<1>4. Bit1(p)
  BY <1>3, PieceIs
<1>5. CutText(full, n, piece) = SubSeq(F, 1, n) \o p
  BY <1>2 DEF CutText
<1> HIDE DEF p
<1> QED
  BY <1>4, <1>5 DEF EndsLow, full

\* A file cut between its ROM's name and its value ends between them.
LEMMA CutIsMid ==
  ASSUME NEW F \in Seq(Lexes), NEW nm \in Names, NEW v \in Lexes, v.kind \in {"string", "unescapable"},
         NEW t \in Seq(Lexes), NEW j \in 0..2, NEW piece
  PROVE  EndsMid(CutText(((F \o CommaSeq) \o Member(nm, <<v>>)) \o t, Len(F \o CommaSeq) + j, piece), F, nm)
<1> DEFINE R == Member(nm, <<v>>)
           W == F \o CommaSeq
           E == W \o R
           full == E \o t
           n == Len(W) + j
           x == Str(nm)
           y == Mark("colon")
           p == IF piece THEN Piece(full[n + 1]) ELSE <<>>
           w == SubSeq(R, 1, j)
<1>1. R \in Seq(Lexes) /\ Len(R) = 3 /\ R[1] = x /\ R[2] = y /\ R[3] = v
  BY MemberIs
<1>2. x \in Lexes /\ y \in Lexes /\ x.kind = "string" /\ y.kind = "colon"
  BY LexesAre DEF Kinds
<1>3. CommaSeq \in Seq(Lexes)
  <2> DEFINE k == Mark("comma")
  <2>1. k \in Lexes
    BY LexesAre DEF Kinds
  <2> HIDE DEF k
  <2> QED
    BY <2>1, OneLexeme DEF CommaSeq, k
<1> HIDE DEF R, x, y
<1>4. W \in Seq(Lexes)
  BY <1>3
<1> HIDE DEF W
<1>5. Len(E) = Len(W) + 3 /\ Len(W) \in Nat /\ E \in Seq(Lexes) /\ E[Len(W) + (j + 1)] = R[j + 1]
  <2> DEFINE h == j + 1
  <2>1. h \in 1..Len(R)
    BY <1>1
  <2> HIDE DEF h
  <2>2. (W \o R)[Len(W) + h] = R[h] /\ Len(W \o R) = Len(W) + Len(R) /\ Len(W) \in Nat /\ W \o R \in Seq(Lexes)
    <3>1. R \in Seq(Lexes)
      BY <1>1
    <3>2. (W \o R)[Len(W) + h] = R[h]
      BY <1>4, <2>1, <3>1, CatNext
    <3>3. Len(W \o R) = Len(W) + Len(R) /\ Len(W) \in Nat /\ W \o R \in Seq(Lexes)
      BY <1>4, <3>1, CatAt
    <3> QED
      BY <3>2, <3>3
  <2> QED
    BY <1>1, <2>2 DEF h
<1>6. SubSeq(E, 1, n) = W \o w /\ w \in Seq(Lexes)
  <2>1. j \in 0..Len(R)
    BY <1>1
  <2> QED
    BY <1>1, <1>4, <2>1, CutHigh
<1>7. n \in 0..Len(E) /\ n + 1 \in 1..Len(E) /\ n + 1 = Len(W) + (j + 1)
  BY <1>5
<1> HIDE DEF E, n
<1>8. SubSeq(full, 1, n) = W \o w
  <2>1. SubSeq(E \o t, 1, n) = SubSeq(E, 1, n)
    BY <1>5, <1>7, CutLow
  <2> QED
    BY <1>6, <2>1
<1>9. full[n + 1] = R[j + 1]
  <2> DEFINE h == n + 1
  <2>1. h \in 1..Len(E)
    BY <1>7
  <2> HIDE DEF h
  <2>2. (E \o t)[h] = E[h]
    BY <1>5, <2>1, CatAt
  <2>3. h = Len(W) + (j + 1)
    BY <1>7 DEF h
  <2> QED
    BY <1>5, <2>2, <2>3 DEF h
<1> HIDE DEF full, w
<1>10. R[j + 1] \in Lexes /\ R[j + 1].kind # "number"
  <2>1. j + 1 = 1 \/ j + 1 = 2 \/ j + 1 = 3
    OBVIOUS
  <2> QED
    BY <1>1, <1>2, <2>1
<1>11. Shut(p) /\ p \in Seq(Lexes)
  <2>1. Shut(<<>>) /\ <<>> \in Seq(Lexes)
    BY DEF Shut
  <2> QED
    BY <1>9, <1>10, <2>1, PieceIs
<1> HIDE DEF p
<1>12. CutText(full, n, piece) = W \o (w \o p)
  <2>1. CutText(full, n, piece) = (W \o w) \o p
    BY <1>8 DEF CutText, p
  <2>2. (W \o w) \o p = W \o (w \o p)
    BY <1>4, <1>6, <1>11, LexesCat
  <2> QED
    BY <2>1, <2>2
<1>13. w = <<>> \/ w = <<x>> \/ w = <<x, y>>
  <2>1. j = 0 \/ j = 1 \/ j = 2
    OBVIOUS
  <2>2. ASSUME j = 0 PROVE w = <<>>
    BY <2>2, SubSeqEmpty DEF w
  <2>3. w \in Seq(Lexes) /\ Len(w) = j /\ \A i \in 1..j : w[i] = R[i]
    <3>1. 1 \in Int /\ j \in Int /\ \A i \in 1..j : R[i] \in Lexes
      <4>1. ASSUME NEW i \in 1..j PROVE R[i] \in Lexes
        <5>1. i = 1 \/ i = 2
          OBVIOUS
        <5> QED
          BY <1>1, <1>2, <5>1
      <4> QED
        BY <4>1
    <3>2. /\ SubSeq(R, 1, j) \in Seq(Lexes) /\ Len(SubSeq(R, 1, j)) = IF 1 <= j THEN j - 1 + 1 ELSE 0
          /\ \A i \in 1..(j - 1 + 1) : SubSeq(R, 1, j)[i] = R[1 + i - 1]
      BY <3>1, SubSeqProperties
    <3>3. j - 1 + 1 = j /\ \A i \in 1..j : 1 + i - 1 = i
      OBVIOUS
    <3> QED
      BY <3>2, <3>3 DEF w
  <2>4. ASSUME j = 1 PROVE w = <<x>>
    <3> DEFINE u == <<x>>
    <3>1. u \in Seq(Lexes) /\ Len(u) = 1 /\ u[1] = x
      BY <1>2
    <3> HIDE DEF u
    <3>2. \A i \in 1..Len(w) : w[i] = u[i]
      BY <1>1, <2>3, <2>4, <3>1
    <3>3. w = u
      BY <2>3, <2>4, <3>1, <3>2, SeqEqual
    <3> QED
      BY <3>3 DEF u
  <2>5. ASSUME j = 2 PROVE w = <<x, y>>
    <3> DEFINE u == <<x, y>>
    <3>1. u \in Seq(Lexes) /\ Len(u) = 2 /\ u[1] = x /\ u[2] = y
      BY <1>2
    <3> HIDE DEF u
    <3>2. \A i \in 1..Len(w) : w[i] = u[i]
      BY <1>1, <2>3, <2>5, <3>1
    <3>3. w = u
      BY <2>3, <2>5, <3>1, <3>2, SeqEqual
    <3> QED
      BY <3>3 DEF u
  <2> QED
    BY <2>1, <2>2, <2>4, <2>5
<1>14. EndsMid(CutText(full, n, piece), F, nm)
  BY <1>11, <1>12, <1>13 DEF EndsMid, W, x, y
<1> QED
  BY <1>14 DEF full, n, E, W, R

\* A comma is a lexeme.
LEMMA CommaLex == Mark("comma") \in Lexes /\ CommaSeq \in Seq(Lexes) /\ Len(CommaSeq) = 1
                  /\ CommaSeq[1] = Mark("comma")
<1> DEFINE k == Mark("comma")
<1>1. k \in Lexes
  BY LexesAre DEF Kinds
<1> HIDE DEF k
<1>2. <<k>> \in Seq(Lexes) /\ Len(<<k>>) = 1 /\ <<k>>[1] = k
  BY <1>1
<1> QED
  BY <1>1, <1>2 DEF CommaSeq, k

\* All of a text, and no more.
LEMMA CutAll ==
  ASSUME NEW s \in Seq(Lexes), NEW t \in Seq(Lexes)
  PROVE  SubSeq(s \o t, 1, Len(s)) = s
<1>1. Len(s) \in 0..Len(s)
  BY LenProperties
<1>2. SubSeq(s \o t, 1, Len(s)) = SubSeq(s, 1, Len(s))
  BY <1>1, CutLow
<1> QED
  BY <1>2, SubSeqFull

\* A file cut after the value of its ROM still holds all of that value.
LEMMA CutIsHigh ==
  ASSUME NEW E \in Seq(Lexes), NEW x \in Lexes, x.kind = "string", x.name # "rom",
         NEW tail \in Seq(Lexes), Quiet(tail),
         NEW n \in Len(E)..(Len((E \o CommaSeq) \o (<<x>> \o tail)) - 1), NEW piece
  PROVE  EndsHigh(CutText((E \o CommaSeq) \o (<<x>> \o tail), n, piece), E)
<1> DEFINE W == E \o CommaSeq
           X == <<x>>
           Z == X \o tail
           full == W \o Z
           p == IF piece THEN Piece(full[n + 1]) ELSE <<>>
           text == CutText(full, n, piece)
           k == Mark("comma")
<1>1. X \in Seq(Lexes) /\ Len(X) = 1 /\ X[1] = x
  BY OneLexeme
<1> HIDE DEF X
<1>2. W \in Seq(Lexes) /\ Len(W) = Len(E) + 1 /\ Len(E) \in Nat /\ W[Len(E) + 1] = k
  <2> DEFINE one == 1
  <2>1. one \in 1..Len(CommaSeq) /\ CommaSeq[one] = k /\ CommaSeq \in Seq(Lexes) /\ Len(CommaSeq) = 1
    BY CommaLex
  <2> HIDE DEF one, k
  <2>2. /\ (E \o CommaSeq)[Len(E) + one] = CommaSeq[one]
        /\ Len(E \o CommaSeq) = Len(E) + Len(CommaSeq) /\ Len(E) \in Nat /\ E \o CommaSeq \in Seq(Lexes)
    <3>0. CommaSeq \in Seq(Lexes) /\ one \in 1..Len(CommaSeq)
      BY <2>1
    <3>1. (E \o CommaSeq)[Len(E) + one] = CommaSeq[one]
      BY <3>0, CatNext
    <3>2. Len(E \o CommaSeq) = Len(E) + Len(CommaSeq) /\ Len(E) \in Nat /\ E \o CommaSeq \in Seq(Lexes)
      BY <3>0, CatAt
    <3> QED
      BY <2>1, <3>1, <3>2
  <2> QED
    BY <2>1, <2>2 DEF one
<1>3. Z \in Seq(Lexes) /\ Len(Z) = 1 + Len(tail) /\ Len(tail) \in Nat /\ Z[1] = x
  <2> DEFINE one == 1
  <2>1. one \in 1..Len(X)
    BY <1>1
  <2> HIDE DEF one
  <2>2. (X \o tail)[one] = X[one] /\ Len(X \o tail) = Len(X) + Len(tail) /\ Len(tail) \in Nat /\ X \o tail \in Seq(Lexes)
    BY <1>1, <2>1, CatAt, ZenonT(40)
  <2> QED
    BY <1>1, <2>2 DEF one
<1> HIDE DEF Z
<1>w. SubSeq(W, 1, Len(E)) = E
  BY CommaLex, CutAll
<1> HIDE DEF W
<1>4. full \in Seq(Lexes) /\ Len(full) = Len(W) + Len(Z)
  BY <1>2, <1>3, CatAt
<1>5. n \in Nat /\ n + 1 \in 1..Len(full) /\ full[n + 1] \in Lexes
  <2>1. n \in Len(E)..(Len(full) - 1)
    BY DEF Z, X, W
  <2>2. n \in Nat /\ n + 1 \in 1..Len(full)
    <3> HIDE DEF full
    <3> QED
      BY <1>2, <1>3, <1>4, <2>1
  <2> HIDE DEF full
  <2>3. full[n + 1] \in Lexes
    BY <1>4, <2>2
  <2> QED
    BY <2>2, <2>3
<1>q. Quiet(p)
  <2>0. Quiet(<<>>)
    BY DEF Quiet
  <2> HIDE DEF full
  <2>1. Bit1(p)
    BY <1>5, PieceIs
  <2> HIDE DEF p
  <2>2. CASE p = <<>>
    BY <2>0, <2>2
  <2>3. CASE \E y \in Lexes : p = <<y>> /\ y.name \notin Roms
    <3>1. PICK y \in Lexes : p = <<y>> /\ y.name \notin Roms
      BY <2>3
    <3>2. y.name # "rom"
      BY <3>1 DEF Roms
    <3> QED
      BY <3>1, <3>2, QuietOne
  <2> QED
    BY <2>1, <2>2, <2>3 DEF Bit1
<1>6. p \in Seq(Lexes)
  <2>1. <<>> \in Seq(Lexes)
    OBVIOUS
  <2> HIDE DEF full
  <2> QED
    BY <1>5, <2>1, PieceIs
<1>7. CASE n = Len(E)
  <2> DEFINE h == Len(E)
             g == h + 1
  <2>1. g \in 1..Len(W) /\ h \in 0..Len(W) /\ W[g] = k
    BY <1>2
  <2> HIDE DEF g, k
  <2>2. full[g] = k
    BY <1>2, <1>3, <2>1, CatAt
  <2>3. Piece(k) = <<>>
    BY DEF Piece, k, Mark
  <2>4. p = <<>>
    <3>1. n + 1 = g
      BY <1>7 DEF g
    <3> HIDE DEF full
    <3> QED
      BY <2>2, <2>3, <3>1
  <2> HIDE DEF p
  <2>5. SubSeq(full, 1, h) = SubSeq(W, 1, h)
    <3> HIDE DEF h
    <3> QED
      BY <1>2, <1>3, <2>1, CutLow
  <2>6. text = E \o p
    BY <1>w, <1>7, <2>5 DEF CutText, p
  <2>7. text = E
    BY <2>4, <2>6
  <2> HIDE DEF text
  <2>8. EndsHigh(text, E)
    BY <2>7 DEF EndsHigh
  <2> QED
    BY <2>8 DEF text, full, Z, X, W
<1>8. CASE n = Len(E) + 1
  <2> DEFINE h == Len(W)
             g == h + 1
             one == 1
  <2>1. one \in 1..Len(Z) /\ n = h /\ n + 1 = g
    BY <1>2, <1>3, <1>8
  <2>2. full[g] = x
    <3> HIDE DEF one
    <3>0. W \in Seq(Lexes) /\ Z \in Seq(Lexes) /\ one \in 1..Len(Z)
      BY <1>2, <1>3, <2>1
    <3>1. (W \o Z)[Len(W) + one] = Z[one]
      BY <3>0, CatNext
    <3> QED
      BY <1>3, <3>1 DEF one
  <2>3. p = <<>> \/ p = <<Unclosed>>
    <3>1. Piece(x) = <<Unclosed>>
      BY DEF Piece
    <3> HIDE DEF full
    <3> QED
      BY <2>1, <2>2, <3>1
  <2> HIDE DEF p, g
  <2>4. SubSeq(full, 1, h) = W
    BY <1>2, <1>3, CutAll
  <2>5. text = W \o p
    BY <2>1, <2>4 DEF CutText, p
  <2> HIDE DEF text
  <2>6. CASE p = <<>>
    <3>1. text = W
      BY <1>2, <2>5, <2>6
    <3>2. EndsHigh(text, E)
      BY <3>1 DEF EndsHigh, W
    <3> QED
      BY <3>2 DEF text, full, Z, X, W
  <2>7. CASE p = <<Unclosed>>
    <3> DEFINE u == Unclosed
               e == <<>>
               U == <<u>>
    <3>1. u \in Lexes /\ u.kind = "unclosed" /\ e \in Seq(Lexes)
      BY LexesAre DEF Unclosed, Kinds
    <3>q. u.name # "rom" /\ Quiet(e)
      BY DEF Unclosed, Mark, Quiet
    <3> HIDE DEF u
    <3>2. U \in Seq(Lexes) /\ U \o e = U
      BY <3>1
    <3> HIDE DEF e
    <3>3. text = W \o (<<u>> \o e)
      BY <2>5, <2>7, <3>2 DEF u
    <3>4. EndsHigh(text, E)
      BY <3>q, <3>1, <3>3 DEF EndsHigh, W
    <3> QED
      BY <3>4 DEF text, full, Z, X, W
  <2> QED
    BY <2>3, <2>6, <2>7
<1>9. CASE n > Len(E) + 1
  <2> DEFINE j == n - Len(E) - 1
             h == j - 1
             v == SubSeq(tail, 1, h)
  <2>1. j \in 0..Len(Z) /\ h \in 0..Len(tail) /\ n = Len(W) + j /\ j = Len(X) + h
    BY <1>1, <1>2, <1>3, <1>4, <1>5, <1>9, SMTT(40)
  <2> HIDE DEF j, h
  <2>2. SubSeq(full, 1, n) = W \o SubSeq(Z, 1, j)
    BY <1>2, <1>3, <2>1, CutHigh
  <2>3. SubSeq(Z, 1, j) = X \o v /\ v \in Seq(Lexes)
    <3>1. SubSeq(X \o tail, 1, Len(X) + h) = X \o SubSeq(tail, 1, h) /\ SubSeq(tail, 1, h) \in Seq(Lexes)
      BY <1>1, <2>1, CutHigh
    <3> QED
      BY <2>1, <3>1 DEF Z
  <2>q. Quiet(v)
    BY <2>1, QuietCut
  <2> HIDE DEF v, p
  <2>4. text = (W \o (X \o v)) \o p
    BY <2>2, <2>3 DEF CutText, p
  <2>5. X \o v \in Seq(Lexes) /\ v \o p \in Seq(Lexes)
    BY <1>1, <1>6, <2>3
  <2> HIDE DEF text
  <2>6. (W \o (X \o v)) \o p = W \o ((X \o v) \o p)
    <3> DEFINE b == X \o v
    <3>1. b \in Seq(Lexes)
      BY <2>5
    <3> HIDE DEF b
    <3>2. (W \o b) \o p = W \o (b \o p)
      BY <1>2, <1>6, <3>1, LexesCat, ZenonT(40)
    <3> QED
      BY <3>2 DEF b
  <2>7. (X \o v) \o p = X \o (v \o p)
    BY <1>1, <1>6, <2>3, LexesCat, ZenonT(40)
  <2> DEFINE r == v \o p
  <2>qq. Quiet(r)
    BY <1>6, <1>q, <2>q, <2>3, QuietBoth
  <2>8. r \in Seq(Lexes) /\ text = W \o (<<x>> \o r)
    BY <2>4, <2>5, <2>6, <2>7 DEF X
  <2> HIDE DEF r
  <2>9. EndsHigh(text, E)
    BY <2>8, <2>qq DEF EndsHigh, W
  <2> QED
    BY <2>9 DEF text, full, Z, X, W
<1>10. n = Len(E) \/ n = Len(E) + 1 \/ n > Len(E) + 1
  <2>1. n \in Int /\ n >= Len(E)
    BY <1>2
  <2> QED
    BY <1>2, <2>1
<1> QED
  BY <1>7, <1>8, <1>9, <1>10

\* A file ends in its opening, before the value of the ROM, or after it.
Ends(text, m, name, beyond) ==
  \/ EndsLow(text, Opening(m, beyond))
  \/ EndsMid(text, Opening(m, beyond), RomKey(name))
  \/ EndsHigh(text, UpToRom(m, name, beyond))

\* A cut file is the cut text.
LEMMA TextIs ==
  ASSUME NEW m, NEW name, NEW beyond, NEW kept \in Nat \X BOOLEAN,
         NEW full, full = ss_save(m, name, beyond)
  PROVE  /\ kept = Whole => Text(Written(m, name, beyond, kept)) = full
         /\ Text(Written(m, name, beyond, kept)) = full
            \/ (kept[1] < Len(full) /\ Text(Written(m, name, beyond, kept)) = CutText(full, kept[1], kept[2]))
<1> DEFINE f == Written(m, name, beyond, kept)
           n == kept[1]
<1>1. ss_save(f.of, f.name, f.beyond) = full /\ f.kept = kept
  BY DEF Written
<1>2. n \in Nat
  OBVIOUS
<1> HIDE DEF f, n
<1>3. Text(f) = IF kept = Whole \/ f.kept[1] >= Len(full) THEN full
                ELSE SubSeq(full, 1, f.kept[1]) \o (IF f.kept[2] THEN Piece(full[f.kept[1] + 1]) ELSE <<>>)
  BY <1>1 DEF Text
<1>4. f.kept[1] = n /\ f.kept[2] = kept[2]
  BY <1>1 DEF n
<1>5. CutText(full, n, kept[2]) = SubSeq(full, 1, n) \o (IF kept[2] THEN Piece(full[n + 1]) ELSE <<>>)
  BY DEF CutText
<1>6. CASE kept = Whole
  BY <1>3, <1>6 DEF f
<1>7. CASE kept # Whole /\ n >= Len(full)
  BY <1>3, <1>4, <1>7 DEF f
<1>8. CASE kept # Whole /\ ~(n >= Len(full))
  <2>1. Text(f) = CutText(full, n, kept[2])
    BY <1>3, <1>4, <1>5, <1>8
  <2>2. Len(full) \in Nat => n < Len(full)
    BY <1>2, <1>8
  <2> QED
    BY <1>2, <1>8, <2>1, <2>2 DEF f, n
<1> QED
  BY <1>6, <1>7, <1>8

\* Every file ends in one of the three ways, and a whole one after its ROM.
LEMMA FileEnds ==
  ASSUME NEW m, NEW beyond, Writable(m, beyond), NEW name, Named1(name),
         NEW kept \in Nat \X BOOLEAN
  PROVE  /\ Ends(Text(Written(m, name, beyond, kept)), m, name, beyond)
         /\ kept = Whole => EndsHigh(Text(Written(m, name, beyond, kept)), UpToRom(m, name, beyond))
<1> DEFINE F == Opening(m, beyond)
           nm == RomKey(name)
           v == RomValue(m, name, beyond)
           R == Member(nm, <<v>>)
           K == CommaSeq
           W == F \o K
           E == W \o R
           e == Str("emu_version")
           X == <<e>>
           text == Text(Written(m, name, beyond, kept))
           n == kept[1]
           b == kept[2]
<1>1. nm \in Names /\ v \in Lexes /\ v.kind \in {"string", "unescapable"}
      /\ dump_rom(m, name, beyond) = R
  BY RomIs
<1>2. E = UpToRom(m, name, beyond)
  BY <1>1 DEF UpToRom
<1>3. e \in Lexes /\ e.kind = "string" /\ e.name # "rom"
  <2>1. e.name = "emu_version"
    BY DEF Str
  <2> QED
    BY <2>1, LexesAre DEF Names
<1> HIDE DEF nm, v, e
<1>4. R \in Seq(Lexes) /\ Len(R) = 3
  BY <1>1, MemberIs
<1>5. X \in Seq(Lexes) /\ K \in Seq(Lexes) /\ Len(K) = 1
  BY <1>3, CommaLex
<1>6. F \in Seq(Lexes) /\ W \in Seq(Lexes) /\ E \in Seq(Lexes)
      /\ \E tail \in Seq(Lexes) : Quiet(tail) /\ ss_save(m, name, beyond) = (E \o K) \o (X \o tail)
  <2>1. /\ Opening(m, beyond) \in Seq(Lexes) /\ UpToRom(m, name, beyond) \in Seq(Lexes)
        /\ \E tail \in Seq(Lexes) :
              Quiet(tail) /\ ss_save(m, name, beyond) = (UpToRom(m, name, beyond) \o CommaSeq) \o (X \o tail)
    BY JoinedSplit DEF e
  <2>2. W \in Seq(Lexes)
    <3> HIDE DEF F, K
    <3>1. F \in Seq(Lexes)
      BY <2>1 DEF F
    <3> QED
      BY <1>5, <3>1
  <2> HIDE DEF E, W, X
  <2> QED
    BY <1>2, <2>1, <2>2
<1>7. PICK tail \in Seq(Lexes) : Quiet(tail) /\ ss_save(m, name, beyond) = (E \o K) \o (X \o tail)
  BY <1>6
<1> DEFINE Y == X \o tail
           full == (E \o K) \o Y
<1> HIDE DEF F, R, K, W, E, X, Y, full
<1>8. Y \in Seq(Lexes)
  BY <1>5 DEF Y
<1>9. ss_save(m, name, beyond) = full
  BY <1>7 DEF full, Y
<1>10. n \in Nat /\ b \in BOOLEAN
  OBVIOUS
<1>11. (kept = Whole => text = full) /\ (text = full \/ (n < Len(full) /\ text = CutText(full, n, b)))
  BY <1>9, TextIs
<1> HIDE DEF text, n, b
<1>12. EndsHigh(full, E)
  <2>1. full = (E \o CommaSeq) \o (<<e>> \o tail)
    BY DEF full, Y, X, K
  <2> QED
    BY <1>3, <1>7, <2>1 DEF EndsHigh
<1>13. Len(W) = Len(F) + 1 /\ Len(E) = Len(F) + 4 /\ Len(F) \in Nat
  <2>1. Len(F \o K) = Len(F) + Len(K) /\ Len(F) \in Nat
    BY <1>5, <1>6, CatAt
  <2>2. Len(W \o R) = Len(W) + Len(R)
    BY <1>4, <1>6, CatAt
  <2> QED
    BY <1>4, <1>5, <2>1, <2>2 DEF W, E
<1> DEFINE T == K \o Y
<1> HIDE DEF T
<1>f. F \in Seq(Lexes)
  BY <1>6
<1>k. K \in Seq(Lexes)
  BY <1>5
<1>w. W \in Seq(Lexes)
  BY <1>6
<1>e. E \in Seq(Lexes)
  BY <1>6
<1>r. R \in Seq(Lexes)
  BY <1>4
<1>14. T \in Seq(Lexes) /\ full = E \o T
  <2>1. K \o Y \in Seq(Lexes)
    BY <1>k, <1>8
  <2>2. (E \o K) \o Y = E \o (K \o Y)
    BY <1>k, <1>e, <1>8, LexesCat
  <2> QED
    BY <2>1, <2>2 DEF full, T
<1>15. Len(full) \in Nat /\ full \in Seq(Lexes) /\ Len(full) >= Len(E)
  <2>1. Len(E \o T) = Len(E) + Len(T) /\ Len(T) \in Nat /\ E \o T \in Seq(Lexes) /\ Len(E) \in Nat
    BY <1>6, <1>14, CatAt
  <2> QED
    BY <1>14, <2>1
<1>16. ASSUME n < Len(full), n <= Len(F)
       PROVE  EndsLow(CutText(full, n, b), F)
  <2> DEFINE U == R \o T
             V == K \o U
  <2>1. U \in Seq(Lexes) /\ full = W \o U
    <3>1. T \in Seq(Lexes)
      BY <1>14
    <3>2. (W \o R) \o T = W \o (R \o T)
      BY <1>w, <1>r, <3>1, LexesCat
    <3>3. R \o T \in Seq(Lexes)
      BY <1>r, <3>1
    <3> QED
      BY <1>14, <3>2, <3>3 DEF E
  <2> HIDE DEF U
  <2>2. V \in Seq(Lexes) /\ full = F \o V
    <3>1. U \in Seq(Lexes)
      BY <2>1
    <3>2. (F \o K) \o U = F \o (K \o U)
      BY <1>f, <1>k, <3>1, LexesCat
    <3>3. K \o U \in Seq(Lexes)
      BY <1>k, <3>1
    <3> QED
      BY <2>1, <3>2, <3>3 DEF W
  <2> HIDE DEF V
  <2>3. n \in 0..Len(F) /\ n + 1 \in 1..Len(full)
    BY <1>10, <1>13, <1>15, <1>16
  <2>4. n + 1 \in 1..Len(F \o V)
    BY <2>2, <2>3
  <2>5. F \in Seq(Lexes)
    BY <1>6
  <2>6. V \in Seq(Lexes)
    BY <2>2
  <2>7. EndsLow(CutText(F \o V, n, b), F)
    BY <2>3, <2>4, <2>5, <2>6, CutIsLow
  <2> QED
    BY <2>2, <2>7
<1>17. ASSUME n > Len(F), n < Len(E)
       PROVE  EndsMid(CutText(full, n, b), F, nm)
  <2> DEFINE j == n - Len(W)
  <2>1. j \in 0..2 /\ n = Len(W) + j
    BY <1>10, <1>13, <1>17
  <2> HIDE DEF j
  <2>2. F \in Seq(Lexes)
    BY <1>6
  <2>3. T \in Seq(Lexes)
    BY <1>14
  <2>4. EndsMid(CutText(((F \o CommaSeq) \o Member(nm, <<v>>)) \o T, Len(F \o CommaSeq) + j, b), F, nm)
    BY <1>1, <2>1, <2>2, <2>3, CutIsMid
  <2> QED
    BY <1>14, <2>1, <2>4 DEF E, W, R, K
<1>18. ASSUME n < Len(full), n >= Len(E)
       PROVE  EndsHigh(CutText(full, n, b), E)
  <2>1. n \in Len(E)..(Len(full) - 1)
    BY <1>10, <1>13, <1>15, <1>18
  <2>2. full = (E \o CommaSeq) \o (<<e>> \o tail)
    BY DEF full, Y, X, K
  <2>3. n \in Len(E)..(Len((E \o CommaSeq) \o (<<e>> \o tail)) - 1)
    BY <2>1, <2>2
  <2>4. E \in Seq(Lexes)
    BY <1>6
  <2>5. EndsHigh(CutText((E \o CommaSeq) \o (<<e>> \o tail), n, b), E)
    BY <1>3, <1>7, <2>3, <2>4, CutIsHigh
  <2> QED
    BY <2>2, <2>5
<1>19. EndsHigh(text, E) \/ EndsMid(text, F, nm) \/ EndsLow(text, F)
  <2>1. CASE text = full
    BY <1>12, <2>1
  <2>2. CASE n < Len(full) /\ text = CutText(full, n, b)
    <3>1. n <= Len(F) \/ (n > Len(F) /\ n < Len(E)) \/ n >= Len(E)
      BY <1>10, <1>13
    <3> QED
      BY <1>16, <1>17, <1>18, <2>2, <3>1
  <2> QED
    BY <1>11, <2>1, <2>2
<1> QED
  BY <1>2, <1>11, <1>12, <1>19 DEF Ends, text, F, nm

\* Tokens among which a restore finds no ROM.
Silent(T) == \A name \in Roms : find_token(T, name) = Missing
Parse(text) == After(jsmn_init, text).tokens

\* The tokens of any text are tokens.
LEMMA ParseTokens ==
  ASSUME NEW text \in Seq(Lexes)
  PROVE  Parse(text) \in Seq(Tokens)
<1> DEFINE e == <<>>
<1>1. e \in Seq(Lexes)
  OBVIOUS
<1>2. text \o e = text
  OBVIOUS
<1> HIDE DEF e
<1>3. Grew(After(jsmn_init, text).tokens, After(jsmn_init, text \o e).tokens, Nat)
  BY <1>1, TextGrows
<1> QED
  BY <1>2, <1>3 DEF Grew, Parse

\* A text without keys of the ROM.
LEMMA KeylessIsSilent ==
  ASSUME NEW T \in Seq(Tokens), Keyless(T)
  PROVE  Silent(T)
<1> SUFFICES ASSUME NEW name \in Roms PROVE find_token(T, name) = Missing
  BY DEF Silent
<1> QED
  BY NoRom DEF Keyless

\* A file cut before the name of its ROM is not told of a ROM.
LEMMA LowIsSilent ==
  ASSUME NEW F, NEW c \in Nat, NEW ts \in Seq(Tokens), Romless(ts), Reads(F, Headed(c, ts)),
         NEW text, EndsLow(text, F)
  PROVE  text \in Seq(Lexes) /\ Silent(Parse(text))
<1>0. PICK n \in 0..Len(F) : \E p : Bit1(p) /\ text = SubSeq(F, 1, n) \o p
  BY DEF EndsLow
<1>1. PICK p : Bit1(p) /\ text = SubSeq(F, 1, n) \o p
  BY <1>0
<1> DEFINE u == SubSeq(F, 1, n)
<1>2. Romless(After(jsmn_init, u \o p).tokens)
  BY <1>1, LowCut
<1>3. u \in Seq(Lexes)
  <2> DEFINE e == <<>>
  <2>1. F \in Seq(Lexes) /\ e \in Seq(Lexes)
    BY DEF Reads
  <2> HIDE DEF e
  <2> QED
    BY <2>1, CutLow
<1> HIDE DEF u
<1>4. p \in Seq(Lexes)
  <2>1. CASE p = <<>>
    BY <2>1
  <2>2. CASE p # <<>>
    <3>1. PICK y \in Lexes : p = <<y>>
      BY <1>1, <2>2 DEF Bit1
    <3> QED
      BY <3>1
  <2> QED
    BY <2>1, <2>2
<1>5. text \in Seq(Lexes)
  <2>1. u \o p \in Seq(Lexes)
    BY <1>3, <1>4
  <2> QED
    BY <1>1, <2>1 DEF u
<1>6. Romless(Parse(text))
  BY <1>1, <1>2 DEF Parse, u
<1>7. Parse(text) \in Seq(Tokens)
  BY <1>5, ParseTokens
<1> HIDE DEF Parse
<1> DEFINE T == Parse(text)
<1> HIDE DEF T
<1>8. T \in Seq(Tokens) /\ Romless(T)
  BY <1>6, <1>7 DEF T
<1>9. Keyless(T)
  BY <1>8 DEF Keyless, Romless
<1>10. Silent(T)
  BY <1>8, <1>9, KeylessIsSilent
<1> QED
  BY <1>5, <1>10 DEF T

\* A file cut between the name and the value of its ROM is told of none either.
LEMMA MidIsSilent ==
  ASSUME NEW F, NEW c \in Nat, NEW ts \in Seq(Tokens), Romless(ts), Reads(F, Headed(c, ts)),
         1 + Len(ts) < MAX_JSON_TOKENS, NEW nm \in Names, NEW text, EndsMid(text, F, nm)
  PROVE  text \in Seq(Lexes) /\ Silent(Parse(text))
<1>1. PICK w, p : /\ w = <<>> \/ w = <<Str(nm)>> \/ w = <<Str(nm), Mark("colon")>>
                  /\ Shut(p) /\ p \in Seq(Lexes) /\ text = (F \o CommaSeq) \o (w \o p)
  BY DEF EndsMid
<1>2. /\ Keyless(After(jsmn_init, (F \o CommaSeq) \o (w \o p)).tokens)
      /\ After(jsmn_init, (F \o CommaSeq) \o (w \o p)).tokens \in Seq(Tokens)
  BY <1>1, MidCut
<1>3. w \in Seq(Lexes)
  <2> DEFINE s == Str(nm)
             k == Mark("colon")
  <2>1. s \in Lexes /\ k \in Lexes
    BY LexesAre DEF Kinds
  <2> HIDE DEF s, k
  <2>2. <<>> \in Seq(Lexes) /\ <<s>> \in Seq(Lexes) /\ <<s, k>> \in Seq(Lexes)
    BY <2>1
  <2> QED
    BY <1>1, <2>2 DEF s, k
<1>4. text \in Seq(Lexes)
  <2> DEFINE a == F \o CommaSeq
             b == w \o p
  <2>1. F \in Seq(Lexes) /\ CommaSeq \in Seq(Lexes) /\ p \in Seq(Lexes)
    BY <1>1, CommaLex DEF Reads
  <2>2. a \in Seq(Lexes)
    BY <2>1
  <2>3. b \in Seq(Lexes)
    BY <1>3, <2>1
  <2> HIDE DEF a, b
  <2>4. a \o b \in Seq(Lexes)
    BY <2>2, <2>3
  <2> QED
    BY <1>1, <2>4 DEF a, b
<1> DEFINE T == Parse(text)
<1>5. T \in Seq(Tokens) /\ Keyless(T)
  BY <1>1, <1>2 DEF Parse
<1> HIDE DEF T
<1>6. Silent(T)
  BY <1>5, KeylessIsSilent
<1> QED
  BY <1>4, <1>6 DEF T

\* Tokens are their own growth.
LEMMA GrewSelf ==
  ASSUME NEW G \in Seq(Tokens), NEW P
  PROVE  Grew(G, G, P)
<1>1. \A i \in 1..Len(G) : G[i] \in Tokens
  OBVIOUS
<1>2. \A i \in 1..Len(G) : G[i].size >= G[i].size
  <2>1. TAKE i \in 1..Len(G)
  <2>2. G[i].size \in Nat
    BY <1>1 DEF Tokens
  <2> QED
    BY <2>2
<1>3. Len(G) <= Len(G)
  BY LenProperties
<1> QED
  BY <1>2, <1>3 DEF Grew

\* A comma after a value of the root adds no token.
LEMMA CommaKeeps ==
  ASSUME NEW text, NEW G, Reads(text, G)
  PROVE  Parse(text) = G /\ Parse(text \o CommaSeq) = G /\ text \o CommaSeq \in Seq(Lexes)
<1> DEFINE c == Mark("comma")
           i == Inside(G, RootOpen)
<1>1. text \in Seq(Lexes) /\ Within(G, RootOpen)
  BY DEF Reads
<1>2. PICK s : After(jsmn_init, text) = At(G, RootOpen, s) /\ Settled(G, RootOpen, s)
  BY DEF Reads, ReadAs
<1>x. c \in Lexes
  BY LexesAre DEF Kinds
<1>3. Parsed(At(G, RootOpen, s), c) = i
  BY <1>1, <1>2, CommaParsed DEF Inside
<1> HIDE DEF c, i
<1>4. After(At(G, RootOpen, s), <<c>>) = i
  BY <1>3, AfterOne
<1>5. CommaSeq = <<c>> /\ CommaSeq \in Seq(Lexes)
  BY CommaLex DEF CommaSeq, c
<1>6. After(jsmn_init, text \o CommaSeq) = i
  <2>1. After(jsmn_init, text \o CommaSeq) = After(After(jsmn_init, text), CommaSeq)
    BY <1>1, <1>5, AfterBoth
  <2> QED
    BY <1>2, <1>4, <1>5, <2>1
<1>7. i.tokens = G /\ At(G, RootOpen, s).tokens = G
  BY DEF i, Inside, At
<1>8. text \o CommaSeq \in Seq(Lexes)
  BY <1>1, <1>5
<1> QED
  BY <1>2, <1>6, <1>7, <1>8 DEF Parse

\* What a file that ends after its ROM makes of the tokens up to there.
LEMMA HighGrows ==
  ASSUME NEW E, NEW G, Reads(E, G), NEW text, EndsHigh(text, E)
  PROVE  text \in Seq(Lexes) /\ Grew(G, Parse(text), After1(G))
<1>1. E \in Seq(Lexes) /\ G \in Seq(Tokens)
  BY DEF Reads, Within
<1>2. Parse(E) = G /\ Parse(E \o CommaSeq) = G /\ E \o CommaSeq \in Seq(Lexes)
  BY CommaKeeps
<1>3. Grew(G, G, After1(G))
  BY <1>1, GrewSelf
<1>4. CASE text = E
  BY <1>1, <1>2, <1>3, <1>4
<1>5. CASE text = E \o CommaSeq
  BY <1>1, <1>2, <1>3, <1>5
<1>6. ASSUME NEW x \in Lexes, NEW tail \in Seq(Lexes),
             x.kind \in {"string", "unclosed"}, text = (E \o CommaSeq) \o (<<x>> \o tail)
      PROVE  text \in Seq(Lexes) /\ Grew(G, Parse(text), After1(G))
  <2>1. Grew(G, After(jsmn_init, (E \o <<Mark("comma")>>) \o (<<x>> \o tail)).tokens, After1(G))
    BY <1>6, TailKeeps
  <2>2. <<x>> \o tail \in Seq(Lexes)
    <3> DEFINE X == <<x>>
    <3>1. X \in Seq(Lexes)
      BY OneLexeme
    <3> HIDE DEF X
    <3>2. X \o tail \in Seq(Lexes)
      BY <3>1
    <3> QED
      BY <3>2 DEF X
  <2> DEFINE a == E \o CommaSeq
             b == <<x>> \o tail
  <2>3. a \in Seq(Lexes) /\ b \in Seq(Lexes)
    BY <1>2, <2>2
  <2>4. Grew(G, After(jsmn_init, a \o b).tokens, After1(G)) /\ text = a \o b
    BY <1>6, <2>1 DEF CommaSeq
  <2> HIDE DEF a, b
  <2>5. a \o b \in Seq(Lexes)
    BY <2>3
  <2> QED
    BY <2>4, <2>5 DEF Parse
<1> QED
  BY <1>4, <1>5, <1>6 DEF EndsHigh

\* Such a file, seen from the comma before its ROM.
Goes(text, F, x) == \E tail \in Seq(Lexes) : text = (F \o CommaSeq) \o (<<x>> \o tail)

\* A file cut after its ROM is a file up to the ROM, then a tail.
LEMMA HighIsTail ==
  ASSUME NEW F \in Seq(Lexes), NEW x \in Lexes, NEW R2 \in Seq(Lexes), NEW text,
         EndsHigh(text, (F \o CommaSeq) \o (<<x>> \o R2))
  PROVE  Goes(text, F, x)
<1> DEFINE W == F \o CommaSeq
           X == <<x>>
           R == X \o R2
           E == W \o R
<1>1. CommaSeq \in Seq(Lexes)
  BY CommaLex
<1>2. W \in Seq(Lexes)
  BY <1>1
<1>3. X \in Seq(Lexes)
  BY OneLexeme
<1> HIDE DEF X
<1>4. R \in Seq(Lexes)
  BY <1>3
<1>5. ASSUME NEW t \in Seq(Lexes), text = E \o t
      PROVE  R2 \o t \in Seq(Lexes) /\ text = W \o (X \o (R2 \o t))
  <2>1. R2 \o t \in Seq(Lexes)
    BY <1>5
  <2>2. (X \o R2) \o t = X \o (R2 \o t)
    BY <1>3, LexesCat
  <2> HIDE DEF W, R
  <2>3. (W \o R) \o t = W \o (R \o t)
    BY <1>2, <1>4, LexesCat, ZenonT(40)
  <2> QED
    BY <1>5, <2>1, <2>2, <2>3 DEF R
<1>6. EndsHigh(text, E)
  BY DEF X
<1> HIDE DEF E
<1>7. \E t \in Seq(Lexes) : text = E \o t
  <2>1. E \in Seq(Lexes)
    <3> HIDE DEF W, R
    <3> QED
      BY <1>2, <1>4 DEF E
  <2>2. CASE text = E
    <3>1. <<>> \in Seq(Lexes) /\ E \o <<>> = E
      BY <2>1
    <3> QED
      BY <2>2, <3>1
  <2>3. CASE text = E \o CommaSeq
    BY <1>1, <2>3
  <2>4. ASSUME NEW y \in Lexes, NEW tail \in Seq(Lexes), text = (E \o CommaSeq) \o (<<y>> \o tail)
        PROVE  \E t \in Seq(Lexes) : text = E \o t
    <3> DEFINE Y == <<y>>
               b == Y \o tail
    <3>1. Y \in Seq(Lexes)
      BY OneLexeme
    <3> HIDE DEF Y
    <3>2. b \in Seq(Lexes)
      BY <3>1
    <3>3. text = (E \o CommaSeq) \o b
      BY <2>4 DEF Y
    <3> HIDE DEF b
    <3>4. (E \o CommaSeq) \o b = E \o (CommaSeq \o b)
      BY <1>1, <2>1, <3>2, LexesCat, SMTT(40)
    <3>5. CommaSeq \o b \in Seq(Lexes)
      BY <1>1, <3>2
    <3> QED
      BY <3>3, <3>4, <3>5
  <2> QED
    BY <1>6, <2>2, <2>3, <2>4 DEF EndsHigh
<1>8. PICK t \in Seq(Lexes) : text = E \o t
  BY <1>7
<1>9. R2 \o t \in Seq(Lexes) /\ text = W \o (X \o (R2 \o t))
  BY <1>5, <1>8
<1> QED
  BY <1>9 DEF X, W, Goes

\* Tokens that tell a restore all of a machine but the ROM.
Heard(T, m, beyond) == \A name \in FrontNames : Hears(T, name, Says(m, beyond)[name])
RomHeard(T, m, name, beyond) ==
  /\ find_token(T, RomKey(name)) # Missing
  /\ T[find_token(T, RomKey(name))] = Token(RomValue(m, name, beyond))

\* The opening, its tokens and what follows it.
LEMMA FrontHeard ==
  ASSUME NEW m, NEW beyond, Writable(m, beyond), NEW ts \in Seq(Tokens),
         Speaks(Says(m, beyond), ts), NEW F, Reads(F, Headed(8, ts)), NEW x \in Lexes,
         x.kind \in {"string", "unescapable"}, NEW tail \in Seq(Lexes),
         NEW text, text = (F \o CommaSeq) \o (<<x>> \o tail)
  PROVE  Heard(Parse(text), m, beyond) /\ Parse(text) \in Seq(Tokens) /\ Len(Parse(text)) > 0
         /\ Parse(text)[1].size > 0
<1> DEFINE G == Headed(8, ts)
           V == Says(m, beyond)
           T == Parse(text)
<1>1. V \in Saying
  BY SaysAre DEF Writable
<1>2. Grew(G, T, After1(G))
  <2>1. Grew(G, After(jsmn_init, (F \o <<Mark("comma")>>) \o (<<x>> \o tail)).tokens, After1(G))
    BY TailKeeps
  <2> QED
    BY <2>1 DEF Parse, CommaSeq
<1>3. Truthful(V, ts) /\ Len(ts) = 140 /\ \A name \in FrontNames : Named(ts, name)
  BY DEF Speaks
<1> HIDE DEF V, T
<1>4. T \in Seq(Tokens) /\ Len(T) >= 1 + Len(ts) /\ Len(T) \in Nat /\ T[1].size >= 8
  BY <1>2, GrewHeaded
<1>5. T[1].size \in Nat
  <2>1. T[1] \in Tokens
    BY <1>3, <1>4
  <2> QED
    BY <2>1 DEF Tokens
<1>6. ASSUME NEW name \in FrontNames PROVE Hears(T, name, V[name])
  <2>1. name \in Known /\ Named(ts, name)
    BY <1>3 DEF FrontNames, Known, Fours, Twos
  <2> QED
    BY <1>1, <1>2, <1>3, <2>1, Found
<1>7. Heard(T, m, beyond)
  BY <1>6 DEF Heard, V
<1> QED
  BY <1>3, <1>4, <1>5, <1>7 DEF T

\* A file cut after its ROM tells the whole machine.
LEMMA HighHeard ==
  ASSUME NEW m, NEW beyond, Writable(m, beyond), NEW name, Named1(name), NEW text,
         EndsHigh(text, UpToRom(m, name, beyond))
  PROVE  /\ text \in Seq(Lexes)
         /\ Heard(Parse(text), m, beyond) /\ Parse(text) \in Seq(Tokens) /\ Len(Parse(text)) > 0
         /\ Parse(text)[1].size > 0
         /\ name # "unescapable" => RomHeard(Parse(text), m, name, beyond)
<1> DEFINE F == Opening(m, beyond)
           E == UpToRom(m, name, beyond)
           nm == RomKey(name)
           v == RomValue(m, name, beyond)
           T == Parse(text)
<1>1. PICK ts \in Seq(Tokens) : Speaks(Says(m, beyond), ts) /\ Reads(F, Headed(8, ts))
  BY OpeningReads DEF Writable
<1>2. nm \in Names /\ nm \in Roms /\ v \in Lexes /\ v.kind \in {"string", "unescapable"}
      /\ dump_rom(m, name, beyond) = Member(nm, <<v>>) /\ (name # "unescapable" => v.kind = "string")
  BY RomIs
<1>3. E = (F \o CommaSeq) \o Member(nm, <<v>>)
  BY <1>2 DEF UpToRom
<1>4. F \in Seq(Lexes) /\ E \in Seq(Lexes)
  BY JoinedSplit
<1> HIDE DEF F, E, nm, v, T
<1> DEFINE s == Str(nm)
           R2 == <<Mark("colon")>> \o <<v>>
<1>5. s \in Lexes /\ s.kind = "string"
  BY <1>2, LexesAre
<1>6. R2 \in Seq(Lexes) /\ Member(nm, <<v>>) = <<s>> \o R2
  BY <1>2, MemberIs
<1> HIDE DEF s, R2
<1>7. EndsHigh(text, (F \o CommaSeq) \o (<<s>> \o R2))
  BY <1>3, <1>6 DEF E
<1>8. PICK tail \in Seq(Lexes) : text = (F \o CommaSeq) \o (<<s>> \o tail)
  <2>1. F \in Seq(Lexes)
    BY <1>4
  <2>2. R2 \in Seq(Lexes)
    BY <1>6
  <2>3. s \in Lexes
    BY <1>5
  <2>4. Goes(text, F, s)
    BY <1>7, <2>1, <2>2, <2>3, HighIsTail
  <2> QED
    BY <2>4 DEF Goes
<1>9. Heard(T, m, beyond) /\ T \in Seq(Tokens) /\ Len(T) > 0 /\ T[1].size > 0
  BY <1>1, <1>5, <1>8, FrontHeard DEF T
<1>10. text \in Seq(Lexes)
  <2> DEFINE W == F \o CommaSeq
             X == <<s>>
             Z == X \o tail
  <2>1. CommaSeq \in Seq(Lexes)
    BY CommaLex
  <2>2. W \in Seq(Lexes)
    BY <1>4, <2>1
  <2>3. X \in Seq(Lexes)
    BY <1>5, OneLexeme
  <2> HIDE DEF X
  <2>4. Z \in Seq(Lexes)
    BY <2>3
  <2> HIDE DEF W, Z
  <2>5. W \o Z \in Seq(Lexes)
    BY <2>2, <2>4
  <2> QED
    BY <1>8, <2>5 DEF W, Z, X
<1>11. ASSUME name # "unescapable" PROVE RomHeard(T, m, name, beyond)
  <2> DEFINE us == <<Key(nm)>> \o <<Token(v)>>
             seg == Member(nm, <<v>>)
             H == Headed(9, ts \o us)
  <2>1. Yields(seg, us, 1)
    BY <1>2, <1>11, MemberYields
  <2>2. us \in Seq(Tokens) /\ Len(us) = 2 /\ Token(v) \in Tokens
    <3> DEFINE k == Key(nm)
               t == Token(v)
    <3>1. t \in Tokens /\ k \in Tokens
      BY <1>2, TokensOf
    <3> HIDE DEF k, t
    <3>2. <<k>> \in Seq(Tokens) /\ <<t>> \in Seq(Tokens) /\ Len(<<k>>) = 1 /\ Len(<<t>>) = 1
      BY <3>1
    <3> DEFINE a == <<k>>
               b == <<t>>
    <3> HIDE DEF a, b
    <3>3. a \o b \in Seq(Tokens) /\ Len(a \o b) = 2
      BY <3>2, ConcatProperties DEF a, b
    <3> QED
      BY <3>1, <3>3 DEF a, b, k, t
  <2>3. Len(ts) = 140 /\ Romless(ts)
    BY <1>1 DEF Speaks, Truthful
  <2>4. Len(ts) + Len(us) + 1 <= MAX_JSON_TOKENS
    BY <2>2, <2>3, RoomAssumption
  <2> HIDE DEF us, seg
  <2>5. Reads((F \o <<Mark("comma")>>) \o seg, Headed(8 + 1, ts \o us))
    BY <1>1, <2>1, <2>4, ReadsMore
  <2>6. Reads(E, H)
    <3>1. 8 + 1 = 9
      OBVIOUS
    <3> QED
      BY <1>3, <2>5, <3>1 DEF seg, CommaSeq
  <2>7. Grew(H, T, After1(H))
    BY <2>6, HighGrows DEF E, T
  <2>8. find_token(T, nm) # Missing /\ T[find_token(T, nm)] = Token(v)
    <3> DEFINE t == Token(v)
    <3>1. Grew(Headed(9, ts \o (<<Key(nm)>> \o <<t>>)), T, After1(Headed(9, ts \o (<<Key(nm)>> \o <<t>>))))
      BY <2>7 DEF us
    <3>2. t \in Tokens
      BY <2>2
    <3> HIDE DEF t
    <3> QED
      BY <1>2, <2>3, <3>1, <3>2, FoundRom DEF t
  <2> QED
    BY <2>8 DEF RomHeard, nm, v
<1> QED
  BY <1>9, <1>10, <1>11 DEF T

\* What follows a text adds tokens of its own names only.
LEMMA TailFree ==
  ASSUME NEW a \in Seq(Lexes), NEW v \in Seq(Lexes), Quiet(v), NEW j \in Nat,
         Free({"rom"}, j, Parse(a))
  PROVE  Free({"rom"}, j, Parse(a \o v))
<1> DEFINE N == Len(v)
           S == {"rom"}
           cut(n) == SubSeq(v, 1, n)
           H == {n \in Nat : Free(S, j, Parse(a \o cut(n)))}
<1>1. N \in Nat
  BY LenProperties
<1>s. \A n \in 1..N : v[n].name \notin S
  BY DEF Quiet
<1> HIDE DEF S
<1>2. ASSUME NEW n \in 0..N
      PROVE  /\ cut(n) \in Seq(Lexes)
             /\ n < N => cut(n + 1) = cut(n) \o <<v[n + 1]>> /\ v[n + 1] \in Lexes
  <2>1. 1 \in Int /\ n \in Int /\ \A i \in 1..n : v[i] \in Lexes
    BY <1>1
  <2>2. cut(n) \in Seq(Lexes)
    BY <2>1, SubSeqProperties
  <2>3. ASSUME n < N PROVE cut(n + 1) = cut(n) \o <<v[n + 1]>> /\ v[n + 1] \in Lexes
    <3>1. n + 1 \in 1..N
      BY <1>1, <2>3
    <3>2. cut(n + 1) = Append(cut(n), v[n + 1])
      <4>1. 1 \in 1..((n + 1) + 1) /\ n + 1 \in 1..N
        BY <1>1, <3>1
      <4> QED
        BY <1>1, <3>1
    <3>3. v[n + 1] \in Lexes
      BY <3>1
    <3> DEFINE c == cut(n)
               x == v[n + 1]
    <3>4. c \in Seq(Lexes)
      BY <2>2
    <3> HIDE DEF c, x
    <3>5. Append(c, x) = c \o <<x>>
      BY <3>4
    <3> QED
      BY <3>2, <3>3, <3>5 DEF c, x
  <2> QED
    BY <2>2, <2>3
<1>3. 0 \in H
  <2>1. cut(0) = <<>>
    OBVIOUS
  <2> DEFINE e == <<>>
  <2>2. a \o e = a
    OBVIOUS
  <2> HIDE DEF e, cut
  <2>3. a \o cut(0) = a
    BY <2>1, <2>2 DEF e
  <2> QED
    BY <2>3 DEF S
<1> HIDE DEF cut
<1>4. ASSUME NEW n \in 0..(N - 1), n \in H PROVE n + 1 \in H
  <2> DEFINE c == cut(n)
             x == v[n + 1]
             u == a \o c
  <2>1. n \in 0..N /\ n < N /\ n + 1 \in 1..N /\ n + 1 \in Nat
    BY <1>1
  <2>2. c \in Seq(Lexes) /\ cut(n + 1) = c \o <<x>> /\ x \in Lexes /\ x.name \notin S
    BY <1>2, <1>s, <2>1
  <2>3. Free(S, j, Parse(u))
    BY <1>4
  <2> HIDE DEF c, x
  <2>4. u \in Seq(Lexes)
    BY <2>2
  <2>5. a \o (c \o <<x>>) = u \o <<x>>
    <3> DEFINE w == <<x>>
    <3>1. w \in Seq(Lexes)
      BY <2>2, OneLexeme
    <3> HIDE DEF w
    <3>2. (a \o c) \o w = a \o (c \o w)
      BY <2>2, <3>1, LexesCat
    <3> QED
      BY <3>2 DEF w
  <2> HIDE DEF u
  <2>6. Free(S, j, Parse(u \o <<x>>))
    <3>1. Free(S, j, After(jsmn_init, u).tokens)
      BY <2>3 DEF Parse
    <3>2. Free(S, j, After(jsmn_init, u \o <<x>>).tokens)
      BY <2>2, <2>4, <3>1, OneMoreFree
    <3> QED
      BY <3>2 DEF Parse
  <2> QED
    BY <2>1, <2>2, <2>5, <2>6
<1>5. N \in 0..N
  BY <1>1
<1> HIDE DEF H
<1>6. 0..N \subseteq H
  BY <1>1, <1>3, <1>4, Inductive
<1>7. N \in H
  BY <1>5, <1>6
<1>8. cut(N) = v
  BY SubSeqFull DEF cut
<1> QED
  BY <1>7, <1>8 DEF H, S

\* The file up to its ROM, as tokens.
LEMMA RomReads ==
  ASSUME NEW m, NEW beyond, Writable(m, beyond), NEW name, Named1(name), name # "unescapable",
         NEW ts \in Seq(Tokens), Len(ts) + 3 <= MAX_JSON_TOKENS, Reads(Opening(m, beyond), Headed(8, ts))
  PROVE  /\ Reads(UpToRom(m, name, beyond),
                  Headed(9, ts \o (<<Key(RomKey(name))>> \o <<Token(RomValue(m, name, beyond))>>)))
         /\ <<Key(RomKey(name))>> \o <<Token(RomValue(m, name, beyond))>> \in Seq(Tokens)
         /\ Len(<<Key(RomKey(name))>> \o <<Token(RomValue(m, name, beyond))>>) = 2
<1> DEFINE F == Opening(m, beyond)
           E == UpToRom(m, name, beyond)
           nm == RomKey(name)
           v == RomValue(m, name, beyond)
<1>2. nm \in Names /\ v \in Lexes /\ v.kind = "string"
      /\ dump_rom(m, name, beyond) = Member(nm, <<v>>)
  BY RomIs
<1>3. E = (F \o CommaSeq) \o Member(nm, <<v>>)
  BY <1>2 DEF UpToRom
<1> HIDE DEF F, E, nm, v
<1> DEFINE us == <<Key(nm)>> \o <<Token(v)>>
           seg == Member(nm, <<v>>)
<1>4. Yields(seg, us, 1)
  BY <1>2, MemberYields
<1>5. us \in Seq(Tokens) /\ Len(us) = 2
  <3> DEFINE k == Key(nm)
             t == Token(v)
  <3>1. t \in Tokens /\ k \in Tokens
    BY <1>2, TokensOf
  <3> HIDE DEF k, t
  <3>2. <<k>> \in Seq(Tokens) /\ <<t>> \in Seq(Tokens) /\ Len(<<k>>) = 1 /\ Len(<<t>>) = 1
    BY <3>1
  <3> DEFINE a == <<k>>
             b == <<t>>
  <3> HIDE DEF a, b
  <3>3. a \o b \in Seq(Tokens) /\ Len(a \o b) = 2
    BY <3>2, ConcatProperties DEF a, b
  <3> QED
    BY <3>3 DEF a, b, k, t
<1>6. Len(ts) + Len(us) + 1 <= MAX_JSON_TOKENS
  <2>1. Len(ts) \in Nat
    BY LenProperties
  <2> HIDE DEF us
  <2> QED
    BY <1>5, <2>1, RoomAssumption
<1> HIDE DEF us, seg
<1>7. Reads((F \o <<Mark("comma")>>) \o seg, Headed(8 + 1, ts \o us))
  <2> DEFINE c == 8
  <2>1. Reads(F, Headed(c, ts)) /\ c \in Nat
    BY DEF F
  <2> HIDE DEF c
  <2>2. Reads((F \o <<Mark("comma")>>) \o seg, Headed(c + 1, ts \o us))
    BY <1>4, <1>6, <2>1, ReadsMore
  <2> QED
    BY <2>2 DEF c
<1>8. Reads(E, Headed(9, ts \o us))
  <2>1. 8 + 1 = 9
    OBVIOUS
  <2> QED
    BY <1>3, <1>7, <2>1 DEF seg, CommaSeq
<1> QED
  BY <1>5, <1>8 DEF E, us, nm, v

\* What follows the ROM in a file has no such name.
LEMMA HighRest ==
  ASSUME NEW E \in Seq(Lexes), NEW text, EndsHigh(text, E)
  PROVE  \E t \in Seq(Lexes) : text = E \o t /\ Quiet(t)
<1>1. CommaSeq \in Seq(Lexes) /\ Quiet(CommaSeq)
  <2>1. Mark("comma").name # "rom"
    BY DEF Mark
  <2>2. Quiet(<<Mark("comma")>>)
    BY <2>1, QuietOne
  <2> QED
    BY <2>2, CommaLex DEF CommaSeq
<1>2. CASE text = E
  <2>1. <<>> \in Seq(Lexes) /\ E \o <<>> = E /\ Quiet(<<>>)
    BY DEF Quiet
  <2> QED
    BY <1>2, <2>1
<1>3. CASE text = E \o CommaSeq
  BY <1>1, <1>3
<1>4. ASSUME NEW y \in Lexes, NEW tail \in Seq(Lexes), y.name # "rom", Quiet(tail),
             text = (E \o CommaSeq) \o (<<y>> \o tail)
      PROVE  \E t \in Seq(Lexes) : text = E \o t /\ Quiet(t)
  <3> DEFINE Y == <<y>>
             b == Y \o tail
  <3>1. Y \in Seq(Lexes)
    BY OneLexeme
  <3>q. Quiet(Y)
    BY <1>4, QuietOne
  <3> HIDE DEF Y
  <3>2. b \in Seq(Lexes)
    BY <3>1
  <3>b. Quiet(b)
    BY <1>4, <3>1, <3>q, QuietBoth
  <3>3. text = (E \o CommaSeq) \o b
    BY <1>4 DEF Y
  <3> HIDE DEF b
  <3>4. (E \o CommaSeq) \o b = E \o (CommaSeq \o b)
    BY <1>1, <3>2, LexesCat
  <3>5. CommaSeq \o b \in Seq(Lexes) /\ Quiet(CommaSeq \o b)
    BY <1>1, <3>2, <3>b, QuietBoth
  <3> QED
    BY <3>3, <3>4, <3>5
<1> QED
  BY <1>2, <1>3, <1>4 DEF EndsHigh

\* A file with the name of a ROM has none: whoever looks for it finds nothing.
LEMMA HighMute ==
  ASSUME NEW m, NEW beyond, Writable(m, beyond), NEW name, Named1(name), name # NoName, NEW text,
         EndsHigh(text, UpToRom(m, name, beyond))
  PROVE  find_token(Parse(text), "rom") = Missing
<1> DEFINE F == Opening(m, beyond)
           E == UpToRom(m, name, beyond)
           nm == RomKey(name)
           v == RomValue(m, name, beyond)
           T == Parse(text)
           S == {"rom"}
<1>1. PICK ts \in Seq(Tokens) : Speaks(Says(m, beyond), ts) /\ Reads(F, Headed(8, ts))
  BY OpeningReads DEF Writable
<1>2. nm = "rom_name" /\ nm \in Names /\ v \in Lexes /\ dump_rom(m, name, beyond) = Member(nm, <<v>>)
  BY RomIs DEF RomKey
<1>3. E = (F \o CommaSeq) \o Member(nm, <<v>>)
  BY <1>2 DEF UpToRom
<1>4. F \in Seq(Lexes) /\ E \in Seq(Lexes)
  BY JoinedSplit
<1>5. PICK t \in Seq(Lexes) : text = E \o t /\ Quiet(t)
  BY <1>4, HighRest
<1>6. Len(ts) = 140 /\ Romless(ts)
  BY <1>1 DEF Speaks, Truthful
<1>v. name # "unescapable" => v = Str(name)
  BY DEF RomValue
<1>u. name = "unescapable" => v = Unescapable
  BY DEF RomValue
<1> HIDE DEF F, E, nm, v
<1>7. ASSUME Free(S, 2, T), T \in Seq(Tokens)
      PROVE  find_token(T, "rom") = Missing
  <2>1. \A i \in 2..Len(T) : ~IsKey(T[i], "rom")
    <3>1. ASSUME NEW i \in 2..Len(T) PROVE ~IsKey(T[i], "rom")
      <4>1. i \in 1..Len(T) /\ i >= 2
        OBVIOUS
      <4>2. T[i].lexeme.name # "rom"
        BY <1>7, <4>1 DEF Free
      <4> QED
        BY <4>2 DEF IsKey
    <3> QED
      BY <3>1
  <2> QED
    BY <1>7, <2>1, FindIs
<1>8. T \in Seq(Tokens)
  <2>1. text \in Seq(Lexes)
    BY <1>4, <1>5
  <2> QED
    BY <2>1, ParseTokens
<1>9. CASE name # "unescapable"
  <2> DEFINE a == <<Key(nm)>>
             b == <<Token(v)>>
             us == a \o b
             ws == ts \o us
             nine == 9
             G == Headed(nine, ws)
  <2>1. Reads(E, G) /\ us \in Seq(Tokens) /\ Len(us) = 2
    <3>1. Len(ts) + 3 <= MAX_JSON_TOKENS
      BY <1>6, RoomAssumption
    <3> QED
      BY <1>1, <1>9, <3>1, RomReads DEF F, E, nm, v
  <2> HIDE DEF a, b
  <2>w. ws \in Seq(Tokens)
    BY <2>1, TokensBoth
  <2>2. ws \in Seq(Tokens) /\ Len(ws) = 142 /\ ws[141] = us[1] /\ ws[142] = us[2]
    <3> HIDE DEF us
    <3>1. /\ ts \o us \in Seq(Tokens) /\ Len(ts \o us) = Len(ts) + Len(us)
          /\ \A i \in 1..Len(us) : (ts \o us)[Len(ts) + i] = us[i]
      BY <2>1, TokensBoth
    <3> DEFINE n == Len(ts)
    <3>2. 1 \in 1..Len(us) /\ 2 \in 1..Len(us)
      BY <2>1
    <3>3. ws[n + 1] = us[1] /\ ws[n + 2] = us[2]
      BY <3>1, <3>2
    <3>4. n = 140 /\ n + 1 = 141 /\ n + 2 = 142
      BY <1>6
    <3> HIDE DEF ws, n
    <3> QED
      BY <2>1, <3>1, <3>3, <3>4 DEF ws, n
  <2>3. us[1] = Key(nm) /\ us[2] = Token(v)
    <3> USE DEF a, b
    <3> DEFINE k == Key(nm)
               w == Token(v)
    <3>1. w \in Tokens /\ k \in Tokens
      BY <1>2, TokensOf
    <3> HIDE DEF k, w
    <3>2. <<k>> \in Seq(Tokens) /\ <<w>> \in Seq(Tokens) /\ Len(<<k>>) = 1 /\ Len(<<w>>) = 1
          /\ <<k>>[1] = k /\ <<w>>[1] = w
      BY <3>1
    <3> DEFINE c == <<k>>
               d == <<w>>
    <3> HIDE DEF c, d
    <3>3. (c \o d)[1] = k /\ (c \o d)[2] = w
      <4>1. /\ \A i \in 1..Len(c) : (c \o d)[i] = c[i]
            /\ \A i \in 1..Len(d) : (c \o d)[Len(c) + i] = d[i]
        BY <3>2, TokensBoth DEF c, d
      <4>2. Len(c) = 1 /\ Len(d) = 1 /\ c[1] = k /\ d[1] = w
        BY <3>2 DEF c, d
      <4>3. 1 \in 1..Len(c) /\ 1 \in 1..Len(d) /\ Len(c) + 1 = 2
        BY <4>2
      <4>4. (c \o d)[1] = c[1] /\ (c \o d)[Len(c) + 1] = d[1]
        BY <4>1, <4>3
      <4> QED
        BY <4>2, <4>3, <4>4
    <3> QED
      BY <3>3 DEF c, d, k, w
  <2>4. \A i \in 1..140 : ws[i] = ts[i]
    <3> HIDE DEF us
    <3>1. \A i \in 1..Len(ts) : (ts \o us)[i] = ts[i]
      BY <2>1, TokensBoth
    <3> QED
      BY <1>6, <3>1
  <2>5. G \in Seq(Tokens) /\ Len(G) = 143
    <3>1. nine \in Nat
      OBVIOUS
    <3> HIDE DEF ws, nine
    <3>2. Len(G) = 1 + Len(ws) /\ G \in Seq(Tokens)
      BY <2>w, <3>1, HeadedIs
    <3> QED
      BY <2>2, <3>2
  <2> HIDE DEF ws
  <2>6. Grew(G, T, After1(G))
    BY <2>1, HighGrows DEF E
  <2>7. \A i \in 1..142 : T[i + 1] = ws[i]
    <3>1. nine \in Nat
      OBVIOUS
    <3> HIDE DEF nine
    <3>2. \A i \in 1..Len(ws) : T[i + 1] = ws[i]
      BY <2>w, <2>6, <3>1, GrewHeaded
    <3> QED
      BY <2>2, <3>2
  <2>8. Free(S, 144, T)
    <3>1. Parse(E) = G
      BY <2>1, CommaKeeps
    <3> HIDE DEF G
    <3> DEFINE n == Len(G)
    <3>n. n \in Nat /\ n < 144
      BY <2>5
    <3> HIDE DEF n
    <3>0. ASSUME NEW i \in 1..n, i >= 144 PROVE FALSE
      BY <3>n, <3>0
    <3>2. Free({"rom"}, 144, Parse(E))
      BY <3>0, <3>1 DEF Free, n
    <3> DEFINE j == 144
    <3>3. j \in Nat /\ Free({"rom"}, j, Parse(E))
      BY <3>2
    <3> HIDE DEF j
    <3>4. Free({"rom"}, j, Parse(E \o t))
      BY <1>4, <1>5, <3>3, TailFree
    <3> QED
      BY <1>5, <3>4 DEF j
  <2>9. ASSUME NEW i \in 2..Len(T) PROVE ~IsKey(T[i], "rom")
    <3>1. CASE i >= 144
      <4>1. i \in 1..Len(T)
        OBVIOUS
      <4>2. T[i].lexeme.name # "rom"
        BY <2>8, <3>1, <4>1 DEF Free
      <4> QED
        BY <4>2 DEF IsKey
    <3>2. CASE i < 144
      <4> DEFINE h == i - 1
      <4>1. h \in 1..142 /\ i = h + 1
        BY <3>2
      <4> HIDE DEF h
      <4>2. T[i] = ws[h]
        BY <2>7, <4>1
      <4>3. CASE h \in 1..140
        <5>1. T[i] = ts[h] /\ h \in 1..Len(ts)
          BY <1>6, <2>4, <4>2, <4>3
        <5>2. T[i].lexeme.name \notin Roms
          BY <1>6, <5>1 DEF Romless
        <5> QED
          BY <5>2 DEF IsKey, Roms
      <4>4. CASE h = 141
        <5>1. ws[141] = us[1]
          BY <2>2
        <5>2. T[i] = Key(nm)
          BY <2>3, <4>2, <4>4, <5>1
        <5>3. T[i].lexeme.name = "rom_name"
          <6>1. Key(nm).lexeme = Str(nm)
            BY <1>2, TokensOf
          <6>2. Str(nm).name = nm
            BY <1>2, LexesAre
          <6> QED
            BY <1>2, <5>2, <6>1, <6>2
        <5> QED
          BY <5>3 DEF IsKey
      <4>5. CASE h = 142
        <5>1. ws[142] = us[2]
          BY <2>2
        <5>2. T[i] = Token(v)
          BY <2>3, <4>2, <4>5, <5>1
        <5>3. T[i].size = 0
          BY <1>2, <5>2, TokensOf
        <5> QED
          BY <5>3 DEF IsKey
      <4> QED
        BY <4>1, <4>3, <4>4, <4>5
    <3> QED
      BY <3>1, <3>2
  <2> QED
    BY <1>8, <2>9, FindIs
<1>10. CASE name = "unescapable"
  <2> DEFINE W == F \o CommaSeq
             R == Member(nm, <<v>>)
             G == Headed(8, ts)
  <2>1. Parse(W) = G /\ W \in Seq(Lexes)
    BY <1>1, CommaKeeps
  <2>2. R \in Seq(Lexes) /\ Quiet(R)
    <3>1. R \in Seq(Lexes) /\ Len(R) = 3 /\ R[1] = Str(nm) /\ R[2] = Mark("colon") /\ R[3] = v
      BY <1>2, MemberIs
    <3>2. Str(nm).name # "rom" /\ Mark("colon").name # "rom" /\ v.name # "rom"
      <4>1. Str(nm).name = nm
        BY <1>2, LexesAre
      <4>2. Mark("colon").name = "none"
        BY DEF Mark
      <4>3. v.name = "none"
        BY <1>10, <1>u DEF Unescapable, Mark
      <4> QED
        BY <1>2, <4>1, <4>2, <4>3
    <3> HIDE DEF R
    <3> QED
      BY <3>1, <3>2 DEF Quiet
  <2>3. Free(S, 2, G)
    <3>0. 8 \in Nat
      OBVIOUS
    <3>1. /\ G \in Seq(Tokens) /\ Len(G) = 1 + Len(ts) /\ Len(ts) \in Nat
          /\ \A i \in 1..Len(ts) : G[i + 1] = ts[i]
      BY <3>0, HeadedIs
    <3> HIDE DEF G
    <3>2. ASSUME NEW i \in 1..Len(G), i >= 2 PROVE G[i].lexeme.name \notin S
      <4> DEFINE h == i - 1
      <4>1. h \in 1..Len(ts) /\ i = h + 1
        BY <3>1, <3>2
      <4> HIDE DEF h
      <4>2. G[i] = ts[h]
        BY <3>1, <4>1
      <4> QED
        BY <1>6, <4>1, <4>2, ZenonT(40) DEF Romless, Roms
    <3> QED
      BY <3>2 DEF Free
  <2> HIDE DEF W, R, G
  <2>4. R \o t \in Seq(Lexes) /\ Quiet(R \o t)
    BY <1>5, <2>2, QuietBoth
  <2>5. text = W \o (R \o t)
    <3>1. (W \o R) \o t = W \o (R \o t)
      BY <1>5, <2>1, <2>2, LexesCat
    <3>2. E = W \o R
      BY <1>3 DEF W, R
    <3> QED
      BY <1>5, <3>1, <3>2
  <2>6. Free(S, 2, T)
    <3> DEFINE j == 2
               u == R \o t
    <3>1. j \in Nat /\ Free({"rom"}, j, Parse(W)) /\ u \in Seq(Lexes) /\ Quiet(u)
      BY <2>1, <2>3, <2>4
    <3> HIDE DEF j, u
    <3>2. Free({"rom"}, j, Parse(W \o u))
      BY <2>1, <3>1, TailFree
    <3> QED
      BY <2>5, <3>2 DEF j, u
  <2> QED
    BY <1>7, <1>8, <2>6
<1> QED
  BY <1>9, <1>10

\* What a restore may be given: no ROM, or all that was saved.
AllHeard(T, m, name, beyond) ==
  /\ T \in Seq(Tokens) /\ Len(T) > 0 /\ T[1].size > 0 /\ Heard(T, m, beyond)
  /\ name # "unescapable" => RomHeard(T, m, name, beyond)
  /\ name # NoName => find_token(T, "rom") = Missing

\* Every file tells no ROM, or all of its machine; a whole file tells all of it.
LEMMA FileTokens ==
  ASSUME NEW m, NEW beyond, Writable(m, beyond), NEW name, Named1(name),
         NEW kept \in Nat \X BOOLEAN, NEW T, T = jsmn_parse(Text(Written(m, name, beyond, kept))).tokens
  PROVE  /\ Silent(T) \/ AllHeard(T, m, name, beyond)
         /\ kept = Whole => AllHeard(T, m, name, beyond)
<1> DEFINE text == Text(Written(m, name, beyond, kept))
           F == Opening(m, beyond)
           E == UpToRom(m, name, beyond)
           nm == RomKey(name)
<1>1. (EndsLow(text, F) \/ EndsMid(text, F, nm) \/ EndsHigh(text, E)) /\ (kept = Whole => EndsHigh(text, E))
  BY FileEnds DEF Ends
<1> HIDE DEF text
<1>2. ASSUME text \in Seq(Lexes) PROVE T = Parse(text)
  <2>1. jsmn_parse(text).tokens = After(jsmn_init, text).tokens
    BY <1>2, TokensAre
  <2> QED
    BY <2>1 DEF Parse, text
<1>3. PICK ts \in Seq(Tokens) : Speaks(Says(m, beyond), ts) /\ Reads(F, Headed(8, ts))
  BY OpeningReads DEF Writable
<1>4. Romless(ts) /\ Len(ts) = 140
  BY <1>3 DEF Speaks, Truthful
<1>5. nm \in Names
  BY RomIs
<1> HIDE DEF F, nm, E
<1>6. ASSUME EndsLow(text, F) PROVE Silent(T)
  <2>1. text \in Seq(Lexes) /\ Silent(Parse(text))
    BY <1>3, <1>4, <1>6, LowIsSilent
  <2> QED
    BY <1>2, <2>1
<1>7. ASSUME EndsMid(text, F, nm) PROVE Silent(T)
  <2>1. 1 + Len(ts) < MAX_JSON_TOKENS
    BY <1>4, RoomAssumption
  <2>2. text \in Seq(Lexes) /\ Silent(Parse(text))
    <3>1. Reads(F, Headed(8, ts))
      BY <1>3
    <3>2. Romless(ts)
      BY <1>4
    <3> DEFINE c == 8
    <3>3. c \in Nat /\ Reads(F, Headed(c, ts))
      BY <3>1
    <3> HIDE DEF c
    <3> QED
      BY <1>5, <1>7, <2>1, <3>2, <3>3, MidIsSilent
  <2> QED
    BY <1>2, <2>2
<1>8. ASSUME EndsHigh(text, E) PROVE AllHeard(T, m, name, beyond)
  <2>1. /\ text \in Seq(Lexes)
        /\ Heard(Parse(text), m, beyond) /\ Parse(text) \in Seq(Tokens) /\ Len(Parse(text)) > 0
        /\ Parse(text)[1].size > 0
        /\ name # "unescapable" => RomHeard(Parse(text), m, name, beyond)
    BY <1>8, HighHeard DEF E
  <2>2. name # NoName => find_token(Parse(text), "rom") = Missing
    BY <1>8, HighMute DEF E
  <2> QED
    BY <1>2, <2>1, <2>2 DEF AllHeard
<1> QED
  BY <1>1, <1>6, <1>7, <1>8

-----------------------------------------------------------------------------
(***************************************************************************)
(* A memory as a text and back.                                            *)
(***************************************************************************)
ByteOf(bytes, size, beyond, i)  == IF i < size THEN bytes[i] ELSE beyond
BlockOf(bytes, size, beyond, i) ==
  encodeblock(ByteOf(bytes, size, beyond, 3 * i), ByteOf(bytes, size, beyond, 3 * i + 1),
              ByteOf(bytes, size, beyond, 3 * i + 2), size - 3 * i)
Coding(f, bytes, size, beyond, N) ==
  f = [n \in 0..N |-> IF n = 0 THEN <<>> ELSE f[n - 1] \o BlockOf(bytes, size, beyond, n - 1)]

\* There is such a text.
LEMMA CodingSolved ==
  ASSUME NEW bytes, NEW size, NEW beyond, NEW N \in Nat
  PROVE  \E f : Coding(f, bytes, size, beyond, N)
<1> DEFINE H == {n \in Nat : \E f : Coding(f, bytes, size, beyond, n)}
           e == <<>>
           B(i) == BlockOf(bytes, size, beyond, i)
<1> HIDE DEF e, B
<1>0. \A f, n : Coding(f, bytes, size, beyond, n)
                <=> f = [j \in 0..n |-> IF j = 0 THEN e ELSE f[j - 1] \o B(j - 1)]
  BY DEF Coding, e, B
<1>1. 0 \in H
  <2> DEFINE g == [j \in 0..0 |-> e]
  <2>1. g = [j \in 0..0 |-> IF j = 0 THEN e ELSE g[j - 1] \o B(j - 1)]
    OBVIOUS
  <2> HIDE DEF g
  <2>2. Coding(g, bytes, size, beyond, 0)
    BY <1>0, <2>1
  <2> QED
    BY <2>2
<1>2. ASSUME NEW n \in 0..(N - 1), n \in H
      PROVE  n + 1 \in H
  <2>1. PICK f : Coding(f, bytes, size, beyond, n)
    BY <1>2
  <2>a. f = [j \in 0..n |-> IF j = 0 THEN e ELSE f[j - 1] \o B(j - 1)]
    BY <1>0, <2>1
  <2> DEFINE g == [i \in 0..(n + 1) |-> IF i <= n THEN f[i] ELSE f[i - 1] \o B(i - 1)]
  <2>2. ASSUME NEW i \in 0..(n + 1)
        PROVE  g[i] = IF i = 0 THEN e ELSE g[i - 1] \o B(i - 1)
    <3>1. CASE i = 0
      BY <2>a, <3>1
    <3>2. CASE i # 0
      <4>1. i - 1 \in 0..n /\ g[i - 1] = f[i - 1]
        BY <3>2
      <4>2. i <= n => f[i] = f[i - 1] \o B(i - 1)
        <5>1. i <= n => i \in 0..n
          OBVIOUS
        <5> QED
          BY <2>a, <3>2, <5>1, Zenon
      <4> QED
        BY <3>2, <4>1, <4>2
    <3> QED
      BY <3>1, <3>2
  <2>3. DOMAIN g = 0..(n + 1) /\ g = [i \in 0..(n + 1) |-> g[i]]
    OBVIOUS
  <2> HIDE DEF g
  <2>4. g = [i \in 0..(n + 1) |-> IF i = 0 THEN e ELSE g[i - 1] \o B(i - 1)]
    BY <2>2, <2>3, Zenon
  <2>5. Coding(g, bytes, size, beyond, n + 1)
    BY <1>0, <2>4
  <2> QED
    BY <2>5
<1> HIDE DEF H
<1>3. N \in H
  BY <1>1, <1>2, Inductive
<1> QED
  BY <1>3 DEF H

\* What it is, block after block.
Coded(text, bytes, size, beyond, n) ==
  /\ text \in Seq(Int) /\ Len(text) = 4 * n
  /\ \A b \in 0..(n - 1), k \in 1..4 : text[4 * b + k] = BlockOf(bytes, size, beyond, b)[k]

\* A byte, or what follows.
LEMMA ByteIs ==
  ASSUME NEW size \in Nat, NEW bytes \in [0..(size - 1) -> 0..255], NEW beyond \in 0..255, NEW i \in Nat
  PROVE  /\ ByteOf(bytes, size, beyond, i) \in 0..255
         /\ i < size => ByteOf(bytes, size, beyond, i) = bytes[i]
<1>1. i < size => i \in 0..(size - 1) /\ bytes[i] \in 0..255
  BY SMTT(40)
<1> QED
  BY <1>1 DEF ByteOf

\* The characters of a block.
LEMMA BlockIs ==
  ASSUME NEW size \in Nat, NEW bytes \in [0..(size - 1) -> 0..255], NEW beyond \in 0..255, NEW b \in Nat
  PROVE  BlockOf(bytes, size, beyond, b) \in Seq(Int) /\ Len(BlockOf(bytes, size, beyond, b)) = 4
<1> DEFINE x == ByteOf(bytes, size, beyond, 3 * b)
           y == ByteOf(bytes, size, beyond, 3 * b + 1)
           z == ByteOf(bytes, size, beyond, 3 * b + 2)
           n == size - 3 * b
<1>1. x \in Int /\ y \in Int /\ z \in Int
  <2>1. 3 * b \in Nat /\ 3 * b + 1 \in Nat /\ 3 * b + 2 \in Nat
    BY SMTT(40)
  <2>2. x \in 0..255 /\ y \in 0..255 /\ z \in 0..255
    BY <2>1, ByteIs, ZenonT(40)
  <2> HIDE DEF x, y, z
  <2> QED
    BY <2>2
<1> HIDE DEF x, y, z, n
<1>2. encodeblock(x, y, z, n) \in Seq(Int) /\ Len(encodeblock(x, y, z, n)) = 4
  BY <1>1 DEF encodeblock, Padding
<1> QED
  BY <1>2 DEF BlockOf, x, y, z, n

\* A text and one block more.
LEMMA CodedMore ==
  ASSUME NEW size \in Nat, NEW bytes \in [0..(size - 1) -> 0..255], NEW beyond \in 0..255, NEW n \in Nat,
         NEW text, Coded(text, bytes, size, beyond, n)
  PROVE  Coded(text \o BlockOf(bytes, size, beyond, n), bytes, size, beyond, n + 1)
<1> DEFINE B(b) == BlockOf(bytes, size, beyond, b)
           B0 == B(n)
           t == text \o B0
<1>1. B0 \in Seq(Int) /\ Len(B0) = 4
  BY BlockIs
<1> HIDE DEF B0, B
<1>2. text \in Seq(Int) /\ Len(text) = 4 * n
      /\ \A b \in 0..(n - 1), k \in 1..4 : text[4 * b + k] = B(b)[k]
  BY DEF Coded, B
<1>3. /\ t \in Seq(Int) /\ Len(t) = 4 * n + 4
      /\ \A i \in 1..(4 * n + 4) : t[i] = IF i <= 4 * n THEN text[i] ELSE B0[i - 4 * n]
  <2> DEFINE L == 4 * n
  <2>1. text \in Seq(Int) /\ Len(text) = L /\ L \in Nat
    BY <1>2
  <2> HIDE DEF L
  <2>2. /\ t \in Seq(Int) /\ Len(t) = L + 4
        /\ \A i \in 1..(L + 4) : t[i] = IF i <= L THEN text[i] ELSE B0[i - L]
    <3>1. B0 \in Seq(Int) /\ text \in Seq(Int)
      BY <1>1, <2>1
    <3>2. /\ text \o B0 \in Seq(Int) /\ Len(text \o B0) = Len(text) + Len(B0)
          /\ \A i \in 1..(Len(text) + Len(B0)) :
               (text \o B0)[i] = IF i <= Len(text) THEN text[i] ELSE B0[i - Len(text)]
      BY <3>1, ConcatProperties
    <3> QED
      BY <1>1, <2>1, <3>2 DEF t
  <2> QED
    BY <2>2 DEF L
<1> HIDE DEF t
<1>4. ASSUME NEW b \in 0..n, NEW k \in 1..4
      PROVE  t[4 * b + k] = B(b)[k]
  <2> DEFINE i == 4 * b + k
  <2>1. CASE b = n
    <3>1. i \in 1..(4 * n + 4) /\ ~(i <= 4 * n) /\ i - 4 * n = k
      BY <2>1
    <3> HIDE DEF i
    <3>2. t[i] = B0[k]
      BY <1>3, <3>1
    <3> QED
      BY <2>1, <3>2 DEF i, B0
  <2>2. CASE b # n
    <3>1. i \in 1..(4 * n + 4) /\ i <= 4 * n /\ b \in 0..(n - 1)
      BY <2>2
    <3>2. text[i] = B(b)[k]
      BY <1>2, <3>1
    <3> HIDE DEF i
    <3>3. t[i] = text[i]
      BY <1>3, <3>1
    <3> QED
      BY <3>2, <3>3 DEF i
  <2> QED
    BY <2>1, <2>2
<1>5. 4 * (n + 1) = 4 * n + 4 /\ (n + 1) - 1 = n
  OBVIOUS
<1>6. \A b \in 0..((n + 1) - 1), k \in 1..4 : t[4 * b + k] = B(b)[k]
  BY <1>4, <1>5
<1> QED
  BY <1>3, <1>5, <1>6 DEF Coded, t, B, B0

\* What encode_blob writes.
LEMMA EncodeIs ==
  ASSUME NEW size \in Nat, NEW bytes \in [0..(size - 1) -> 0..255], NEW beyond \in 0..255
  PROVE  Coded(encode_blob(bytes, size, beyond), bytes, size, beyond, (size + 2) \div 3)
<1> DEFINE N == (size + 2) \div 3
           f == CHOOSE g : Coding(g, bytes, size, beyond, N)
           B(i) == BlockOf(bytes, size, beyond, i)
           H == {n \in Nat : n \in 0..N => Coded(f[n], bytes, size, beyond, n)}
<1>1. N \in Nat
  OBVIOUS
<1>2. encode_blob(bytes, size, beyond) = f[N]
  BY DEF encode_blob, Coding, BlockOf, ByteOf
<1> HIDE DEF N
<1>3. Coding(f, bytes, size, beyond, N)
  BY <1>1, CodingSolved
<1> HIDE DEF f
<1>4. f = [n \in 0..N |-> IF n = 0 THEN <<>> ELSE f[n - 1] \o B(n - 1)]
  BY <1>3 DEF Coding
<1> HIDE DEF B
<1>5. 0 \in H
  <2>1. f[0] = <<>>
    BY <1>1, <1>4
  <2>2. Coded(<<>>, bytes, size, beyond, 0)
    BY DEF Coded
  <2> QED
    BY <2>1, <2>2
<1>6. ASSUME NEW n \in 0..(N - 1), n \in H PROVE n + 1 \in H
  <2>0. n \in Nat /\ n \in 0..N
    BY <1>1
  <2>1. Coded(f[n], bytes, size, beyond, n)
    BY <1>6, <2>0
  <2>2. f[n + 1] = f[n] \o B(n)
    <3>1. n + 1 \in 0..N /\ n + 1 # 0 /\ (n + 1) - 1 = n
      BY <1>1
    <3>2. f[n + 1] = f[(n + 1) - 1] \o B((n + 1) - 1)
      BY <1>4, <3>1, Zenon
    <3> QED
      BY <3>1, <3>2
  <2>3. Coded(f[n] \o B(n), bytes, size, beyond, n + 1)
    BY <2>0, <2>1, CodedMore DEF B
  <2>4. Coded(f[n + 1], bytes, size, beyond, n + 1)
    BY <2>2, <2>3
  <2> QED
    BY <2>0, <2>4
<1> HIDE DEF H
<1>7. 0..N \subseteq H
  BY <1>1, <1>5, <1>6, Inductive
<1>8. N \in H
  BY <1>1, <1>7
<1> QED
  BY <1>1, <1>2, <1>8 DEF H, N

\* What a coder keeps of three bytes, of which n are given.
IsByte(x)              == x \in 0..255
IsBytes(bytes, size)   == bytes \in [0..(size - 1) -> 0..255]
Back(q, a, b, c, n) ==
  /\ decodeblock(q)[1] = a
  /\ n > 1 => decodeblock(q)[2] = b
  /\ n > 2 => decodeblock(q)[3] = c
  /\ n = 1 => BytesIn(q) = 1
  /\ n = 2 => BytesIn(q) = 2

\* Three bytes in four characters and back.
LEMMA BlockBack ==
  ASSUME NEW a, NEW b, NEW c, IsByte(a), IsByte(b), IsByte(c), NEW n \in Int
  PROVE  Back(encodeblock(a, b, c, n), a, b, c, n)
<1> DEFINE q == encodeblock(a, b, c, n)
           a1 == a \div 4
           a0 == a % 4
           b1 == b \div 16
           b0 == b % 16
           c1 == c \div 64
           c0 == c % 64
           p2 == 16 * a0 + b1
           p3 == 4 * b0 + c1
<1>1. /\ a = 4 * a1 + a0 /\ a1 \in 0..63 /\ a0 \in 0..3
      /\ b = 16 * b1 + b0 /\ b1 \in 0..15 /\ b0 \in 0..15
      /\ c = 64 * c1 + c0 /\ c1 \in 0..3 /\ c0 \in 0..63
  <2>1. a \in 0..255 /\ b \in 0..255 /\ c \in 0..255
    BY DEF IsByte
  <2> QED
    BY <2>1
<1>2. /\ q[1] = a1 /\ q[2] = p2
      /\ q[3] = IF n > 1 THEN p3 ELSE 64
      /\ q[4] = IF n > 2 THEN c0 ELSE 64
  BY DEF encodeblock, Padding
<1> HIDE DEF a1, a0, b1, b0, c1, c0
<1>3. p2 \in 0..63 /\ p2 \div 16 = a0 /\ p3 \in 0..63 /\ p3 \div 4 = b0 /\ p3 % 4 = c1
  BY <1>1
<1>4. (4 * a1 + a0) % 256 = a
  BY <1>1
<1>5. (16 * p2 + b0) % 256 = b
  <2>1. 16 * p2 + b0 = 256 * a0 + b
    BY <1>1
  <2>2. a0 \in {0, 1, 2, 3}
    BY <1>1
  <2>3. b \in 0..255 /\ (16 * p2 + b0) \in Int
    BY <1>1
  <2> DEFINE u == 16 * p2 + b0
  <2> HIDE DEF u, p2
  <2>4. u % 256 = b
    BY <2>1, <2>2, <2>3 DEF u
  <2> QED
    BY <2>4 DEF u
<1>6. 64 * c1 + c0 = c
  BY <1>1
<1> HIDE DEF q, p2, p3
<1>7. a1 # 64 /\ p2 # 64 /\ p3 # 64 /\ c0 # 64
  BY <1>1, <1>3
<1>8. decodeblock(q)[1] = (4 * Decoded64(q[1]) + (Decoded64(q[2]) \div 16)) % 256
      /\ decodeblock(q)[2] = (16 * Decoded64(q[2]) + (Decoded64(q[3]) \div 4)) % 256
      /\ decodeblock(q)[3] = 64 * (Decoded64(q[3]) % 4) + Decoded64(q[4])
  BY DEF decodeblock
<1>9. Decoded64(q[1]) = a1 /\ Decoded64(q[2]) = p2
      /\ (n > 1 => Decoded64(q[3]) = p3) /\ (n > 2 => Decoded64(q[4]) = c0)
  <2>1. n > 2 => n > 1
    OBVIOUS
  <2> QED
    BY <1>2, <1>7, <2>1 DEF Decoded64, Padding
<1>10. decodeblock(q)[1] = a
  BY <1>3, <1>4, <1>8, <1>9
<1>11. n > 1 => decodeblock(q)[2] = b
  BY <1>3, <1>5, <1>8, <1>9
<1>12. n > 2 => decodeblock(q)[3] = c
  <2>1. n > 2 => n > 1
    OBVIOUS
  <2> QED
    BY <1>3, <1>6, <1>8, <1>9, <2>1
<1>13. (n = 1 => BytesIn(q) = 1) /\ (n = 2 => BytesIn(q) = 2)
  BY <1>2, <1>7 DEF BytesIn, Padding
<1> QED
  BY <1>10, <1>11, <1>12, <1>13 DEF q, Back

\* The bytes that encode reads are those of the memory, and past its end the byte beyond.
LEMMA ByteAt ==
  ASSUME NEW size \in Nat, NEW bytes, IsBytes(bytes, size), NEW beyond, IsByte(beyond), NEW i \in Nat
  PROVE  IsByte(ByteOf(bytes, size, beyond, i)) /\ (i < size => ByteOf(bytes, size, beyond, i) = bytes[i])
<1>1. bytes \in [0..(size - 1) -> 0..255] /\ beyond \in 0..255
  BY DEF IsByte, IsBytes
<1>2. i < size => i \in 0..(size - 1)
  OBVIOUS
<1> QED
  BY <1>1, <1>2 DEF IsByte, ByteOf

\* The bytes that a block holds.
Held(q, bytes, size, b) ==
  /\ 3 * b < size => decodeblock(q)[1] = bytes[3 * b]
  /\ 3 * b + 1 < size => decodeblock(q)[2] = bytes[3 * b + 1]
  /\ 3 * b + 2 < size => decodeblock(q)[3] = bytes[3 * b + 2]
  /\ size - 3 * b = 1 => BytesIn(q) = 1
  /\ size - 3 * b = 2 => BytesIn(q) = 2

\* A block of four letters gives back the bytes it was made of.
LEMMA BlockHolds ==
  ASSUME NEW size \in Nat, NEW bytes \in [0..(size - 1) -> 0..255], NEW beyond \in 0..255, NEW b \in Nat
  PROVE  Held(BlockOf(bytes, size, beyond, b), bytes, size, b)
<1> DEFINE i0 == 3 * b
           i1 == 3 * b + 1
           i2 == 3 * b + 2
           x == ByteOf(bytes, size, beyond, i0)
           y == ByteOf(bytes, size, beyond, i1)
           z == ByteOf(bytes, size, beyond, i2)
           n == size - 3 * b
           q == encodeblock(x, y, z, n)
<1>1. i0 \in Nat /\ i1 \in Nat /\ i2 \in Nat /\ n \in Int
  OBVIOUS
<1>2. (i1 < size => n > 1) /\ (i2 < size => n > 2)
  OBVIOUS
<1>3. q = BlockOf(bytes, size, beyond, b)
  BY DEF BlockOf
<1>b. IsBytes(bytes, size) /\ IsByte(beyond)
  BY DEF IsByte, IsBytes
<1> HIDE DEF i0, i1, i2, n
<1>4. IsByte(x) /\ (i0 < size => x = bytes[i0])
  BY <1>1, <1>b, ByteAt
<1>5. IsByte(y) /\ (i1 < size => y = bytes[i1])
  BY <1>1, <1>b, ByteAt
<1>6. IsByte(z) /\ (i2 < size => z = bytes[i2])
  BY <1>1, <1>b, ByteAt
<1> HIDE DEF x, y, z
<1>a. Back(q, x, y, z, n)
  BY <1>1, <1>4, <1>5, <1>6, BlockBack
<1> HIDE DEF q
<1>7. /\ decodeblock(q)[1] = x
      /\ n > 1 => decodeblock(q)[2] = y
      /\ n > 2 => decodeblock(q)[3] = z
      /\ n = 1 => BytesIn(q) = 1
      /\ n = 2 => BytesIn(q) = 2
  BY <1>a DEF Back
<1>8. /\ i0 < size => decodeblock(q)[1] = bytes[i0]
      /\ i1 < size => decodeblock(q)[2] = bytes[i1]
      /\ i2 < size => decodeblock(q)[3] = bytes[i2]
  BY <1>2, <1>4, <1>5, <1>6, <1>7
<1> QED
  BY <1>3, <1>7, <1>8 DEF Held, i0, i1, i2, n

\* A memory whose text has an end comes back.
THEOREM BlobsComeBack ==
  ASSUME NEW size \in Nat, size % 3 # 0, NEW bytes, IsBytes(bytes, size), NEW beyond, IsByte(beyond),
         NEW out, IsBytes(out, size)
  PROVE  decode_blob(encode_blob(bytes, size, beyond), out) = bytes
<1> DEFINE N == (size + 2) \div 3
           text == encode_blob(bytes, size, beyond)
           B(b) == BlockOf(bytes, size, beyond, b)
           block(b) == SubSeq(text, 4 * b + 1, 4 * b + 4)
           given(i) == i \div 3 < N /\ (i \div 3 < N - 1 \/ i % 3 < BytesIn(block(i \div 3)))
<1>0. bytes \in [0..(size - 1) -> 0..255] /\ out \in [0..(size - 1) -> 0..255] /\ beyond \in 0..255
  BY Zenon DEF IsByte, IsBytes
<1>1. text \in Seq(Int) /\ Len(text) = 4 * N /\ \A b \in 0..(N - 1), k \in 1..4 : text[4 * b + k] = B(b)[k]
  BY <1>0, EncodeIs, ZenonT(40) DEF Coded
<1>2. N \in Nat /\ Len(text) \div 4 = N
  BY <1>1
<1>3. decode_blob(text, out)
        = [i \in DOMAIN out |-> IF given(i) THEN decodeblock(block(i \div 3))[(i % 3) + 1] ELSE out[i]]
  BY <1>2, Zenon DEF decode_blob
<1> HIDE DEF text, B
<1>4. ASSUME NEW b \in 0..(N - 1) PROVE block(b) = B(b)
  <2>0. b \in Nat
    OBVIOUS
  <2>1. B(b) \in Seq(Int) /\ Len(B(b)) = 4
    BY <1>0, <2>0, BlockIs DEF B
  <2>2. 4 * b + 1 \in 1..Len(text) /\ 4 * b + 4 \in 1..Len(text)
    BY <1>1
  <2> DEFINE lo == 4 * b + 1
             hi == 4 * b + 4
  <2>3. hi - lo + 1 = 4 /\ lo \in 1..Len(text) /\ hi \in 1..Len(text) /\ \A k \in 1..4 : lo + k - 1 = 4 * b + k
    BY <2>2
  <2> HIDE DEF lo, hi
  <2>4. SubSeq(text, lo, hi) \in Seq(Int) /\ Len(SubSeq(text, lo, hi)) = 4
        /\ \A k \in 1..4 : SubSeq(text, lo, hi)[k] = text[lo + k - 1]
    <3>1. text \in Seq(Int)
      BY <1>1
    <3>2. lo \in 1..Len(text) /\ hi \in 1..Len(text) /\ hi - lo + 1 = 4 /\ lo <= hi /\ lo \in Int /\ hi \in Int
      BY <1>2, <2>2, <2>3
    <3>3. /\ SubSeq(text, lo, hi) \in Seq(Int)
          /\ Len(SubSeq(text, lo, hi)) = IF lo <= hi THEN hi - lo + 1 ELSE 0
          /\ \A i \in 1..(hi - lo + 1) : SubSeq(text, lo, hi)[i] = text[lo + i - 1]
      BY <3>1, <3>2, SubSeqProperties
    <3> QED
      BY <3>2, <3>3
  <2>5. \A k \in 1..4 : SubSeq(text, lo, hi)[k] = B(b)[k]
    BY <1>1, <2>3, <2>4, ZenonT(40)
  <2>6. SubSeq(text, lo, hi) = B(b)
    BY <2>1, <2>4, <2>5, SeqEqual
  <2> QED
    BY <2>6 DEF lo, hi
<1> HIDE DEF block
<1>5. ASSUME NEW i \in 0..(size - 1)
      PROVE  given(i) /\ decodeblock(block(i \div 3))[(i % 3) + 1] = bytes[i]
  <2> DEFINE b == i \div 3
             k == i % 3
             n == size - 3 * b
             q == BlockOf(bytes, size, beyond, b)
  <2>1. i = 3 * b + k /\ b \in Nat /\ k \in 0..2 /\ n > k /\ n \in Int
    OBVIOUS
  <2>2. b \in 0..(N - 1) /\ (b = N - 1 => n \in {1, 2})
    <3> DEFINE r == size % 3
               d == size \div 3
    <3>1. size = 3 * d + r /\ r \in 1..2 /\ d \in Nat
      OBVIOUS
    <3> HIDE DEF r, d
    <3>2. N = d + 1
      BY <3>1
    <3> HIDE DEF N, b, k
    <3> QED
      BY <2>1, <3>1, <3>2
  <2> HIDE DEF N
  <2>3. block(b) = q
    BY <1>4, <2>2 DEF B
  <2> HIDE DEF b, k
  <2>4. Held(q, bytes, size, b)
    BY <1>0, <2>1, BlockHolds
  <2> HIDE DEF q
  <2>5. /\ 3 * b < size => decodeblock(q)[1] = bytes[3 * b]
        /\ 3 * b + 1 < size => decodeblock(q)[2] = bytes[3 * b + 1]
        /\ 3 * b + 2 < size => decodeblock(q)[3] = bytes[3 * b + 2]
        /\ (n = 1 => BytesIn(q) = 1) /\ (n = 2 => BytesIn(q) = 2)
    BY <2>4 DEF Held
  <2>6. decodeblock(q)[k + 1] = bytes[i]
    <3>1. k = 0 \/ k = 1 \/ k = 2
      BY <2>1
    <3>2. CASE k = 0
      <4>1. 3 * b < size /\ i = 3 * b
        BY <2>1, <3>2
      <4> QED
        BY <2>5, <3>2, <4>1
    <3>3. CASE k = 1
      <4>1. 3 * b + 1 < size /\ i = 3 * b + 1
        BY <2>1, <3>3
      <4> QED
        BY <2>5, <3>3, <4>1
    <3>4. CASE k = 2
      <4>1. 3 * b + 2 < size /\ i = 3 * b + 2
        BY <2>1, <3>4
      <4> QED
        BY <2>5, <3>4, <4>1
    <3> QED
      BY <3>1, <3>2, <3>3, <3>4
  <2>7. b < N /\ (b < N - 1 \/ k < BytesIn(q))
    <3>1. b < N /\ (b < N - 1 \/ b = N - 1)
      BY <1>2, <2>2
    <3>2. CASE b = N - 1
      <4>1. n = 1 \/ n = 2
        BY <2>2, <3>2
      <4> QED
        BY <2>1, <2>5, <3>1, <4>1
    <3> QED
      BY <3>1, <3>2
  <2> QED
    BY <2>3, <2>6, <2>7 DEF b, k
<1> HIDE DEF given
<1>6. DOMAIN out = 0..(size - 1)
  BY <1>0
<1>7. decode_blob(text, out) = [i \in 0..(size - 1) |-> bytes[i]]
  BY <1>3, <1>5, <1>6
<1>8. bytes = [i \in 0..(size - 1) |-> bytes[i]]
  BY <1>0, SMTT(40)
<1> QED
  BY <1>7, <1>8, SMTT(40) DEF text

\* What fits can be written.
LEMMA FitsWritten ==
  ASSUME NEW m, Fitting(m), NEW beyond, IsByte(beyond)
  PROVE  Writable(m, beyond)
<1>1. ASSUME NEW b, NEW size, size \in Nat, b \in [0..(size - 1) -> 0..255]
      PROVE  encode_blob(b, size, beyond) \in Seq(Int)
  <2>1. beyond \in 0..255
    BY DEF IsByte
  <2> QED
    BY <1>1, <2>1, EncodeIs, Zenon DEF Coded
<1>2. RAM_BYTES \in Nat /\ VRAM_BYTES \in Nat /\ ROM_BYTES \in Nat
  BY BlobAssumption
<1>3. /\ m["ram"] \in [0..(RAM_BYTES - 1) -> 0..255]
      /\ m["vram"] \in [0..(VRAM_BYTES - 1) -> 0..255]
      /\ m["rom"] \in [0..(ROM_BYTES - 1) -> 0..255]
  BY DEF Fitting
<1> QED
  BY <1>1, <1>2, <1>3, ZenonT(40) DEF Writable, Blobs

\* atoi of what snprintf wrote.
LEMMA AtoiIs ==
  ASSUME NEW n \in Nat, n < 65536
  PROVE  atoi(Token(Num(n))) = n
<1>1. Token(Num(n)).lexeme.number = n
  <2>1. Num(n).number = n
    BY DEF Num, Mark
  <2> QED
    BY <2>1 DEF Token
<1>2. n < 1000000000
  OBVIOUS
<1> QED
  BY <1>1, <1>2 DEF atoi

\* A number that fits is not cut.
LEMMA FitsIn ==
  ASSUME NEW w \in Nat, NEW n \in 0..(w - 1)
  PROVE  n % w = n
OBVIOUS

\* How wide the variables are.
LEMMA WidthsAre ==
  /\ \A name : Width(name) \in {256, 65536}
  /\ \A name \in Numbers : Width(name) = IF name \in Wide THEN 65536 ELSE 256
  /\ Width("tone") = 65536
  /\ \A name \in {"volume", "opcode", "read_buffer", "write_buffer"} : Width(name) = 256
<1>1. \A name \in Numbers : name # "tone"
  BY NamesApart DEF Fours
<1>2. \A name \in {"volume", "opcode", "read_buffer", "write_buffer"} : name \notin Wide \cup {"tone"}
  BY DEF Wide
<1> QED
  BY <1>1, <1>2 DEF Width

\* Where a token is found is a place.
LEMMA PlaceIs ==
  ASSUME NEW T \in Seq(Tokens), NEW name
  PROVE  find_token(T, name) \in Nat
<1>1. Missing \in Nat
  BY DEF Missing
<1>2. CASE \A i \in 2..Len(T) : ~IsKey(T[i], name)
  BY <1>1, <1>2, FindIs
<1>3. CASE \E i \in 2..Len(T) : IsKey(T[i], name)
  <2>1. PICK i \in 2..Len(T) : find_token(T, name) = 1 + i
    BY <1>3, FindIs
  <2> QED
    BY <2>1
<1> QED
  BY <1>2, <1>3

\* A number comes back.
LEMMA NumberBack ==
  ASSUME NEW m, Fitting(m), NEW beyond, NEW name \in Numbers, NEW T \in Seq(Tokens),
         Hears(T, name, Says(m, beyond)[name])
  PROVE  get_json_integer(T, name) = m[name]
<1> DEFINE n == m[name]
           t == find_token(T, name)
           w == Width(name)
<1>1. n \in 0..(w - 1) /\ w \in {256, 65536} /\ w = IF name \in Wide THEN 65536 ELSE 256
  BY WidthsAre DEF Fitting
<1>2. Says(m, beyond)[name] = <<Token(Num(n))>>
  BY DEF Says, Said, Known
<1> HIDE DEF n, t, w
<1>3. T[t] = Token(Num(n)) /\ t # Missing
  <2> DEFINE us == <<Token(Num(n))>>
  <2>1. Len(us) = 1 /\ us[1] = Token(Num(n))
    OBVIOUS
  <2> HIDE DEF us
  <2>2. Hears(T, name, us)
    BY <1>2 DEF us
  <2>3. t # Missing /\ \A k \in 1..1 : T[t + k - 1] = us[k]
    BY <2>1, <2>2 DEF Hears, t
  <2>4. t \in Int
    BY PlaceIs DEF t
  <2>5. t + 1 - 1 = t /\ 1 \in 1..1
    BY <2>4
  <2> QED
    BY <2>1, <2>3, <2>5
<1>4. n \in Nat /\ n < 65536 /\ n % w = n
  <2>1. n \in 0..(w - 1)
    BY <1>1
  <2>2. w \in Nat /\ w <= 65536
    BY <1>1
  <2>3. n % w = n
    BY <2>1, <2>2, FitsIn
  <2> QED
    BY <2>1, <2>2, <2>3
<1>5. atoi(T[t]) = n
  <2>1. atoi(Token(Num(n))) = n
    BY <1>4, AtoiIs
  <2> QED
    BY <1>3, <2>1
<1>6. Cast(name, n) = n
  BY <1>1, <1>4 DEF Cast
<1>7. get_json_integer(T, name) = Cast(name, atoi(T[t]))
  BY DEF get_json_integer, t
<1> QED
  BY <1>5, <1>6, <1>7 DEF n

\* The value of an array comes back, and its token counts as much.
LEMMA ArrayBack ==
  ASSUME NEW m, Fitting(m), NEW beyond, NEW name, NEW n,
         (name \in Fours /\ n = 4) \/ (name \in Twos /\ n = 2),
         NEW T \in Seq(Tokens), Hears(T, name, Says(m, beyond)[name])
  PROVE  /\ GetArray(T, name, n, Width(name)) = m[name]
         /\ T[find_token(T, name)].size = n
<1> DEFINE a == m[name]
           t == find_token(T, name)
           w == Width(name)
           us == Arrayed(a, n)
<1>1. w \in {256, 65536} /\ name \in Known /\ name \notin Numbers /\ ~(name \in Fours /\ name \in Twos)
  BY WidthsAre, NamesApart DEF Known, Fours, Twos
<1>2. a \in [0..(n - 1) -> 0..(w - 1)]
  <2>1. CASE name \in Fours /\ n = 4
    <3>1. a \in [0..3 -> 0..(w - 1)] /\ n - 1 = 3
      BY <2>1 DEF Fitting
    <3> QED
      BY <3>1
  <2>2. CASE name \in Twos /\ n = 2
    <3>1. a \in [0..1 -> 0..(w - 1)] /\ n - 1 = 1
      BY <2>2 DEF Fitting
    <3> QED
      BY <3>1
  <2> QED
    BY <2>1, <2>2
<1>3. n \in Nat /\ n > 0
  OBVIOUS
<1>4. Says(m, beyond)[name] = us
  BY <1>1 DEF Says, Said
<1> HIDE DEF a, t, w
<1>5. w \in Nat /\ w <= 65536
  BY <1>1
<1>6. ASSUME NEW i \in 0..(n - 1) PROVE a[i] \in Nat /\ a[i] < 65536 /\ a[i] % w = a[i]
  <2>1. a[i] \in 0..(w - 1)
    BY <1>2
  <2> DEFINE x == a[i]
  <2> HIDE DEF x
  <2>2. x \in 0..(w - 1)
    BY <2>1 DEF x
  <2>3. x % w = x
    BY <1>5, <2>2, FitsIn
  <2>4. x \in Nat /\ x < 65536
    BY <1>5, <2>2
  <2> QED
    BY <2>3, <2>4 DEF x
<1>7. /\ us \in Seq(Tokens) /\ Len(us) = 1 + n
      /\ Elements(a, n) \in Seq(Tokens) /\ Len(Elements(a, n)) = n
      /\ \A i \in 1..n : Elements(a, n)[i] = Token(Num(a[i - 1]))
  <2>1. \A i \in 0..(n - 1) : a[i] \in Int
    BY <1>6
  <2> QED
    BY <1>3, <2>1, ElementsAre
<1> DEFINE q == Sized(Mark("array"), n)
<1>8. us[1] = q /\ \A i \in 0..(n - 1) : us[i + 2] = Token(Num(a[i]))
  <2> DEFINE e == Elements(a, n)
             Q == <<q>>
  <2>q. q \in Tokens
    BY LexesAre DEF Kinds, Sized, Tokens
  <2>1. us = Q \o e
    BY DEF Arrayed
  <2>2. e \in Seq(Tokens) /\ Len(e) = n
    BY <1>7
  <2> HIDE DEF q, e, us
  <2>0. Len(Q) = 1 /\ Q[1] = q /\ Q \in Seq(Tokens)
    BY <2>q, JustOne
  <2> HIDE DEF Q
  <2>3. \A i \in 1..(1 + n) : (Q \o e)[i] = IF i <= 1 THEN Q[i] ELSE e[i - 1]
    <3>1. \A i \in 1..(Len(Q) + Len(e)) : (Q \o e)[i] = IF i <= Len(Q) THEN Q[i] ELSE e[i - Len(Q)]
      BY <2>0, <2>2, ConcatProperties
    <3> QED
      BY <2>0, <2>2, <3>1
  <2>4. us[1] = q
    <3>1. 1 \in 1..(1 + n)
      BY <1>3
    <3> QED
      BY <2>0, <2>1, <2>3, <3>1
  <2>5. ASSUME NEW i \in 0..(n - 1) PROVE us[i + 2] = Token(Num(a[i]))
    <3>1. i + 2 \in 1..(1 + n) /\ ~(i + 2 <= 1) /\ (i + 2) - 1 = i + 1 /\ i + 1 \in 1..n /\ (i + 1) - 1 = i
      BY <1>3
    <3>2. us[i + 2] = e[i + 1]
      BY <2>1, <2>3, <3>1
    <3>3. e[i + 1] = Token(Num(a[(i + 1) - 1]))
      BY <1>7, <3>1 DEF e
    <3> QED
      BY <3>1, <3>2, <3>3
  <2> QED
    BY <2>4, <2>5
<1> HIDE DEF us, q
<1>9. t \in Nat /\ \A k \in 1..(1 + n) : T[t + k - 1] = us[k]
  <2>1. Hears(T, name, us)
    BY <1>4
  <2> QED
    BY <1>7, <2>1, PlaceIs DEF Hears, t
<1>10. T[t] = q
  <2>1. 1 \in 1..(1 + n) /\ t + 1 - 1 = t
    BY <1>3, <1>9
  <2> QED
    BY <1>8, <1>9, <2>1
<1>11. ASSUME NEW i \in 0..(n - 1) PROVE atoi(T[t + 1 + i]) % w = a[i]
  <2>1. i + 2 \in 1..(1 + n) /\ t + (i + 2) - 1 = t + 1 + i
    BY <1>3, <1>9
  <2>2. T[t + 1 + i] = Token(Num(a[i]))
    BY <1>8, <1>9, <2>1
  <2> DEFINE x == a[i]
  <2>3. x \in Nat /\ x < 65536 /\ x % w = x
    BY <1>6
  <2> HIDE DEF x
  <2>4. atoi(Token(Num(x))) = x
    BY <2>3, AtoiIs
  <2> QED
    BY <2>2, <2>3, <2>4 DEF x
<1>12. GetArray(T, name, n, w) = [i \in 0..(n - 1) |-> a[i]]
  <2>1. GetArray(T, name, n, w) = [i \in 0..(n - 1) |-> atoi(T[t + 1 + i]) % w]
    BY DEF GetArray, t
  <2> QED
    BY <1>11, <2>1
<1>13. a = [i \in 0..(n - 1) |-> a[i]]
  BY <1>2
<1>14. q.size = n
  BY DEF q, Sized
<1> QED
  BY <1>10, <1>12, <1>13, <1>14 DEF a, t, w

\* A memory comes back.
LEMMA MemoryBack ==
  ASSUME NEW size \in Nat, size % 3 # 0, NEW bytes, IsBytes(bytes, size), NEW beyond, IsByte(beyond),
         NEW out, IsBytes(out, size)
  PROVE  decode_blob(Token(Blob(encode_blob(bytes, size, beyond))).lexeme.blob, out) = bytes
<1> DEFINE token == Token(Blob(encode_blob(bytes, size, beyond)))
<1>1. token.lexeme.blob = encode_blob(bytes, size, beyond)
  <2> DEFINE text == encode_blob(bytes, size, beyond)
  <2> HIDE DEF text
  <2>1. Blob(text).blob = text
    BY DEF Blob, Mark
  <2>2. Token(Blob(text)).lexeme = Blob(text)
    BY DEF Token
  <2> QED
    BY <2>1, <2>2 DEF text
<1> HIDE DEF token
<1>2. decode_blob(token.lexeme.blob, out) = bytes
  BY <1>1, BlobsComeBack
<1> QED
  BY <1>2 DEF token

\* What a restore makes of each name.
LEMMA RestoredOf ==
  ASSUME NEW T, NEW W, NEW x \in DOMAIN W
  PROVE  /\ x \in Numbers => Restored(T, W)[x] = get_json_integer(T, x)
         /\ x \in Fours => Restored(T, W)[x] = GetArray(T, x, 4, Width(x))
         /\ x \in Twos => Restored(T, W)[x] = GetArray(T, x, 2, Width(x))
         /\ x \in {"ram", "vram"} => Restored(T, W)[x] = RestoreBlob(T, x, W)
         /\ x = "rom" => Restored(T, W)[x] = IF find_token(T, "rom") = Missing THEN W["rom"]
                                             ELSE RestoreBlob(T, "rom", W)
<1>1. Restored(T, W)[x] = RestoredValue(T, W, x)
  BY DEF Restored
<1> DEFINE v == RestoredValue(T, W, x)
           g == get_json_integer(T, x)
           a4 == GetArray(T, x, 4, 256)
           a2 == GetArray(T, x, 2, 256)
           t4 == GetArray(T, "tone", 4, 65536)
           b == RestoreBlob(T, x, W)
           r == IF find_token(T, "rom") = Missing THEN W["rom"] ELSE RestoreBlob(T, "rom", W)
<1> HIDE DEF v, g, a4, a2, t4, b, r
<1>3. x \in Numbers => x \notin {"tone", "volume", "opcode", "read_buffer", "write_buffer", "ram", "vram", "rom"}
  BY NamesApart DEF Fours, Twos, Others
<1>4. CASE x \in Numbers
  <2>1. v = g
    BY <1>3, <1>4 DEF v, g, RestoredValue
  <2> QED
    BY <1>1, <1>3, <1>4, <2>1 DEF v, g, Fours, Twos
<1>5. CASE x \notin Numbers
  <2>1. x = "tone" => v = t4
    BY <1>5 DEF v, t4, RestoredValue
  <2>2. x \in {"volume", "opcode"} => v = a4
    BY <1>5 DEF v, a4, RestoredValue
  <2>3. x \in {"read_buffer", "write_buffer"} => v = a2
    BY <1>5 DEF v, a2, RestoredValue
  <2>4. x \in {"ram", "vram"} => v = b
    BY <1>5 DEF v, b, RestoredValue
  <2>5. x = "rom" => v = r
    BY <1>5 DEF v, r, RestoredValue
  <2>6. x \in Fours => v = GetArray(T, x, 4, Width(x))
    <3>1. CASE x = "tone"
      BY <2>1, <3>1, WidthsAre DEF t4
    <3>2. CASE x \in {"volume", "opcode"}
      BY <2>2, <3>2, WidthsAre DEF a4
    <3> QED
      BY <3>1, <3>2 DEF Fours
  <2>7. x \in Twos => v = GetArray(T, x, 2, Width(x))
    BY <2>3, WidthsAre DEF a2, Twos
  <2> QED
    BY <1>1, <1>5, <2>4, <2>5, <2>6, <2>7 DEF v, b, r
<1> QED
  BY <1>4, <1>5

\* A memory is restored from a token that tells it.
LEMMA BlobTold ==
  ASSUME NEW m, Fitting(m), NEW W, Fitting(W), NEW beyond, IsByte(beyond), NEW T,
         NEW x \in {"ram", "vram", "rom"}, NEW size,
         size = IF x = "ram" THEN RAM_BYTES ELSE IF x = "vram" THEN VRAM_BYTES ELSE ROM_BYTES,
         T[find_token(T, x)] = Token(Blob(encode_blob(m[x], size, beyond)))
  PROVE  RestoreBlob(T, x, W) = m[x]
<1>1. size \in Nat /\ size % 3 # 0
  BY BlobAssumption
<1>2. IsBytes(m[x], size) /\ IsBytes(W[x], size)
  <2>1. CASE x = "ram"
    BY <2>1, SMTT(40) DEF Fitting, IsBytes
  <2>2. CASE x = "vram"
    BY <2>2, SMTT(40) DEF Fitting, IsBytes
  <2>3. CASE x = "rom"
    BY <2>3, SMTT(40) DEF Fitting, IsBytes
  <2> QED
    BY <2>1, <2>2, <2>3
<1> DEFINE token == T[find_token(T, x)]
           bytes == m[x]
           out == W[x]
<1>3. token = Token(Blob(encode_blob(bytes, size, beyond)))
  OBVIOUS
<1>4. RestoreBlob(T, x, W) = decode_blob(token.lexeme.blob, out)
  BY DEF RestoreBlob
<1> HIDE DEF token, bytes, out
<1>5. IsBytes(bytes, size) /\ IsBytes(out, size)
  BY <1>2 DEF bytes, out
<1>6. decode_blob(Token(Blob(encode_blob(bytes, size, beyond))).lexeme.blob, out) = bytes
  BY <1>1, <1>5, MemoryBack
<1>7. decode_blob(token.lexeme.blob, out) = bytes
  BY <1>3, <1>6
<1> QED
  BY <1>4, <1>7 DEF bytes

\* All that was heard is restored.
LEMMA Restores ==
  ASSUME NEW m, Fitting(m), NEW W, Fitting(W), NEW beyond, IsByte(beyond), NEW T \in Seq(Tokens),
         Heard(T, m, beyond), NEW x \in FrontNames \cap DOMAIN W
  PROVE  Restored(T, W)[x] = m[x]
<1>1. Hears(T, x, Says(m, beyond)[x])
  BY DEF Heard
<1>2. CASE x \in Numbers
  BY <1>1, <1>2, NumberBack, RestoredOf
<1>3. CASE x \in Fours
  <2>1. GetArray(T, x, 4, Width(x)) = m[x]
    BY <1>1, <1>3, ArrayBack
  <2> QED
    BY <1>3, <2>1, RestoredOf
<1>4. CASE x \in Twos
  <2>1. GetArray(T, x, 2, Width(x)) = m[x]
    BY <1>1, <1>4, ArrayBack
  <2> QED
    BY <1>4, <2>1, RestoredOf
<1>5. CASE x \in {"ram", "vram"}
  <2> DEFINE size == IF x = "ram" THEN RAM_BYTES ELSE IF x = "vram" THEN VRAM_BYTES ELSE ROM_BYTES
             token == Token(Blob(encode_blob(m[x], size, beyond)))
             us == <<token>>
  <2>1. x \in Known /\ x \notin Numbers /\ x \notin Fours /\ x \notin Twos
    BY <1>5, NamesApart DEF Known, Fours, Twos
  <2>2. Says(m, beyond)[x] = us
    BY <1>5, <2>1 DEF Says, Said
  <2> HIDE DEF token
  <2>3. Len(us) = 1 /\ us[1] = token
    OBVIOUS
  <2> HIDE DEF us
  <2>4. T[find_token(T, x)] = token
    <3> DEFINE t == find_token(T, x)
    <3>1. t \in Nat /\ \A k \in 1..1 : T[t + k - 1] = us[k]
      BY <1>1, <2>2, <2>3, PlaceIs DEF Hears
    <3> HIDE DEF t
    <3>2. t + 1 - 1 = t /\ 1 \in 1..1
      BY <3>1
    <3>3. T[t] = us[1]
      BY <3>1, <3>2
    <3> QED
      BY <2>3, <3>3 DEF t
  <2>5. RestoreBlob(T, x, W) = m[x]
    <3> HIDE DEF size
    <3>1. T[find_token(T, x)] = Token(Blob(encode_blob(m[x], size, beyond)))
      BY <2>4 DEF token
    <3>2. x \in {"ram", "vram", "rom"}
      BY <1>5
    <3> QED
      BY <3>1, <3>2, BlobTold DEF size
  <2> QED
    BY <1>5, <2>5, RestoredOf
<1> QED
  BY <1>2, <1>3, <1>4, <1>5 DEF FrontNames

\* And the ROM, if the file has it.
LEMMA RomRestored ==
  ASSUME NEW m, Fitting(m), NEW W, Fitting(W), NEW beyond, IsByte(beyond), NEW T,
         RomHeard(T, m, NoName, beyond), "rom" \in DOMAIN W
  PROVE  Restored(T, W)["rom"] = m["rom"]
<1> DEFINE x == "rom"
           size == ROM_BYTES
<1>1. find_token(T, x) # Missing /\ T[find_token(T, x)] = Token(Blob(encode_blob(m[x], size, beyond)))
  BY DEF RomHeard, RomKey, RomValue
<1>2. x \in {"ram", "vram", "rom"}
      /\ size = IF x = "ram" THEN RAM_BYTES ELSE IF x = "vram" THEN VRAM_BYTES ELSE ROM_BYTES
  OBVIOUS
<1>3. x \in DOMAIN W
  OBVIOUS
<1>4. Restored(T, W)[x] = IF find_token(T, "rom") = Missing THEN W["rom"] ELSE RestoreBlob(T, "rom", W)
  BY <1>3, RestoredOf
<1>5. RestoreBlob(T, x, W) = m[x]
  <2> HIDE DEF x, size
  <2> QED
    BY <1>1, <1>2, BlobTold
<1> QED
  BY <1>1, <1>4, <1>5

\* The assertions of a restore.
LEMMA SilentStops ==
  ASSUME NEW T, Silent(T)
  PROVE  ~Restorable(T)
BY DEF Silent, Roms, Restorable

\* A file that tells the whole machine passes the checks of the restore.
LEMMA HeardLoads ==
  ASSUME NEW m, Fitting(m), NEW beyond, NEW name, name # "unescapable", NEW T,
         AllHeard(T, m, name, beyond)
  PROVE  Restorable(T)
<1>1. T \in Seq(Tokens) /\ Len(T) > 0 /\ T[1].size > 0
      /\ Heard(T, m, beyond) /\ RomHeard(T, m, name, beyond)
  BY DEF AllHeard
<1>2. ASSUME NEW x \in FrontNames
      PROVE  Hears(T, x, Says(m, beyond)[x]) /\ find_token(T, x) # Missing
  BY <1>1, <1>2 DEF Heard, Hears
<1>3. \A x \in Numbers \cup {"ram", "vram"} : find_token(T, x) # Missing
  BY <1>2 DEF FrontNames
<1>4. \E x \in {"rom", "rom_name"} : find_token(T, x) # Missing
  BY <1>1 DEF RomHeard, RomKey
<1>5. ASSUME NEW i \in DOMAIN Arrays
      PROVE  LET t == find_token(T, Arrays[i][1]) IN t # Missing /\ T[t].size >= Arrays[i][2]
  <2> DEFINE x == Arrays[i][1]
             n == Arrays[i][2]
  <2>1. (x \in Fours /\ n = 4) \/ (x \in Twos /\ n = 2)
    BY <1>5 DEF Arrays, Fours, Twos
  <2> HIDE DEF x, n
  <2>2. x \in FrontNames /\ n \in Nat
    BY <2>1 DEF FrontNames
  <2>3. find_token(T, x) # Missing /\ T[find_token(T, x)].size = n
    <3>1. Hears(T, x, Says(m, beyond)[x]) /\ find_token(T, x) # Missing /\ T \in Seq(Tokens)
      BY <1>1, <1>2, <2>2
    <3>2. T[find_token(T, x)].size = n
      <4>1. CASE x \in Fours /\ n = 4
        <5>0. x \in Fours /\ Hears(T, x, Says(m, beyond)[x]) /\ T \in Seq(Tokens)
          BY <3>1, <4>1
        <5>1. GetArray(T, x, 4, Width(x)) = m[x] /\ T[find_token(T, x)].size = 4
          BY <5>0, ArrayBack
        <5> QED
          BY <4>1, <5>1
      <4>2. CASE x \in Twos /\ n = 2
        BY <3>1, <4>2, ArrayBack
      <4> QED
        BY <2>1, <4>1, <4>2
    <3> QED
      BY <3>1, <3>2
  <2>4. n >= n
    BY <2>2
  <2> QED
    BY <2>3, <2>4 DEF x, n
<1> QED
  BY <1>1, <1>3, <1>4, <1>5 DEF Restorable

(***************************************************************************)
(* The core under its user: what a reset, which leaves the pins as they    *)
(* are, and a load cannot disturb.                                         *)
(***************************************************************************)
CoreOK == TypeOK /\ TicksInRange /\ CycleOrder

\* The half-clocks of a fetch, whatever its pins are.
LEMMA FetchStays ==
  ASSUME CoreOK, M1Start \/ M1Request \/ M1Idle \/ M1SampleWait \/ M1Latch \/ M1Refresh
  PROVE  CoreOK'
<1> USE DEF CoreOK, TypeOK, Bit, TicksInRange, CycleOrder, pipe, indices, operand, regs,
            control, inputs
<1>1. CASE M1Start
  BY <1>1 DEF M1Start
<1>2. CASE M1Request
  BY <1>2 DEF M1Request
<1>3. CASE M1Idle
  BY <1>3 DEF M1Idle
<1>4. CASE M1SampleWait
  BY <1>4 DEF M1SampleWait
<1>5. CASE M1Latch
  BY <1>5 DEF M1Latch, RefreshAddress
<1>6. CASE M1Refresh
  BY <1>6 DEF M1Refresh
<1> QED
  BY <1>1, <1>2, <1>3, <1>4, <1>5, <1>6

\* Those of a read and of a write.
LEMMA OperandStays ==
  ASSUME CoreOK, \/ M2Address \/ M2Request \/ M2Idle \/ M2SampleWait
                 \/ M3Address \/ M3Request \/ M3Idle \/ M3SampleWait
  PROVE  CoreOK'
<1> USE DEF CoreOK, TypeOK, Bit, TicksInRange, CycleOrder, pipe, indices, operand, regs,
            control, inputs
<1>1. CASE M2Address
  BY <1>1 DEF M2Address
<1>2. CASE M2Request
  BY <1>2 DEF M2Request
<1>3. CASE M2Idle
  BY <1>3 DEF M2Idle
<1>4. CASE M2SampleWait
  BY <1>4 DEF M2SampleWait, M2Wait
<1>5. CASE M3Address
  BY <1>5 DEF M3Address, WriteTarget
<1>6. CASE M3Request
  <2>0. ins \in Template
    BY <1>6, OpsAssumption DEF M3Request
  <2>1. write_index \in 0..1
    BY <1>6, <2>0 DEF M3Request, Template
  <2>2. write_buffer[write_index] \in Byte
    BY <2>1 DEF Buffer
  <2>3. TypeOK'
    BY <1>6, <2>1, <2>2 DEF M3Request
  <2>4. TicksInRange'
    BY <1>6 DEF M3Request
  <2>5. CycleOrder'
    BY <1>6, <2>0, <2>1 DEF M3Request, Template
  <2> QED
    BY <2>3, <2>4, <2>5
<1>7. CASE M3Idle
  BY <1>7 DEF M3Idle
<1>8. CASE M3SampleWait
  BY <1>8 DEF M3SampleWait
<1> QED
  BY <1>1, <1>2, <1>3, <1>4, <1>5, <1>6, <1>7, <1>8

\* A cycle that ends hands over to the cycle the decoder picked.
LEMMA DecodeStays ==
  ASSUME TypeOK, NEW op \in Ops, NEW n, NEW r, NEW w, NEW pc1 \in Word, NEW buf \in Buffer,
         InOrder(op, n, r, w), Decode(op, n, r, w, pc1, buf),
         opcode_index' = n, read_index' = r, write_index' = w,
         m1_tick_count' = 0, m2_tick_count' = 0, m3_tick_count' = 0,
         read_buffer' \in Buffer, UNCHANGED inputs,
         n_m1' \in Bit, n_rfsh' \in Bit, n_mreq' \in Bit, n_ioreq' \in Bit, n_rd' \in Bit, n_wr' \in Bit,
         address' \in Word \cup {RefreshAddress}, data' \in Byte
  PROVE  CoreOK'
<1>1. /\ op.size \in 1..4 /\ op.reads \in 0..2 /\ op.writes \in 0..2
      /\ op.rio \in 0..1 /\ op.wio \in 0..1 /\ op.last \in {"RESET", "REFRESH"}
  BY OpsAssumption DEF Template
<1>2. /\ ReadOperand(op) \subseteq Word /\ WriteOperand(op) \subseteq Word
      /\ WriteData(op, pc1, buf) \subseteq Buffer
      /\ NextPc(op, pc1, buf) \subseteq Word /\ NextSp(op) \subseteq Word
  BY OperandsTyped
<1>3. Plus(read_address, 1) \in Word /\ Plus(write_address, 1) \in Word
  <2>1. read_address \in Int /\ write_address \in Int
    BY WordPositive DEF TypeOK, Word
  <2> QED
    BY <2>1, PlusInWord
<1>4. /\ m1_tick_count' \in 0..9 /\ m2_tick_count' \in 0..7 /\ m3_tick_count' \in 0..7
      /\ opcode_index' \in 0..4 /\ read_index' \in 0..2 /\ write_index' \in 0..2
  BY <1>1 DEF InOrder
<1>5. n_wait' \in Bit /\ n_int' \in Bit /\ n_nmi' \in Bit
  BY DEF TypeOK, inputs
<1>6. CASE NeedOpcode(op, n, pc1)
  <2>1. TypeOK'
    BY <1>4, <1>5, <1>6 DEF NeedOpcode, TypeOK, Stages
  <2>2. TicksInRange' /\ CycleOrder'
    BY <1>6 DEF NeedOpcode, InOrder, TicksInRange, CycleOrder
  <2> QED
    BY <2>1, <2>2 DEF CoreOK
<1>7. CASE NeedRead(op, n, r, pc1)
  <2>1. TypeOK'
    BY <1>1, <1>2, <1>3, <1>4, <1>5, <1>7 DEF NeedRead, TypeOK, Stages, Bit
  <2>2. TicksInRange' /\ CycleOrder'
    BY <1>7 DEF NeedRead, InOrder, TicksInRange, CycleOrder
  <2> QED
    BY <2>1, <2>2 DEF CoreOK
<1>8. CASE NeedWrite(op, n, r, w, pc1, buf)
  <2>1. TypeOK'
    BY <1>1, <1>2, <1>3, <1>4, <1>5, <1>8 DEF NeedWrite, TypeOK, Stages, Bit
  <2>2. TicksInRange' /\ CycleOrder'
    BY <1>8 DEF NeedWrite, InOrder, TicksInRange, CycleOrder
  <2> QED
    BY <2>1, <2>2 DEF CoreOK
<1>9. CASE Retire(op, n, r, w, pc1, buf)
  <2>1. stage' \in {"RESET", "REFRESH"}
    BY <1>1, <1>9 DEF Retire
  <2>2. iff1' \in Bit /\ int_mode' \in 0..2
    BY <1>9 DEF Retire, TypeOK, Bit
  <2>3. TypeOK'
    BY <1>2, <1>4, <1>5, <1>9, <2>1, <2>2 DEF Retire, TypeOK, Stages
  <2>4. TicksInRange' /\ CycleOrder'
    BY <2>1 DEF TicksInRange, CycleOrder
  <2> QED
    BY <2>3, <2>4 DEF CoreOK
<1> QED
  BY <1>6, <1>7, <1>8, <1>9 DEF Decode

\* The end of a fetch.
LEMMA FetchEndStays ==
  ASSUME CoreOK, M1Decode \/ M1DropPrefix
  PROVE  CoreOK'
<1>1. TypeOK /\ stage = "M1" /\ m1_tick_count = 7
  BY DEF CoreOK, M1Decode, M1DropPrefix, OpcodeLatched
<1>2. /\ read_index = 0 /\ write_index = 0
      /\ m2_tick_count = 0 /\ m3_tick_count = 0
      /\ opcode_index > 0 => ins \in Ops /\ opcode_index < ins.size
  BY <1>1 DEF CoreOK, CycleOrder, TicksInRange
<1>3. /\ OpcodeLatched
      /\ m1_tick_count' = 0 /\ m2_tick_count' = 0 /\ m3_tick_count' = 0
      /\ read_index' = 0 /\ write_index' = 0 /\ UNCHANGED inputs
  BY <1>2 DEF M1Decode, M1DropPrefix, OpcodeLatched, inputs
<1>5. /\ n_m1' \in Bit /\ n_rfsh' \in Bit /\ n_mreq' \in Bit /\ n_ioreq' \in Bit
      /\ n_rd' \in Bit /\ n_wr' \in Bit /\ address' \in Word \cup {RefreshAddress}
      /\ data' \in Byte /\ read_buffer' \in Buffer /\ read_buffer \in Buffer
  BY <1>1, <1>3 DEF TypeOK, OpcodeLatched, Bit
<1>6. Plus(pc, 1) \in Word
  <2>1. pc \in Int
    BY <1>1, WordPositive DEF TypeOK, Word
  <2> QED
    BY <2>1, PlusInWord
<1>7. CASE M1Decode
  <2>1. PICK op \in IF opcode_index = 0 THEN Ops ELSE {ins} :
          Decode(op, opcode_index + 1, read_index, write_index, Plus(pc, 1), read_buffer)
    BY <1>7 DEF M1Decode
  <2>2. opcode_index \in 0..4
    BY <1>1 DEF TypeOK
  <2>3. op \in Ops
    BY <1>2, <2>1, <2>2
  <2>4. op.size \in 1..4 /\ op.reads \in 0..2 /\ op.writes \in 0..2
    BY <2>3, OpsAssumption DEF Template
  <2>5. InOrder(op, opcode_index + 1, read_index, write_index)
    BY <1>2, <2>1, <2>2, <2>4 DEF InOrder
  <2>6. opcode_index' = opcode_index + 1 /\ read_index' = read_index
        /\ write_index' = write_index
    BY <1>2, <1>3, <1>7 DEF M1Decode
  <2> QED
    BY <1>1, <1>2, <1>3, <1>5, <1>6, <2>1, <2>3, <2>5, <2>6, DecodeStays
<1>8. CASE M1DropPrefix
  <2>1. /\ stage' = "M1" /\ opcode_index' = 1
        /\ ins' \in Ops /\ ins'.size > 1
    BY <1>1, <1>8, OpsAssumption DEF M1DropPrefix
  <2>2. TypeOK'
    BY <1>1, <1>3, <1>5, <1>6, <1>8, <2>1 DEF M1DropPrefix, TypeOK, inputs
  <2>3. TicksInRange' /\ CycleOrder'
    BY <1>3, <2>1 DEF TicksInRange, CycleOrder
  <2> QED
    BY <2>2, <2>3 DEF CoreOK
<1> QED
  BY <1>7, <1>8

\* The end of a read.
LEMMA ReadEndStays ==
  ASSUME CoreOK, M2Done
  PROVE  CoreOK'
<1>1. TypeOK /\ stage = "M2" /\ m2_tick_count = 7
  BY DEF CoreOK, M2Done
<1>2. /\ ins \in Ops /\ opcode_index = ins.size
      /\ read_index < ins.reads /\ write_index = 0
      /\ m1_tick_count = 0 /\ m3_tick_count = 0
  BY <1>1 DEF CoreOK, CycleOrder, TicksInRange
<1>3. /\ ins.size \in 1..4 /\ ins.reads \in 0..2 /\ ins.writes \in 0..2
      /\ read_index \in 0..1
  BY <1>1, <1>2, OpsAssumption DEF Template, TypeOK
<1> DEFINE buf == [read_buffer EXCEPT ![read_index] = data]
<1>5. buf \in Buffer
  BY <1>1, <1>3 DEF TypeOK, Buffer
<1>7. InOrder(ins, opcode_index, read_index + 1, write_index)
  BY <1>2, <1>3 DEF InOrder
<1>8. /\ n_m1' \in Bit /\ n_rfsh' \in Bit /\ n_mreq' \in Bit /\ n_ioreq' \in Bit
      /\ n_rd' \in Bit /\ n_wr' \in Bit /\ address' \in Word \cup {RefreshAddress}
      /\ data' \in Byte /\ pc \in Word
  BY <1>1 DEF TypeOK, M2Done, EndRead, Bit
<1>9. /\ m1_tick_count' = 0 /\ m2_tick_count' = 0 /\ m3_tick_count' = 0
      /\ opcode_index' = opcode_index /\ read_index' = read_index + 1
      /\ write_index' = write_index /\ read_buffer' = buf
      /\ UNCHANGED inputs
      /\ Decode(ins, opcode_index, read_index + 1, write_index, pc, buf)
  BY <1>2 DEF M2Done, inputs
<1> QED
  BY <1>1, <1>2, <1>5, <1>7, <1>8, <1>9, DecodeStays

\* The end of a write.
LEMMA WriteEndStays ==
  ASSUME CoreOK, M3Done
  PROVE  CoreOK'
<1>1. TypeOK /\ stage = "M3" /\ m3_tick_count = 7
  BY DEF CoreOK, M3Done
<1>2. /\ ins \in Ops /\ opcode_index = ins.size
      /\ read_index = ins.reads /\ write_index \in 1..ins.writes
      /\ m1_tick_count = 0 /\ m2_tick_count = 0
  BY <1>1 DEF CoreOK, CycleOrder, TicksInRange
<1>3. ins.size \in 1..4 /\ ins.reads \in 0..2 /\ ins.writes \in 0..2
  BY <1>2, OpsAssumption DEF Template
<1>6. InOrder(ins, opcode_index, read_index, write_index)
  BY <1>2, <1>3 DEF InOrder
<1>7. /\ n_m1' \in Bit /\ n_rfsh' \in Bit /\ n_mreq' \in Bit /\ n_ioreq' \in Bit
      /\ n_rd' \in Bit /\ n_wr' \in Bit /\ address' \in Word \cup {RefreshAddress}
      /\ data' \in Byte /\ pc \in Word /\ read_buffer \in Buffer
  BY <1>1 DEF TypeOK, M3Done, Bit
<1>8. /\ m1_tick_count' = 0 /\ m2_tick_count' = 0 /\ m3_tick_count' = 0
      /\ opcode_index' = opcode_index /\ read_index' = read_index
      /\ write_index' = write_index /\ read_buffer' \in Buffer
      /\ UNCHANGED inputs
      /\ Decode(ins, opcode_index, read_index, write_index, pc, read_buffer)
  BY <1>2, <1>7 DEF M3Done, indices, inputs
<1> QED
  BY <1>1, <1>2, <1>6, <1>7, <1>8, DecodeStays

\* The boundary and the refresh.
LEMMA BetweenStays ==
  ASSUME CoreOK, Boundary \/ RefreshCycle
  PROVE  CoreOK'
<1> USE DEF CoreOK, TypeOK, Bit, Stages, TicksInRange, CycleOrder, ResetPipeline,
            ticks, pipe, indices, operand, regs, control, inputs
<1>1. CASE AcceptNmi
  BY <1>1 DEF AcceptNmi
<1>2. CASE AcceptInt
  BY <1>2 DEF AcceptInt
<1>3. CASE DropInt
  BY <1>3 DEF DropInt
<1>4. CASE BeginFetch
  BY <1>4 DEF BeginFetch
<1>5. CASE RefreshStart
  BY <1>5 DEF RefreshStart, RefreshAddress
<1>6. CASE RefreshRequest
  BY <1>6 DEF RefreshRequest
<1>7. CASE RefreshIdle
  BY <1>7 DEF RefreshIdle
<1>8. CASE RefreshDone
  BY <1>8 DEF RefreshDone
<1> QED
  BY <1>1, <1>2, <1>3, <1>4, <1>5, <1>6, <1>7, <1>8 DEF Boundary, RefreshCycle

\* The interrupt cycles.
LEMMA InterruptStays ==
  ASSUME CoreOK, InterruptCycle
  PROVE  CoreOK'
<1>1. /\ Hi(pc) \in Byte /\ Lo(pc) \in Byte /\ Plus(sp, WORD - 1) \in Word
      /\ IntVector \in Word /\ NmiVector \in Word
  BY StackTyped, VectorAssumption DEF CoreOK
<1> USE DEF CoreOK, TypeOK, Bit, Stages, TicksInRange, CycleOrder, PinsOf, pipe, indices,
            operand, regs, control, inputs
<1>2. CASE IntM1
  BY <1>1, <1>2 DEF IntM1
<1>3. CASE IntM2
  BY <1>1, <1>3 DEF IntM2, IntStore
<1>4. CASE IntM3
  BY <1>1, <1>4 DEF IntM3, IntStore
<1>5. CASE NmiM1
  BY <1>1, <1>5 DEF NmiM1
<1>6. CASE NmiM2
  BY <1>1, <1>6 DEF NmiM2, NmiStore
<1>7. CASE NmiM3
  BY <1>1, <1>7 DEF NmiM3, NmiStore
<1> QED
  BY <1>2, <1>3, <1>4, <1>5, <1>6, <1>7 DEF InterruptCycle

\* Every half-clock of the core.
LEMMA TickStays ==
  ASSUME CoreOK, Tick
  PROVE  CoreOK'
BY FetchStays, OperandStays, FetchEndStays, ReadEndStays, WriteEndStays, BetweenStays,
   InterruptStays DEF Tick, M1Cycle, M2Cycle, M3Cycle

-----------------------------------------------------------------------------
(***************************************************************************)
(* The names of a machine, and what fits them.                             *)
(***************************************************************************)
CoreNumbers == {"sp", "pc", "iff1", "iff2", "int_mode", "opcode_index", "stage", "m1_tick", "m2_tick",
                "m3_tick", "read_address", "read_index", "read_is_io", "write_address",
                "write_index", "write_is_io", "data", "address", "n_rd", "n_wr", "n_ioreq",
                "n_mreq", "n_rfsh", "n_m1", "n_int", "n_nmi", "n_wait"}
CoreArrays  == {"opcode", "read_buffer", "write_buffer"}
ElseNames   == {"af", "bc", "de", "hl", "afp", "bcp", "dep", "hlp", "i", "r", "ix", "iy",
                "slot0", "slot1", "slot2", "io_stat", "control", "ab", "bm", "data_latch",
                "n_reset", "n_busreq", "n_busack"}
RestNames   == ElseNames \cup {"volume", "tone", "ram", "vram", "rom"}

RestFits(r) ==
  /\ DOMAIN r = RestNames
  /\ \A name \in ElseNames : r[name] \in 0..(Width(name) - 1)
  /\ r["volume"] \in [0..3 -> 0..(Width("volume") - 1)] /\ r["tone"] \in [0..3 -> 0..(Width("tone") - 1)]
  /\ r["ram"] \in [0..(RAM_BYTES - 1) -> 0..255]
  /\ r["vram"] \in [0..(VRAM_BYTES - 1) -> 0..255]
  /\ r["rom"] \in [0..(ROM_BYTES - 1) -> 0..255]

CoreFits(c) ==
  /\ DOMAIN c = CoreNumbers \cup CoreArrays
  /\ \A name \in CoreNumbers : c[name] \in 0..(Width(name) - 1)
  /\ c["opcode"] \in [0..3 -> 0..(Width("opcode") - 1)]
  /\ \A name \in Twos : c[name] \in [0..1 -> 0..(Width(name) - 1)]

\* The names that are not the core's.
LEMMA ElsewhereIs == ToSet(Elsewhere) = ElseNames
<1>1. DOMAIN Elsewhere = 1..23
  BY DEF Elsewhere
<1>2. ASSUME NEW i \in 1..23 PROVE Elsewhere[i] \in ElseNames
  <2>1. i \in {1, 2, 3, 4, 5, 6, 7, 8, 9, 10, 11, 12, 13, 14, 15, 16, 17, 18, 19, 20, 21, 22, 23}
    BY <1>2
  <2> QED
    BY <2>1 DEF Elsewhere, ElseNames
<1>3. /\ Elsewhere[1] = "af" /\ Elsewhere[2] = "bc" /\ Elsewhere[3] = "de" /\ Elsewhere[4] = "hl"
      /\ Elsewhere[5] = "afp" /\ Elsewhere[6] = "bcp" /\ Elsewhere[7] = "dep" /\ Elsewhere[8] = "hlp"
      /\ Elsewhere[9] = "i" /\ Elsewhere[10] = "r" /\ Elsewhere[11] = "ix" /\ Elsewhere[12] = "iy"
      /\ Elsewhere[13] = "slot0" /\ Elsewhere[14] = "slot1" /\ Elsewhere[15] = "slot2"
      /\ Elsewhere[16] = "io_stat" /\ Elsewhere[17] = "control" /\ Elsewhere[18] = "ab"
      /\ Elsewhere[19] = "bm" /\ Elsewhere[20] = "data_latch" /\ Elsewhere[21] = "n_reset"
      /\ Elsewhere[22] = "n_busreq" /\ Elsewhere[23] = "n_busack"
  BY DEF Elsewhere
<1>4. ASSUME NEW x \in ElseNames PROVE \E i \in DOMAIN Elsewhere : Elsewhere[i] = x
  BY <1>1, <1>3, <1>4 DEF ElseNames
<1> QED
  BY <1>1, <1>2, <1>4 DEF ToSet

\* The numbers of the file are those of the core and these.
LEMMA NumbersAre == Numbers = CoreNumbers \cup ElseNames
<1> DEFINE A == CoreNumbers \cup ElseNames
           B == {"slot0", "slot1", "slot2", "io_stat", "control", "ab", "bm", "read_index",
                 "read_is_io", "write_address", "write_index", "write_is_io", "data",
                 "data_latch", "address"}
<1>1. ASSUME NEW i \in DOMAIN Z80Registers PROVE Z80Registers[i] \in A
  <2>1. i \in 1..17
    BY DEF Z80Registers
  <2>2. i \in {1, 2, 3, 4, 5, 6, 7, 8, 9, 10, 11, 12, 13, 14, 15, 16, 17}
    BY <2>1
  <2> QED
    BY <2>2 DEF Z80Registers, CoreNumbers, ElseNames
<1>2. ASSUME NEW i \in DOMAIN Z80Ticks PROVE Z80Ticks[i] \in A
  <2>1. i \in {1, 2, 3, 4, 5, 6}
    BY DEF Z80Ticks
  <2> QED
    BY <2>1 DEF Z80Ticks, CoreNumbers, ElseNames
<1>3. ASSUME NEW i \in DOMAIN Z80Pins PROVE Z80Pins[i] \in A
  <2>1. i \in 1..12
    BY DEF Z80Pins
  <2>2. i \in {1, 2, 3, 4, 5, 6, 7, 8, 9, 10, 11, 12}
    BY <2>1
  <2> QED
    BY <2>2 DEF Z80Pins, CoreNumbers, ElseNames
<1>4. B \subseteq A
  BY DEF CoreNumbers, ElseNames
<1>5. Numbers \subseteq A
  BY <1>1, <1>2, <1>3, <1>4 DEF Numbers, ToSet
<1>6. /\ Z80Registers[1] = "af" /\ Z80Registers[2] = "bc" /\ Z80Registers[3] = "de"
      /\ Z80Registers[4] = "hl" /\ Z80Registers[5] = "afp" /\ Z80Registers[6] = "bcp"
      /\ Z80Registers[7] = "dep" /\ Z80Registers[8] = "hlp" /\ Z80Registers[9] = "i"
      /\ Z80Registers[10] = "r" /\ Z80Registers[11] = "ix" /\ Z80Registers[12] = "iy"
      /\ Z80Registers[13] = "sp" /\ Z80Registers[14] = "pc" /\ Z80Registers[15] = "iff1"
      /\ Z80Registers[16] = "iff2" /\ Z80Registers[17] = "opcode_index"
      /\ DOMAIN Z80Registers = 1..17
  BY DEF Z80Registers
<1>7. {"af", "bc", "de", "hl", "afp", "bcp", "dep", "hlp", "i", "r", "ix", "iy", "sp", "pc",
       "iff1", "iff2", "opcode_index"} \subseteq ToSet(Z80Registers)
  BY <1>6 DEF ToSet
<1>8. /\ Z80Ticks[1] = "int_mode" /\ Z80Ticks[2] = "stage" /\ Z80Ticks[3] = "m1_tick"
      /\ Z80Ticks[4] = "m2_tick" /\ Z80Ticks[5] = "m3_tick" /\ Z80Ticks[6] = "read_address"
      /\ DOMAIN Z80Ticks = 1..6
  BY DEF Z80Ticks
<1>9. {"int_mode", "stage", "m1_tick", "m2_tick", "m3_tick", "read_address"} \subseteq ToSet(Z80Ticks)
  BY <1>8 DEF ToSet
<1>10. /\ Z80Pins[1] = "n_rd" /\ Z80Pins[2] = "n_wr" /\ Z80Pins[3] = "n_ioreq"
       /\ Z80Pins[4] = "n_mreq" /\ Z80Pins[5] = "n_rfsh" /\ Z80Pins[6] = "n_m1"
       /\ Z80Pins[7] = "n_int" /\ Z80Pins[8] = "n_nmi" /\ Z80Pins[9] = "n_reset"
       /\ Z80Pins[10] = "n_wait" /\ Z80Pins[11] = "n_busreq" /\ Z80Pins[12] = "n_busack"
       /\ DOMAIN Z80Pins = 1..12
  BY DEF Z80Pins
<1>11. {"n_rd", "n_wr", "n_ioreq", "n_mreq", "n_rfsh", "n_m1", "n_int", "n_nmi", "n_reset", "n_wait",
        "n_busreq", "n_busack"} \subseteq ToSet(Z80Pins)
  BY <1>10 DEF ToSet
<1> DEFINE S1 == ToSet(Z80Registers)
           S2 == ToSet(Z80Ticks)
           S3 == ToSet(Z80Pins)
<1>12. S1 \subseteq Numbers /\ S2 \subseteq Numbers /\ S3 \subseteq Numbers /\ B \subseteq Numbers
  BY DEF Numbers
<1> HIDE DEF S1, S2, S3
<1>13. A \subseteq S1 \cup S2 \cup S3 \cup B
  BY <1>7, <1>9, <1>11 DEF CoreNumbers, ElseNames, S1, S2, S3
<1> HIDE DEF A, B
<1>14. Numbers = A
  BY <1>5, <1>12, <1>13
<1> QED
  BY <1>14 DEF A

\* The names of the core.
LEMMA CoreNamed ==
  /\ DOMAIN Core = CoreNumbers \cup CoreArrays
  /\ (CoreNumbers \cup CoreArrays) \cap RestNames = {}
<1>1. DOMAIN Core = CoreNumbers \cup CoreArrays
  BY DEF Core, CoreNumbers, CoreArrays
<1>2. (CoreNumbers \cup CoreArrays) \cap RestNames = {}
  BY DEF CoreNumbers, CoreArrays, RestNames, ElseNames
<1> QED
  BY <1>1, <1>2

\* A core and the rest that fit make a machine that does.
LEMMA WithFits ==
  ASSUME NEW c, CoreFits(c), NEW r, RestFits(r)
  PROVE  /\ Fitting(With(c, r)) /\ DOMAIN With(c, r) = FrontNames \cup {"rom"}
         /\ \A name \in DOMAIN c : With(c, r)[name] = c[name]
         /\ \A name \in DOMAIN r : With(c, r)[name] = r[name]
<1> DEFINE m == With(c, r)
<1>1. DOMAIN c \cap DOMAIN r = {}
  BY CoreNamed DEF CoreFits, RestFits
<1>2. /\ \A name \in DOMAIN c : m[name] = c[name]
      /\ \A name \in DOMAIN r : m[name] = r[name]
      /\ DOMAIN m = DOMAIN c \cup DOMAIN r
  BY <1>1 DEF With
<1> HIDE DEF m
<1>3. /\ DOMAIN c = CoreNumbers \cup CoreArrays /\ DOMAIN r = RestNames
      /\ ElseNames \subseteq RestNames /\ {"volume", "tone", "ram", "vram", "rom"} \subseteq RestNames
  BY DEF CoreFits, RestFits, RestNames
<1>4. DOMAIN m = FrontNames \cup {"rom"}
  <2>1. FrontNames \cup {"rom"} = (CoreNumbers \cup CoreArrays) \cup RestNames
    <3>1. FrontNames = (CoreNumbers \cup ElseNames) \cup Fours \cup Twos \cup {"ram", "vram"}
      BY NumbersAre DEF FrontNames
    <3>2. Fours \cup Twos = CoreArrays \cup {"volume", "tone"}
      BY DEF Fours, Twos, CoreArrays
    <3> DEFINE N == CoreNumbers
               L == ElseNames
               P == Fours \cup Twos
               Q == CoreArrays
    <3>3. RestNames = L \cup {"volume", "tone", "ram", "vram", "rom"}
      BY DEF RestNames
    <3>4. FrontNames = (N \cup L) \cup P \cup {"ram", "vram"} /\ P = Q \cup {"volume", "tone"}
      BY <3>1, <3>2
    <3> HIDE DEF N, L, P, Q
    <3>5. FrontNames \cup {"rom"} = (N \cup Q) \cup RestNames
      BY <3>3, <3>4
    <3> QED
      BY <3>5 DEF N, Q
  <2> QED
    BY <1>2, <1>3, <2>1
<1>5. \A name \in Numbers : m[name] \in 0..(Width(name) - 1)
  <2>1. ASSUME NEW name \in CoreNumbers PROVE m[name] \in 0..(Width(name) - 1)
    <3>1. m[name] = c[name]
      BY <1>2, <1>3
    <3> QED
      BY <3>1 DEF CoreFits
  <2>2. ASSUME NEW name \in ElseNames PROVE m[name] \in 0..(Width(name) - 1)
    <3>1. m[name] = r[name]
      BY <1>2, <1>3
    <3> QED
      BY <3>1 DEF RestFits
  <2> QED
    BY <2>1, <2>2, NumbersAre
<1>6. /\ m["volume"] = r["volume"] /\ m["tone"] = r["tone"] /\ m["opcode"] = c["opcode"]
      /\ m["ram"] = r["ram"] /\ m["vram"] = r["vram"] /\ m["rom"] = r["rom"]
  BY <1>2, <1>3 DEF CoreArrays
<1>7. \A name \in Fours : m[name] \in [0..3 -> 0..(Width(name) - 1)]
  <2>1. m["volume"] \in [0..3 -> 0..(Width("volume") - 1)]
    BY <1>6 DEF RestFits
  <2>2. m["tone"] \in [0..3 -> 0..(Width("tone") - 1)]
    BY <1>6 DEF RestFits
  <2>3. m["opcode"] \in [0..3 -> 0..(Width("opcode") - 1)]
    BY <1>6 DEF CoreFits
  <2> QED
    BY <2>1, <2>2, <2>3 DEF Fours
<1>8. \A name \in Twos : m[name] \in [0..1 -> 0..(Width(name) - 1)]
  <2>1. ASSUME NEW name \in Twos PROVE m[name] = c[name]
    BY <1>2, <1>3, <2>1 DEF Twos, CoreArrays
  <2> QED
    BY <2>1 DEF CoreFits
<1>9. /\ m["ram"] \in [0..(RAM_BYTES - 1) -> 0..255]
      /\ m["vram"] \in [0..(VRAM_BYTES - 1) -> 0..255]
      /\ m["rom"] \in [0..(ROM_BYTES - 1) -> 0..255]
  BY <1>6 DEF RestFits
<1>10. Fitting(m)
  BY <1>5, <1>7, <1>8, <1>9 DEF Fitting
<1> QED
  BY <1>2, <1>4, <1>10 DEF m

\* So do what a session begins with, and what an instruction may change it to.
LEMMA RestIsFit ==
  ASSUME NEW seed \in {0, 1}
  PROVE  RestFits(Rest(seed))
<1> DEFINE e == [name \in ToSet(Elsewhere) |->
                   LET i == CHOOSE j \in DOMAIN Elsewhere : Elsewhere[j] = name
                   IN IF name \in Wide THEN 65535 - 2 * i - seed ELSE 255 - 2 * i - seed]
           v == [i \in 0..3 |-> 4 * seed + i]
           t == [i \in 0..3 |-> 1000 + 10 * seed + i]
           a1 == Bytes(RAM_BYTES, seed)
           a2 == Bytes(VRAM_BYTES, seed + 1)
           a3 == Bytes(ROM_BYTES, seed + 2)
           o == [volume |-> v, tone |-> t, ram |-> a1, vram |-> a2, rom |-> a3]
<1>1. Rest(seed) = With(e, o)
  BY DEF Rest
<1> HIDE DEF e, v, t, a1, a2, a3
<1>2. /\ DOMAIN o = {"volume", "tone", "ram", "vram", "rom"}
      /\ o["volume"] = v /\ o["tone"] = t /\ o["ram"] = a1 /\ o["vram"] = a2 /\ o["rom"] = a3
  OBVIOUS
<1> HIDE DEF o
<1>3. DOMAIN e = ElseNames
  BY ElsewhereIs DEF e
<1>4. ElseNames \cap {"volume", "tone", "ram", "vram", "rom"} = {}
  BY DEF ElseNames
<1>5. Rest(seed) = [x \in DOMAIN e \cup DOMAIN o |-> IF x \in DOMAIN e THEN e[x] ELSE o[x]]
  BY <1>1 DEF With
<1>6. /\ DOMAIN Rest(seed) = RestNames
      /\ \A x \in ElseNames : Rest(seed)[x] = e[x]
      /\ \A x \in {"volume", "tone", "ram", "vram", "rom"} : Rest(seed)[x] = o[x]
  BY <1>2, <1>3, <1>4, <1>5 DEF RestNames
<1>7. ASSUME NEW name \in ElseNames PROVE e[name] \in 0..(Width(name) - 1)
  <2> DEFINE i == CHOOSE j \in DOMAIN Elsewhere : Elsewhere[j] = name
  <2>1. \E j \in DOMAIN Elsewhere : Elsewhere[j] = name
    BY ElsewhereIs DEF ToSet
  <2>2. DOMAIN Elsewhere = 1..23
    BY DEF Elsewhere
  <2>3. i \in 1..23
    BY <2>1, <2>2
  <2>4. e[name] = IF name \in Wide THEN 65535 - 2 * i - seed ELSE 255 - 2 * i - seed
    BY ElsewhereIs DEF e
  <2> HIDE DEF i
  <2>5. Width(name) = IF name \in Wide THEN 65536 ELSE 256
    BY WidthsAre, NumbersAre
  <2> QED
    BY <2>3, <2>4, <2>5
<1>9. ASSUME NEW n \in Nat, NEW s \in 0..3
      PROVE  Bytes(n, s) \in [0..(n - 1) -> 0..255]
  BY DEF Bytes
<1>10. /\ a1 \in [0..(RAM_BYTES - 1) -> 0..255] /\ a2 \in [0..(VRAM_BYTES - 1) -> 0..255]
       /\ a3 \in [0..(ROM_BYTES - 1) -> 0..255]
  <2>1. seed \in 0..3 /\ seed + 1 \in 0..3 /\ seed + 2 \in 0..3
    OBVIOUS
  <2>2. RAM_BYTES \in Nat /\ VRAM_BYTES \in Nat /\ ROM_BYTES \in Nat
    BY BlobAssumption
  <2> QED
    BY <1>9, <2>1, <2>2 DEF a1, a2, a3
<1> DEFINE wv == Width("volume")
           wt == Width("tone")
<1>11. wv = 256 /\ wt = 65536
  BY WidthsAre
<1> HIDE DEF wv, wt
<1>12. Rest(seed)["volume"] \in [0..3 -> 0..(wv - 1)] /\ Rest(seed)["tone"] \in [0..3 -> 0..(wt - 1)]
  <2>1. Rest(seed)["volume"] = v /\ Rest(seed)["tone"] = t
    BY <1>2, <1>6
  <2>2. seed \in Nat /\ seed <= 1
    OBVIOUS
  <2>3. ASSUME NEW i \in 0..3
        PROVE  4 * seed + i \in 0..(wv - 1) /\ 1000 + 10 * seed + i \in 0..(wt - 1)
    <3>1. i \in Nat /\ i <= 3
      BY <2>3
    <3> DEFINE a == 4 * seed + i
               b == 1000 + 10 * seed + i
    <3>2. a \in Nat /\ a < 256 /\ b \in Nat /\ b < 65536
      BY <2>2, <3>1
    <3> HIDE DEF a, b
    <3>4. a \in 0..(wv - 1)
      BY <1>11, <3>2
    <3>5. b \in Nat /\ b < wt /\ wt \in Nat
      BY <1>11, <3>2
    <3>6. b \in 0..(wt - 1)
      BY <3>5
    <3> QED
      BY <3>4, <3>6 DEF a, b
  <2>4. v \in [0..3 -> 0..(wv - 1)]
    BY <2>3 DEF v
  <2>5. t \in [0..3 -> 0..(wt - 1)]
    BY <2>3 DEF t
  <2> QED
    BY <2>1, <2>4, <2>5
<1>13. /\ Rest(seed)["ram"] \in [0..(RAM_BYTES - 1) -> 0..255]
       /\ Rest(seed)["vram"] \in [0..(VRAM_BYTES - 1) -> 0..255]
       /\ Rest(seed)["rom"] \in [0..(ROM_BYTES - 1) -> 0..255]
  BY <1>2, <1>6, <1>10, ZenonT(40)
<1>14. \A name \in ElseNames : Rest(seed)[name] \in 0..(Width(name) - 1)
  BY <1>6, <1>7
<1> QED
  BY <1>6, <1>12, <1>13, <1>14 DEF RestFits, wv, wt

-----------------------------------------------------------------------------
(***************************************************************************)
(* The core in a file.                                                     *)
(***************************************************************************)
StageSet == {"RESET", "M1", "M2", "M3", "REFRESH", "M1_INT", "M2_INT", "M3_INT",
             "M1_NMI", "M2_NMI", "M3_NMI"}

\* The core comes first in a machine.
LEMMA WithHas ==
  ASSUME NEW c, NEW o, NEW x \in DOMAIN c
  PROVE  x \in DOMAIN With(c, o) /\ With(c, o)[x] = c[x]
BY DEF With

\* A stage and its number.
LEMMA StageBack ==
  ASSUME NEW s \in StageSet
  PROVE  /\ StageNumber(s) \in Nat /\ StageNumber(s) < 11
         /\ StageNames[StageNumber(s) + 1] = s
<1>1. \E i \in DOMAIN StageNames : StageNames[i] = s
  <2>1. /\ DOMAIN StageNames = 1..11
        /\ StageNames[1] = "RESET" /\ StageNames[2] = "M1" /\ StageNames[3] = "M2"
        /\ StageNames[4] = "M3" /\ StageNames[5] = "REFRESH" /\ StageNames[6] = "M1_INT"
        /\ StageNames[7] = "M2_INT" /\ StageNames[8] = "M3_INT" /\ StageNames[9] = "M1_NMI"
        /\ StageNames[10] = "M2_NMI" /\ StageNames[11] = "M3_NMI"
    BY DEF StageNames
  <2> QED
    BY <2>1 DEF StageSet
<1> DEFINE i == CHOOSE j \in DOMAIN StageNames : StageNames[j] = s
<1>2. i \in DOMAIN StageNames /\ StageNames[i] = s
  BY <1>1
<1>3. DOMAIN StageNames = 1..11
  BY DEF StageNames
<1>4. StageNumber(s) = i - 1
  BY DEF StageNumber
<1> HIDE DEF i
<1>5. i \in Nat /\ i >= 1 /\ i <= 11
  BY <1>2, <1>3
<1>6. i - 1 \in Nat /\ i - 1 < 11 /\ (i - 1) + 1 = i
  BY <1>5
<1> QED
  BY <1>2, <1>4, <1>6

\* Two stages have two numbers.
LEMMA StagesDiffer ==
  ASSUME NEW s \in StageSet, NEW t \in StageSet, StageNumber(s) = StageNumber(t)
  PROVE  s = t
<1>1. StageNames[StageNumber(s) + 1] = s
  BY StageBack
<1>2. StageNames[StageNumber(t) + 1] = t
  BY StageBack
<1> QED
  BY <1>1, <1>2

\* NoOp is no instruction.
LEMMA NoOpIsNone == NoOp \notin Ops
BY OpsAssumption DEF NoOp, Template

\* There are enough codes to tell the operations apart.
LEMMA CodeExists ==
  \E f \in [Ops \cup {NoOp} -> 0..Cardinality(Ops)] : IsInjective(f)
<1>1. PICK g \in Bijection(1..Cardinality(Ops), Ops) : TRUE
  BY FiniteOpsAssumption, FS_CardinalityType DEF ExistsBijection
<1> DEFINE N == Cardinality(Ops)
           f == [op \in Ops \cup {NoOp} |->
                   IF op = NoOp THEN 0 ELSE CHOOSE i \in 1..N : g[i] = op]
<1>2. N \in Nat
  BY FiniteOpsAssumption, FS_CardinalityType
<1>3. ASSUME NEW op \in Ops
      PROVE  f[op] \in 1..N /\ g[f[op]] = op
  <2>1. \E i \in 1..N : g[i] = op
    BY <1>1 DEF Bijection, Surjection
  <2> QED
    BY <2>1, NoOpIsNone
<1>4. f[NoOp] = 0
  OBVIOUS
<1>5. f \in [Ops \cup {NoOp} -> 0..N]
  <2>1. \A op \in Ops \cup {NoOp} : f[op] \in 0..N
    BY <1>2, <1>3, <1>4
  <2> QED
    BY <2>1
<1>6. IsInjective(f)
  <2>1. DOMAIN f = Ops \cup {NoOp}
    OBVIOUS
  <2> HIDE DEF f
  <2>2. ASSUME NEW a \in Ops \cup {NoOp}, NEW b \in Ops \cup {NoOp}, f[a] = f[b]
        PROVE  a = b
    <3>1. CASE a = NoOp \/ b = NoOp
      <4>1. ASSUME NEW c \in Ops PROVE f[c] # 0
        BY <1>2, <1>3
      <4> QED
        BY <1>4, <2>2, <3>1, <4>1
    <3>2. CASE a # NoOp /\ b # NoOp
      BY <1>3, <2>2, <3>2
    <3> QED
      BY <3>1, <3>2
  <2> QED
    BY <2>1, <2>2 DEF IsInjective
<1> QED
  BY <1>5, <1>6

\* The code of an operation fits two bytes.
LEMMA CodeIs ==
  ASSUME NEW o \in Ops \cup {NoOp}
  PROVE  Code[o] \in Nat /\ Code[o] < 65536 /\ IsInjective(Code) /\ o \in DOMAIN Code
<1>1. Code \in [Ops \cup {NoOp} -> 0..Cardinality(Ops)] /\ IsInjective(Code)
  BY CodeExists DEF Code
<1>2. Cardinality(Ops) \in Nat /\ Cardinality(Ops) < 65536
  BY FiniteOpsAssumption, FS_CardinalityType, WidthAssumption
<1> DEFINE n == Cardinality(Ops)
<1>3. Code[o] \in 0..n
  BY <1>1
<1> HIDE DEF n
<1>4. n \in Nat /\ n < 65536
  BY <1>2 DEF n
<1> QED
  BY <1>1, <1>3, <1>4

\* Two numbers of two bytes are equal when their bytes are.
LEMMA BytesTell ==
  ASSUME NEW a \in Nat, a < 65536, NEW b \in Nat, b < 65536,
         a % 256 = b % 256, (a \div 256 + 1) % 256 = (b \div 256 + 1) % 256
  PROVE  a = b
<1> DEFINE q == a \div 256
           r == b \div 256
<1>1. a = 256 * q + (a % 256) /\ b = 256 * r + (b % 256)
  OBVIOUS
<1>2. q \in Nat /\ q < 256 /\ r \in Nat /\ r < 256
  OBVIOUS
<1>3. (q + 1) % 256 = (r + 1) % 256
  OBVIOUS
<1> HIDE DEF q, r
<1>4. q = r
  BY <1>2, <1>3
<1> QED
  BY <1>1, <1>4

\* An operation in the four bytes of opcode[].
LEMMA EncodingIs ==
  ASSUME NEW o \in Ops \cup {NoOp}
  PROVE  /\ Encoding(o)[0] = Code[o] % 256
         /\ Encoding(o)[1] = (Code[o] \div 256 + 1) % 256
         /\ Encoding(o) \in [0..3 -> 0..(Width("opcode") - 1)]
<1> DEFINE n == Code[o]
           E == Encoding(o)
           g(i) == ((IF i = 0 THEN n ELSE n \div 256) + i) % 256
<1>1. n \in Nat
  BY CodeIs
<1>2. E = [i \in 0..3 |-> g(i)]
  BY DEF Encoding
<1>3. ASSUME NEW i \in 0..3 PROVE g(i) \in Nat /\ g(i) < 256
  BY <1>1
<1>4. g(0) = n % 256 /\ g(1) = (n \div 256 + 1) % 256
  BY <1>1
<1> HIDE DEF g, n
<1>5. E[0] = g(0) /\ E[1] = g(1)
  BY <1>2
<1> DEFINE w == Width("opcode")
<1>6. w = 256
  BY WidthsAre
<1> HIDE DEF w
<1>7. \A i \in 0..3 : g(i) \in 0..(w - 1)
  <2>1. ASSUME NEW i \in 0..3 PROVE g(i) \in Nat /\ g(i) < w /\ w \in Nat
    BY <1>3, <1>6
  <2>2. ASSUME NEW i \in 0..3 PROVE g(i) \in 0..(w - 1)
    BY <2>1
  <2> QED
    BY <2>2
<1>8. E \in [0..3 -> 0..(w - 1)]
  BY <1>2, <1>7
<1> QED
  BY <1>4, <1>5, <1>8 DEF n, w

\* Two operations have two encodings.
LEMMA EncodingsDiffer ==
  ASSUME NEW o \in Ops \cup {NoOp}, NEW p \in Ops \cup {NoOp}, Encoding(o) = Encoding(p)
  PROVE  o = p
<1> DEFINE a == Code[o]
           b == Code[p]
<1>1. a \in Nat /\ a < 65536 /\ b \in Nat /\ b < 65536
  BY CodeIs
<1>2. a % 256 = b % 256
  <2>1. Encoding(o)[0] = a % 256
    BY EncodingIs
  <2>2. Encoding(p)[0] = b % 256
    BY EncodingIs
  <2> QED
    BY <2>1, <2>2
<1>3. (a \div 256 + 1) % 256 = (b \div 256 + 1) % 256
  <2>1. Encoding(o)[1] = (a \div 256 + 1) % 256
    BY EncodingIs
  <2>2. Encoding(p)[1] = (b \div 256 + 1) % 256
    BY EncodingIs
  <2> QED
    BY <2>1, <2>2
<1> HIDE DEF a, b
<1>4. a = b
  BY <1>1, <1>2, <1>3, BytesTell
<1>5. IsInjective(Code) /\ o \in DOMAIN Code /\ p \in DOMAIN Code
  BY CodeIs
<1> QED
  BY <1>4, <1>5 DEF IsInjective, a, b

\* A core in the numbers of a file: its stage is s and its operation op.
Typed(c, s, op) ==
  /\ s \in StageSet /\ c["stage"] = StageNumber(s)
  /\ op \in Ops \cup {NoOp} /\ c["opcode"] = Encoding(op)
  /\ c["m1_tick"] \in 0..9 /\ c["m2_tick"] \in 0..7 /\ c["m3_tick"] \in 0..7
  /\ c["opcode_index"] \in 0..4 /\ c["read_index"] \in 0..2 /\ c["write_index"] \in 0..2
  /\ c["read_is_io"] \in Bit /\ c["write_is_io"] \in Bit
  /\ c["read_address"] \in Word /\ c["write_address"] \in Word
  /\ c["read_buffer"] \in Buffer /\ c["write_buffer"] \in Buffer
  /\ c["pc"] \in Word /\ c["sp"] \in Word
  /\ c["iff1"] \in Bit /\ c["iff2"] \in Bit /\ c["int_mode"] \in 0..2
  /\ c["n_m1"] \in Bit /\ c["n_rfsh"] \in Bit /\ c["n_mreq"] \in Bit /\ c["n_ioreq"] \in Bit
  /\ c["n_rd"] \in Bit /\ c["n_wr"] \in Bit
  /\ c["address"] \in Word /\ c["data"] \in Byte
  /\ c["n_wait"] \in Bit /\ c["n_int"] \in Bit /\ c["n_nmi"] \in Bit

Timed(s, t1, t2, t3) ==
  /\ s = "M1" => t1 \in 0..7 /\ t2 = 0 /\ t3 = 0
  /\ s = "M2" => t2 \in 0..7 /\ t1 = 0 /\ t3 = 0
  /\ s = "M3" => t3 \in 0..7 /\ t1 = 0 /\ t2 = 0
  /\ s = "REFRESH" => t1 \in 0..3
  /\ s = "M1_INT" => t1 \in 1..7 /\ t2 = 0 /\ t3 = 0
  /\ s = "M2_INT" => t2 \in 0..3 /\ t3 = 0
  /\ s = "M3_INT" => t3 \in 0..3
  /\ s = "M1_NMI" => t1 \in 1..9 /\ t2 = 0 /\ t3 = 0
  /\ s = "M2_NMI" => t2 \in 0..5 /\ t3 = 0
  /\ s = "M3_NMI" => t3 \in 0..5

Moved(s, op, n, r, w, t3) ==
  /\ s = "M1" => /\ r = 0 /\ w = 0
                 /\ n > 0 => op \in Ops /\ n < op.size
  /\ s = "M2" => op \in Ops /\ n = op.size /\ r < op.reads /\ w = 0
  /\ s = "M3" => /\ op \in Ops /\ n = op.size /\ r = op.reads
                 /\ IF t3 \in {0, 1} THEN w < op.writes ELSE w \in 1..op.writes

Lives(c) ==
  \E s \in StageSet, op \in Ops \cup {NoOp} :
    /\ Typed(c, s, op) /\ Timed(s, c["m1_tick"], c["m2_tick"], c["m3_tick"])
    /\ Moved(s, op, c["opcode_index"], c["read_index"], c["write_index"], c["m3_tick"])

\* The fields of the core.
CoreFields ==
  /\ Core["sp"] = sp /\ Core["pc"] = pc /\ Core["iff1"] = iff1 /\ Core["iff2"] = iff2
  /\ Core["int_mode"] = int_mode /\ Core["opcode_index"] = opcode_index
  /\ Core["opcode"] = Encoding(ins) /\ Core["stage"] = StageNumber(stage)
  /\ Core["m1_tick"] = m1_tick_count /\ Core["m2_tick"] = m2_tick_count
  /\ Core["m3_tick"] = m3_tick_count
  /\ Core["read_address"] = read_address /\ Core["read_buffer"] = read_buffer
  /\ Core["read_index"] = read_index /\ Core["read_is_io"] = read_is_io
  /\ Core["write_address"] = write_address /\ Core["write_buffer"] = write_buffer
  /\ Core["write_index"] = write_index /\ Core["write_is_io"] = write_is_io
  /\ Core["data"] = data /\ Core["address"] = Bus
  /\ Core["n_rd"] = n_rd /\ Core["n_wr"] = n_wr /\ Core["n_ioreq"] = n_ioreq
  /\ Core["n_mreq"] = n_mreq /\ Core["n_rfsh"] = n_rfsh /\ Core["n_m1"] = n_m1
  /\ Core["n_int"] = n_int /\ Core["n_nmi"] = n_nmi /\ Core["n_wait"] = n_wait

\* The fields of the core, by name.
LEMMA CoreIs == CoreFields
BY DEF CoreFields, Core

\* Words and bytes fit the variables of the program.
LEMMA WidthsFit ==
  /\ \A w \in Word : w \in Nat /\ w < 65536
  /\ \A b \in Byte : b \in Nat /\ b < 256
<1>1. BYTE \in Nat /\ BYTE > 0 /\ BYTE <= 256
  BY ByteAssumption, WidthAssumption
<1>2. BYTE * BYTE <= 256 * BYTE /\ BYTE * BYTE \in Nat
  BY <1>1
<1>3. 256 * BYTE <= 65536
  BY <1>1
<1> DEFINE n == BYTE * BYTE
<1>4. n \in Nat /\ n <= 65536
  BY <1>1, <1>2, <1>3
<1>5. Word = 0..(n - 1)
  BY DEF Word, WORD
<1> HIDE DEF n
<1>6. \A w \in Word : w \in Nat /\ w < 65536
  BY <1>4, <1>5
<1>7. \A b \in Byte : b \in Nat /\ b < 256
  BY <1>1 DEF Byte
<1> QED
  BY <1>6, <1>7

\* What is on the address bus is a word.
LEMMA BusInWord ==
  ASSUME TypeOK, RestFits(rest)
  PROVE  Bus \in Word
<1>1. CASE address = RefreshAddress
  <2>1. "i" \in ElseNames /\ "r" \in ElseNames
    BY DEF ElseNames
  <2> DEFINE i == rest["i"]
             r == rest["r"]
  <2>2. i \in 0..(Width("i") - 1) /\ r \in 0..(Width("r") - 1)
    BY <2>1 DEF RestFits
  <2>3. Width("i") \in Nat /\ Width("r") \in Nat
    BY WidthsAre
  <2>4. Bus = (256 * i + r) % WORD
    BY <1>1 DEF Bus
  <2> HIDE DEF i, r
  <2>5. i \in Nat /\ r \in Nat
    BY <2>2, <2>3
  <2>6. (256 * i + r) % WORD \in 0..(WORD - 1)
    BY <2>5, WordPositive
  <2> QED
    BY <2>4, <2>6 DEF Word
<1>2. CASE address # RefreshAddress
  BY <1>2 DEF Bus, TypeOK
<1> QED
  BY <1>1, <1>2

\* A core that runs fits its file, and is one that lives there.
LEMMA CoreSaved ==
  ASSUME CoreOK, stage # "ABORTED", RestFits(rest)
  PROVE  CoreFits(Core) /\ Lives(Core)
<1>1. Bus \in Word
  BY BusInWord DEF CoreOK
<1>2. stage \in StageSet /\ ins \in Ops \cup {NoOp}
  BY DEF CoreOK, TypeOK, Stages, StageSet
<1>3. StageNumber(stage) \in Nat /\ StageNumber(stage) < 11
  BY <1>2, StageBack
<1>4. Encoding(ins) \in [0..3 -> 0..(Width("opcode") - 1)]
  BY <1>2, EncodingIs
<1>5. Typed(Core, stage, ins)
  BY <1>1, <1>2, CoreIs DEF CoreFields, CoreOK, TypeOK, Typed
<1>6. Timed(stage, Core["m1_tick"], Core["m2_tick"], Core["m3_tick"])
  BY CoreIs DEF CoreFields, CoreOK, TicksInRange, Timed
<1>7. Moved(stage, ins, Core["opcode_index"], Core["read_index"], Core["write_index"], Core["m3_tick"])
  BY CoreIs DEF CoreFields, CoreOK, CycleOrder, Moved
<1>8. Lives(Core)
  BY <1>2, <1>5, <1>6, <1>7 DEF Lives
<1>9. \A x \in {"sp", "pc", "read_address", "write_address", "address"} : Core[x] \in Word
  BY <1>5 DEF Typed
<1>10. \A x \in CoreNumbers \ {"sp", "pc", "read_address", "write_address", "address"} :
         Core[x] \in Nat /\ Core[x] < 256
  <2>1. Core["data"] \in Nat /\ Core["data"] < 256
    BY <1>5, WidthsFit DEF Typed
  <2>2. Core["stage"] \in Nat /\ Core["stage"] < 256
    BY <1>3, CoreIs DEF CoreFields
  <2>3. \A x \in {"m1_tick", "m2_tick", "m3_tick", "opcode_index", "read_index", "write_index", "int_mode"} :
          Core[x] \in Nat /\ Core[x] < 256
    BY <1>5 DEF Typed
  <2>4. \A x \in {"read_is_io", "write_is_io", "iff1", "iff2", "n_rd", "n_wr", "n_ioreq", "n_mreq",
                  "n_rfsh", "n_m1", "n_int", "n_nmi", "n_wait"} : Core[x] \in Nat /\ Core[x] < 256
    <3>1. \A x \in {"read_is_io", "write_is_io", "iff1", "iff2", "n_rd", "n_wr", "n_ioreq", "n_mreq",
                    "n_rfsh", "n_m1", "n_int", "n_nmi", "n_wait"} : Core[x] \in Bit
      BY <1>5 DEF Typed
    <3>2. \A x \in Bit : x \in Nat /\ x < 256
      BY DEF Bit
    <3> QED
      BY <3>1, <3>2
  <2> QED
    BY <2>1, <2>2, <2>3, <2>4 DEF CoreNumbers
<1>11. ASSUME NEW x \in CoreNumbers PROVE Core[x] \in 0..(Width(x) - 1)
  <2> DEFINE v == Core[x]
             w == Width(x)
  <2>1. w \in Nat /\ v \in Nat /\ v < w
    <3>1. x \in Numbers
      BY NumbersAre
    <3>2. w = IF x \in Wide THEN 65536 ELSE 256
      BY <3>1, WidthsAre
    <3>3. CASE x \in {"sp", "pc", "read_address", "write_address", "address"}
      <4>1. x \in Wide
        BY <3>3 DEF Wide
      <4>2. v \in Nat /\ v < 65536
        BY <1>9, <3>3, WidthsFit
      <4> QED
        BY <3>2, <4>1, <4>2
    <3>4. CASE x \notin {"sp", "pc", "read_address", "write_address", "address"}
      <4>1. v \in Nat /\ v < 256
        BY <1>10, <3>4
      <4> QED
        BY <3>2, <4>1
    <3> QED
      BY <3>3, <3>4
  <2> HIDE DEF v, w
  <2>2. v \in 0..(w - 1)
    BY <2>1
  <2> QED
    BY <2>2 DEF v, w
<1>12. ASSUME NEW x \in Twos PROVE Core[x] \in [0..1 -> 0..(Width(x) - 1)]
  <2> DEFINE w == Width(x)
             f == Core[x]
  <2>1. w = 256
    BY WidthsAre DEF Twos
  <2>2. f \in [0..1 -> Byte]
    BY <1>5 DEF Typed, Twos, Buffer
  <2> HIDE DEF w, f
  <2>3. ASSUME NEW b \in Byte PROVE b \in 0..(w - 1)
    <3>1. b \in Nat /\ b < w /\ w \in Nat
      BY <2>1, WidthsFit
    <3> QED
      BY <3>1
  <2>4. Byte \subseteq 0..(w - 1)
    BY <2>3
  <2>5. f \in [0..1 -> 0..(w - 1)]
    BY <2>2, <2>4
  <2> QED
    BY <2>5 DEF w, f
<1>13. Core["opcode"] \in [0..3 -> 0..(Width("opcode") - 1)]
  BY <1>4, CoreIs DEF CoreFields
<1>14. CoreFits(Core)
  BY <1>11, <1>12, <1>13, CoreNamed DEF CoreFits
<1> QED
  BY <1>8, <1>14

\* A core that becomes one that was saved is that one.
LEMMA CoreBack ==
  ASSUME NEW v, Lives(v), NEW m, CoreBecomes(m),
         \A x \in CoreNumbers \cup CoreArrays : m[x] = v[x]
  PROVE  /\ CoreOK' /\ stage' \in StageSet
         /\ \A x \in CoreNumbers \cup CoreArrays : Core'[x] = v[x]
<1>1. PICK s \in StageSet, op \in Ops \cup {NoOp} :
        /\ Typed(v, s, op) /\ Timed(s, v["m1_tick"], v["m2_tick"], v["m3_tick"])
        /\ Moved(s, op, v["opcode_index"], v["read_index"], v["write_index"], v["m3_tick"])
  BY DEF Lives
<1>2. /\ m["sp"] = v["sp"] /\ m["pc"] = v["pc"] /\ m["iff1"] = v["iff1"] /\ m["iff2"] = v["iff2"]
      /\ m["int_mode"] = v["int_mode"] /\ m["opcode_index"] = v["opcode_index"]
      /\ m["opcode"] = v["opcode"] /\ m["stage"] = v["stage"]
      /\ m["m1_tick"] = v["m1_tick"] /\ m["m2_tick"] = v["m2_tick"] /\ m["m3_tick"] = v["m3_tick"]
      /\ m["read_address"] = v["read_address"] /\ m["read_buffer"] = v["read_buffer"]
      /\ m["read_index"] = v["read_index"] /\ m["read_is_io"] = v["read_is_io"]
      /\ m["write_address"] = v["write_address"] /\ m["write_buffer"] = v["write_buffer"]
      /\ m["write_index"] = v["write_index"] /\ m["write_is_io"] = v["write_is_io"]
      /\ m["data"] = v["data"] /\ m["address"] = v["address"]
      /\ m["n_rd"] = v["n_rd"] /\ m["n_wr"] = v["n_wr"] /\ m["n_ioreq"] = v["n_ioreq"]
      /\ m["n_mreq"] = v["n_mreq"] /\ m["n_rfsh"] = v["n_rfsh"] /\ m["n_m1"] = v["n_m1"]
      /\ m["n_int"] = v["n_int"] /\ m["n_nmi"] = v["n_nmi"] /\ m["n_wait"] = v["n_wait"]
  BY DEF CoreNumbers, CoreArrays
<1>3. stage' = s
  <2>1. m["stage"] = StageNumber(s) /\ stage' = StageNames[m["stage"] + 1]
    BY <1>1, <1>2 DEF Typed, CoreBecomes
  <2> QED
    BY <2>1, StageBack
<1>4. ins' = op
  <2>1. Encoding(op) = m["opcode"]
    BY <1>1, <1>2 DEF Typed
  <2>2. ins' = CHOOSE o \in Ops \cup {NoOp} : Encoding(o) = m["opcode"]
    BY DEF CoreBecomes
  <2>3. ins' \in Ops \cup {NoOp} /\ Encoding(ins') = m["opcode"]
    BY <2>1, <2>2
  <2> QED
    BY <2>1, <2>3, EncodingsDiffer
<1>5. /\ sp' = v["sp"] /\ pc' = v["pc"] /\ iff1' = v["iff1"] /\ iff2' = v["iff2"]
      /\ int_mode' = v["int_mode"] /\ opcode_index' = v["opcode_index"]
      /\ m1_tick_count' = v["m1_tick"] /\ m2_tick_count' = v["m2_tick"]
      /\ m3_tick_count' = v["m3_tick"]
      /\ read_address' = v["read_address"] /\ read_buffer' = v["read_buffer"]
      /\ read_index' = v["read_index"] /\ read_is_io' = v["read_is_io"]
      /\ write_address' = v["write_address"] /\ write_buffer' = v["write_buffer"]
      /\ write_index' = v["write_index"] /\ write_is_io' = v["write_is_io"]
      /\ data' = v["data"] /\ address' = v["address"]
      /\ n_rd' = v["n_rd"] /\ n_wr' = v["n_wr"] /\ n_ioreq' = v["n_ioreq"]
      /\ n_mreq' = v["n_mreq"] /\ n_rfsh' = v["n_rfsh"] /\ n_m1' = v["n_m1"]
      /\ n_int' = v["n_int"] /\ n_nmi' = v["n_nmi"] /\ n_wait' = v["n_wait"]
  BY <1>2 DEF CoreBecomes
<1>6. v["stage"] = StageNumber(s) /\ v["opcode"] = Encoding(op) /\ v["address"] \in Word
  BY <1>1 DEF Typed
<1>7. TypeOK'
  BY <1>1, <1>3, <1>4, <1>5 DEF Typed, TypeOK, Stages, StageSet
<1>8. TicksInRange'
  BY <1>1, <1>3, <1>5 DEF Timed, TicksInRange
<1>9. CycleOrder'
  BY <1>1, <1>3, <1>4, <1>5 DEF Moved, CycleOrder
<1>10. Bus' = address'
  <2>1. WORD \notin Word
    BY WordPositive DEF Word
  <2>2. address' # RefreshAddress'
    BY <1>5, <1>6, <2>1 DEF RefreshAddress
  <2> QED
    BY <2>2 DEF Bus
<1>11. CoreFields'
  BY DEF CoreFields, Core
<1>12. Core'["stage"] = v["stage"] /\ Core'["opcode"] = v["opcode"] /\ Core'["address"] = v["address"]
  <2>1. /\ Core'["stage"] = StageNumber(stage') /\ Core'["opcode"] = Encoding(ins')
        /\ Core'["address"] = Bus'
    BY <1>11 DEF CoreFields, StageNumber, Encoding
  <2> QED
    BY <1>3, <1>4, <1>5, <1>6, <1>10, <2>1
<1>13. ASSUME NEW x \in CoreNumbers \cup CoreArrays PROVE Core'[x] = v[x]
  BY <1>5, <1>11, <1>12 DEF CoreFields, CoreNumbers, CoreArrays
<1> QED
  BY <1>3, <1>7, <1>8, <1>9, <1>13 DEF CoreOK

-----------------------------------------------------------------------------
(***************************************************************************)
(* A file and its load.                                                    *)
(***************************************************************************)
Good(f) ==
  /\ f = Written(f.of, f.name, f.beyond, f.kept)
  /\ Named1(f.name) /\ IsByte(f.beyond) /\ f.kept \in Nat \X BOOLEAN
  /\ Fitting(f.of) /\ Lives(f.of)

\* A machine that was saved is a good file's.
LEMMA SavedIsGood ==
  ASSUME CoreOK, stage # "ABORTED", RestFits(rest), NEW r, RestFits(r),
         NEW name, Named1(name), NEW beyond, IsByte(beyond), NEW kept \in Nat \X BOOLEAN
  PROVE  Good(Written(With(Core, r), name, beyond, kept))
<1> DEFINE v == With(Core, r)
           f == Written(v, name, beyond, kept)
<1>1. CoreFits(Core) /\ Lives(Core)
  BY CoreSaved
<1>2. Fitting(v) /\ \A x \in CoreNumbers \cup CoreArrays : v[x] = Core[x]
  BY <1>1, WithFits DEF CoreFits
<1> HIDE DEF v
<1>3. f.of = v /\ f.name = name /\ f.beyond = beyond /\ f.kept = kept
  BY DEF Written
<1>4. Lives(v)
  <2>1. PICK s \in StageSet, op \in Ops \cup {NoOp} :
          /\ Typed(Core, s, op) /\ Timed(s, Core["m1_tick"], Core["m2_tick"], Core["m3_tick"])
          /\ Moved(s, op, Core["opcode_index"], Core["read_index"], Core["write_index"], Core["m3_tick"])
    BY <1>1 DEF Lives
  <2> DEFINE c == Core
  <2>2. \A x \in CoreNumbers \cup CoreArrays : v[x] = c[x]
    BY <1>2
  <2>3. /\ Typed(c, s, op) /\ Timed(s, c["m1_tick"], c["m2_tick"], c["m3_tick"])
        /\ Moved(s, op, c["opcode_index"], c["read_index"], c["write_index"], c["m3_tick"])
    BY <2>1
  <2> HIDE DEF c
  <2>4. Typed(v, s, op)
    BY <2>2, <2>3 DEF Typed, CoreNumbers, CoreArrays
  <2>5. /\ v["m1_tick"] = c["m1_tick"] /\ v["m2_tick"] = c["m2_tick"] /\ v["m3_tick"] = c["m3_tick"]
        /\ v["opcode_index"] = c["opcode_index"] /\ v["read_index"] = c["read_index"]
        /\ v["write_index"] = c["write_index"]
    BY <2>2 DEF CoreNumbers
  <2> QED
    BY <2>3, <2>4, <2>5 DEF Lives
<1> HIDE DEF f
<1>5. Good(f)
  BY <1>2, <1>3, <1>4 DEF Good, f
<1> QED
  BY <1>5 DEF f, v

\* What is loaded over any machine is the machine of the file, but for the ROM of a file
\* that only names it.
LEMMA RestoredIs ==
  ASSUME NEW f, Good(f), NEW W, Fitting(W), DOMAIN W = FrontNames \cup {"rom"},
         NEW T, AllHeard(T, f.of, f.name, f.beyond)
  PROVE  /\ \A x \in FrontNames : Restored(T, W)[x] = f.of[x]
         /\ Restored(T, W)["rom"] = IF f.name = NoName THEN f.of["rom"] ELSE W["rom"]
<1> DEFINE v == f.of
           beyond == f.beyond
           name == f.name
           m == Restored(T, W)
<1>1. Fitting(v) /\ IsByte(beyond) /\ Named1(name)
  BY DEF Good
<1>2. AllHeard(T, v, name, beyond)
  OBVIOUS
<1> HIDE DEF v, beyond, name
<1>3. T \in Seq(Tokens) /\ Heard(T, v, beyond)
      /\ (name # "unescapable" => RomHeard(T, v, name, beyond))
      /\ (name # NoName => find_token(T, "rom") = Missing)
  BY <1>2 DEF AllHeard
<1>4. ASSUME NEW x \in FrontNames PROVE m[x] = v[x]
  <2>1. x \in FrontNames \cap DOMAIN W
    OBVIOUS
  <2> QED
    BY <1>1, <1>3, <2>1, Restores
<1>5. "rom" \in DOMAIN W
  OBVIOUS
<1>6. CASE name = NoName
  <2>1. RomHeard(T, v, NoName, beyond)
    BY <1>3, <1>6 DEF NoName
  <2>2. m["rom"] = v["rom"]
    BY <1>1, <1>5, <2>1, RomRestored
  <2> QED
    BY <1>4, <1>6, <2>2 DEF v, name
<1>7. CASE name # NoName
  <2> DEFINE x == "rom"
  <2>1. x \in DOMAIN W
    BY <1>5
  <2>2. m[x] = IF find_token(T, "rom") = Missing THEN W["rom"] ELSE RestoreBlob(T, "rom", W)
    BY <2>1, RestoredOf
  <2>3. m["rom"] = W["rom"]
    BY <1>3, <1>7, <2>2
  <2> QED
    BY <1>4, <1>7, <2>3 DEF v, name
<1> QED
  BY <1>6, <1>7

\* A load of a good file: the machine in it, whole, or the end of the program.
LEMMA LoadsWhole ==
  ASSUME CoreOK, stage # "ABORTED", RestFits(rest), NEW f, Good(f), ss_restore(f)
  PROVE  /\ CoreOK' /\ RestFits(rest')
         /\ stage' # "ABORTED" => \A x \in DOMAIN Machine' :
              (x = "rom" /\ f.name # NoName) \/ Machine'[x] = f.of[x]
         /\ Complete(f) => stage' # "ABORTED"
<1> DEFINE v == f.of
           T == jsmn_parse(Text(f)).tokens
           W == Machine
<1>1. Fitting(W) /\ DOMAIN W = FrontNames \cup {"rom"} /\ \A x \in RestNames : W[x] = rest[x]
  <2> DEFINE c == Core
  <2>1. CoreFits(c)
    BY CoreSaved
  <2>2. W = With(c, rest) /\ DOMAIN rest = RestNames
    BY DEF Machine, RestFits
  <2> HIDE DEF c, W
  <2>3. Fitting(With(c, rest)) /\ DOMAIN With(c, rest) = FrontNames \cup {"rom"}
        /\ \A x \in DOMAIN rest : With(c, rest)[x] = rest[x]
    BY <2>1, WithFits
  <2> QED
    BY <2>2, <2>3
<1>2. Fitting(v) /\ Lives(v) /\ Writable(v, f.beyond) /\ Named1(f.name) /\ f.kept \in Nat \X BOOLEAN
  BY FitsWritten DEF Good
<1>3. T = jsmn_parse(Text(Written(v, f.name, f.beyond, f.kept))).tokens
  BY DEF Good
<1>4. (Silent(T) \/ AllHeard(T, v, f.name, f.beyond)) /\ (f.kept = Whole => AllHeard(T, v, f.name, f.beyond))
  <2> HIDE DEF T, v
  <2> QED
    BY <1>2, <1>3, FileTokens
<1>5. IF Restorable(T)
      THEN CoreBecomes(Restored(T, W)) /\ rest' = [x \in DOMAIN rest |-> Restored(T, W)[x]]
      ELSE /\ stage' = "ABORTED"
           /\ UNCHANGED <<ticks, pipe, regs, control, address, data, inputs, rest>>
  BY DEF ss_restore
<1> HIDE DEF T, W
<1>6. CASE Restorable(T)
  <2> DEFINE m == Restored(T, W)
  <2>1. AllHeard(T, v, f.name, f.beyond)
    BY <1>4, <1>6, SilentStops
  <2>2. /\ \A x \in FrontNames : m[x] = v[x]
        /\ m["rom"] = IF f.name = NoName THEN v["rom"] ELSE W["rom"]
    BY <1>1, <2>1, RestoredIs
  <2>3. CoreBecomes(m) /\ rest' = [x \in DOMAIN rest |-> m[x]]
    BY <1>5, <1>6
  <2> HIDE DEF m, v
  <2>4. /\ CoreNumbers \subseteq FrontNames /\ CoreArrays \subseteq FrontNames
        /\ RestNames \ {"rom"} \subseteq FrontNames /\ ElseNames \subseteq Numbers
    <3>1. CoreNumbers \subseteq FrontNames /\ ElseNames \subseteq FrontNames /\ ElseNames \subseteq Numbers
      BY NumbersAre DEF FrontNames
    <3>2. CoreArrays \subseteq FrontNames
      BY DEF CoreArrays, FrontNames, Fours, Twos
    <3>3. {"volume", "tone", "ram", "vram"} \subseteq FrontNames
      BY DEF FrontNames, Fours
    <3> QED
      BY <3>1, <3>2, <3>3 DEF RestNames
  <2>5. CoreOK' /\ stage' \in StageSet /\ \A x \in CoreNumbers \cup CoreArrays : Core'[x] = v[x]
    <3>1. \A x \in CoreNumbers \cup CoreArrays : m[x] = v[x]
      BY <2>2, <2>4
    <3> QED
      BY <1>2, <2>3, <3>1, CoreBack
  <2>6. stage' # "ABORTED"
    BY <2>5 DEF StageSet
  <2>7. DOMAIN rest' = RestNames /\ \A x \in RestNames : rest'[x] = m[x]
    BY <2>3 DEF RestFits
  <2>8. /\ \A x \in RestNames \ {"rom"} : rest'[x] = v[x]
        /\ rest'["rom"] = IF f.name = NoName THEN v["rom"] ELSE W["rom"]
    <3>1. "rom" \in RestNames
      BY DEF RestNames
    <3> QED
      BY <2>2, <2>4, <2>7, <3>1
  <2>9. RestFits(rest')
    <3>1. \A x \in ElseNames : rest'[x] \in 0..(Width(x) - 1)
      <4>1. ASSUME NEW x \in ElseNames PROVE rest'[x] = v[x]
        <5>1. x \in RestNames /\ x # "rom"
          BY <4>1 DEF RestNames, ElseNames
        <5> QED
          BY <2>8, <5>1
      <4> QED
        BY <1>2, <2>4, <4>1 DEF Fitting
    <3>2. rest'["volume"] = v["volume"] /\ rest'["tone"] = v["tone"] /\ rest'["ram"] = v["ram"]
          /\ rest'["vram"] = v["vram"]
      BY <2>8 DEF RestNames
    <3>3. rest'["volume"] \in [0..3 -> 0..(Width("volume") - 1)]
          /\ rest'["tone"] \in [0..3 -> 0..(Width("tone") - 1)]
      BY <1>2, <3>2 DEF Fitting, Fours
    <3>4. /\ rest'["ram"] \in [0..(RAM_BYTES - 1) -> 0..255]
          /\ rest'["vram"] \in [0..(VRAM_BYTES - 1) -> 0..255]
      BY <1>2, <3>2 DEF Fitting
    <3>5. rest'["rom"] \in [0..(ROM_BYTES - 1) -> 0..255]
      BY <1>1, <1>2, <2>8, SMTT(40) DEF Fitting
    <3> QED
      BY <2>7, <3>1, <3>3, <3>4, <3>5 DEF RestFits
  <2>10. ASSUME NEW x \in DOMAIN Machine'
         PROVE  (x = "rom" /\ f.name # NoName) \/ Machine'[x] = v[x]
    <3>1. /\ DOMAIN Core' = CoreNumbers \cup CoreArrays
          /\ (CoreNumbers \cup CoreArrays) \cap RestNames = {}
      <4>1. DOMAIN Core' = CoreNumbers \cup CoreArrays
        BY DEF Core, CoreNumbers, CoreArrays
      <4> QED
        BY <4>1, CoreNamed
    <3>2. Machine' = With(Core', rest')
      BY DEF Machine, With
    <3>3. /\ DOMAIN Machine' = DOMAIN Core' \cup RestNames
          /\ Machine'[x] = IF x \in DOMAIN Core' THEN Core'[x] ELSE rest'[x]
      <4>1. x \in DOMAIN With(Core', rest')
        BY <3>2
      <4> DEFINE c == Core'
                 r == rest'
      <4>2. DOMAIN With(c, r) = DOMAIN c \cup DOMAIN r
            /\ \A y \in DOMAIN With(c, r) : With(c, r)[y] = IF y \in DOMAIN c THEN c[y] ELSE r[y]
        <5> HIDE DEF c, r
        <5> QED
          BY DEF With
      <4> QED
        BY <2>7, <3>2, <4>1, <4>2
    <3>4. CASE x \in DOMAIN Core'
      BY <2>5, <3>1, <3>3, <3>4
    <3>5. CASE x \notin DOMAIN Core'
      <4>1. x \in RestNames /\ Machine'[x] = rest'[x]
        BY <3>3, <3>5
      <4> QED
        BY <2>8, <4>1
    <3> QED
      BY <3>4, <3>5
  <2> QED
    BY <2>5, <2>6, <2>9, <2>10 DEF v
<1>7. CASE ~Restorable(T)
  <2>1. stage' = "ABORTED" /\ UNCHANGED <<ticks, pipe, regs, control, address, data, inputs, rest>>
    BY <1>5, <1>7
  <2>2. ~Complete(f)
    <3>1. ASSUME Complete(f) PROVE FALSE
      <4>1. f.kept = Whole /\ f.name # "unescapable"
        BY <3>1 DEF Complete
      <4>2. AllHeard(T, v, f.name, f.beyond)
        BY <1>4, <4>1
      <4> DEFINE name == f.name
                 beyond == f.beyond
      <4>3. name # "unescapable" /\ IsByte(beyond) /\ AllHeard(T, v, name, beyond) /\ Fitting(v)
        BY <1>2, <4>1, <4>2 DEF Good
      <4> HIDE DEF name, beyond, v
      <4> QED
        BY <1>7, <4>3, HeardLoads
    <3> QED
      BY <3>1
  <2>3. CoreOK'
    BY <2>1 DEF CoreOK, TypeOK, Stages, TicksInRange, CycleOrder, ticks, pipe, indices, operand,
                regs, control, inputs
  <2>4. RestFits(rest')
    BY <2>1
  <2> QED
    BY <2>1, <2>2, <2>3, <2>4
<1> QED
  BY <1>6, <1>7

-----------------------------------------------------------------------------
(***************************************************************************)
(* A session: the core, what else is saved, and the file stay what a load  *)
(* needs them to be.                                                       *)
(***************************************************************************)
WholeInv ==
  /\ CoreOK /\ RestFits(rest)
  /\ turn = "boot" => stage = "RESET"
  /\ turn = "devices" => ~loaded
  /\ loaded \in BOOLEAN
  /\ file # NoFile => Good(file)
  /\ LoadIsWhole /\ WholeFilesLoad

\* What a save, or a file of an earlier session, is named and followed by.
LEMMA SavesAre ==
  /\ \A save \in Saves : Named1(save[1]) /\ IsByte(save[2])
  /\ Named1(NoName) /\ IsByte(0)
  /\ Whole \in Nat \X BOOLEAN /\ \A cut \in Cuts : cut \in Nat \X BOOLEAN
<1>1. ASSUME NEW save \in Saves PROVE IsByte(save[2])
  <2>1. save[2] \in 0..255
    BY SavesAssumption
  <2> QED
    BY <2>1 DEF IsByte
<1>2. Named1(NoName) /\ \A save \in Saves : Named1(save[1])
  BY DEF Named1
<1>3. IsByte(0)
  BY DEF IsByte
<1>4. Whole \in Nat \X BOOLEAN
  BY DEF Whole
<1>5. \A cut \in Cuts : cut \in Nat \X BOOLEAN
  BY CutsAssumption
<1> QED
  BY <1>1, <1>2, <1>3, <1>4, <1>5

\* A session begins so.
LEMMA WholeBegins ==
  ASSUME SessionInit
  PROVE  WholeInv
<1>1. IInv
  BY InitEstablishes DEF SessionInit
<1>2. RestFits(rest)
  BY RestIsFit DEF SessionInit
<1> QED
  BY <1>1, <1>2 DEF IInv, CoreOK, WholeInv, LoadIsWhole, WholeFilesLoad, SessionInit, Init

\* A half-clock keeps it so.
LEMMA HalfClockWhole ==
  ASSUME WholeInv, CpuTurn \/ DevicesTurn
  PROVE  WholeInv'
<1>1. CASE CpuTurn
  <2>1. CoreOK'
    BY <1>1, TickStays DEF WholeInv, CpuTurn
  <2>2. /\ turn' = "devices" /\ loaded' = FALSE /\ rest' = rest
        /\ file' \in {file, NoFile}
    BY <1>1 DEF CpuTurn, Older
  <2>3. file' # NoFile => Good(file')
    BY <2>2 DEF WholeInv
  <2> QED
    BY <2>1, <2>2, <2>3 DEF WholeInv, LoadIsWhole, WholeFilesLoad, Good, Lives, Typed
<1>2. CASE DevicesTurn
  <2>1. /\ turn = "devices" /\ turn' = "z80" /\ loaded' = FALSE /\ file' = file
        /\ stage' \in {stage, "ABORTED"} /\ rest' \in {rest, Rest(0), Rest(1)}
        /\ UNCHANGED <<ticks, pipe, regs, control, address, inputs>>
    BY <1>2 DEF DevicesTurn, WholeInv
  <2>2. data' \in Byte
    BY <1>2 DEF DevicesTurn, WholeInv, CoreOK, TypeOK
  <2>3. CoreOK'
    BY <2>1, <2>2 DEF WholeInv, CoreOK, TypeOK, Stages, TicksInRange, CycleOrder, ticks, pipe,
                      indices, operand, regs, control, inputs
  <2>4. RestFits(rest')
    BY <2>1, RestIsFit DEF WholeInv
  <2>5. file' # NoFile => Good(file')
    BY <2>1 DEF WholeInv
  <2> QED
    BY <2>1, <2>3, <2>4, <2>5 DEF WholeInv, LoadIsWhole, WholeFilesLoad, Good, Lives, Typed
<1> QED
  BY <1>1, <1>2

\* So do the buttons that load nothing.
LEMMA ButtonsWhole ==
  ASSUME WholeInv,
         \/ onDebugStart \/ onDebugReset \/ onFileSaveState
         \/ z80dbg_set_breakpoint \/ z80dbg_clear_breakpoints
  PROVE  WholeInv'
<1>1. ASSUME CoreOK', turn' = "z80", loaded' = FALSE, rest' = rest, file' # NoFile => Good(file')
      PROVE  WholeInv'
  BY <1>1 DEF WholeInv, LoadIsWhole, WholeFilesLoad, Good, Lives, Typed
<1>2. ASSUME UNCHANGED vars PROVE CoreOK'
  BY <1>2 DEF WholeInv, CoreOK, TypeOK, TicksInRange, CycleOrder, vars, ticks, pipe,
              indices, operand, regs, control, inputs
<1>3. CASE onDebugStart \/ z80dbg_set_breakpoint \/ z80dbg_clear_breakpoints
  <2>1. UNCHANGED vars /\ turn' = "z80" /\ loaded' = FALSE /\ rest' = rest /\ file' = file
    BY <1>3 DEF onDebugStart, z80dbg_set_breakpoint, z80dbg_clear_breakpoints, Idle
  <2> QED
    BY <1>1, <1>2, <2>1 DEF WholeInv
<1>4. CASE onDebugReset
  <2>1. turn' = "z80" /\ loaded' = FALSE /\ rest' = rest /\ file' = file /\ stage' = "RESET"
    BY <1>4 DEF onDebugReset, Idle
  <2>2. 0 \in Word /\ 0 \in Byte /\ 0 \in Bit
    BY WordPositive, ByteAssumption DEF Word, Byte, Bit
  <2>3. TypeOK'
    BY <1>4, <2>2 DEF onDebugReset, WholeInv, CoreOK, TypeOK, Stages, Buffer, control, inputs
  <2>4. CoreOK'
    BY <2>1, <2>3 DEF CoreOK, TicksInRange, CycleOrder
  <2> QED
    BY <1>1, <2>1, <2>4 DEF WholeInv
<1>5. CASE onFileSaveState
  <2>1. UNCHANGED vars /\ turn' = "z80" /\ loaded' = FALSE /\ rest' = rest /\ stage # "ABORTED"
    BY <1>5 DEF onFileSaveState, Idle
  <2>2. PICK save \in Saves : file' = Written(With(Core, rest), save[1], save[2], Whole)
    BY <1>5 DEF onFileSaveState, Machine
  <2>3. Good(Written(With(Core, rest), save[1], save[2], Whole))
    BY <2>1, SavesAre, SavedIsGood DEF WholeInv
  <2> QED
    BY <1>1, <1>2, <2>1, <2>2, <2>3
<1> QED
  BY <1>3, <1>4, <1>5

\* A load of a good file keeps it so, and is whole.
LEMMA LoadWhole ==
  ASSUME WholeInv, stage # "ABORTED", NEW f, Good(f), ss_restore(f), file' = f, turn' = "z80"
  PROVE  WholeInv'
<1>1. /\ CoreOK' /\ RestFits(rest')
      /\ stage' # "ABORTED" => \A x \in DOMAIN Machine' :
           (x = "rom" /\ f.name # NoName) \/ Machine'[x] = f.of[x]
      /\ Complete(f) => stage' # "ABORTED"
  BY LoadsWhole DEF WholeInv
<1>2. loaded' = TRUE
  BY DEF ss_restore
<1>3. Good(file')
  OBVIOUS
<1>4. LoadIsWhole'
  BY <1>1 DEF LoadIsWhole, CoreOK
<1>5. WholeFilesLoad'
  BY <1>1 DEF WholeFilesLoad, Complete
<1> QED
  BY <1>1, <1>2, <1>3, <1>4, <1>5 DEF WholeInv, Good, Lives, Typed

\* Every step of a session keeps it so.
LEMMA WholeKeeps ==
  ASSUME WholeInv, [SessionNext]_<<vars, sessionVars>>
  PROVE  WholeInv'
<1>1. CASE onFileLoadState
  <2>1. stage # "ABORTED" /\ Good(file) /\ ss_restore(file) /\ file' = file /\ turn' = "z80"
    BY <1>1 DEF onFileLoadState, Idle, WholeInv
  <2> QED
    BY <2>1, LoadWhole
<1>2. CASE restore_state
  <2>1. stage # "ABORTED" /\ turn' = "z80"
    BY <1>2 DEF restore_state, WholeInv
  <2>2. PICK cut \in Cuts : /\ ss_restore(Written(With(Core, Rest(1)), NoName, 0, cut))
                            /\ file' = Written(With(Core, Rest(1)), NoName, 0, cut)
    BY <1>2 DEF restore_state
  <2>3. Good(Written(With(Core, Rest(1)), NoName, 0, cut))
    <3>1. cut \in Nat \X BOOLEAN /\ Named1(NoName) /\ IsByte(0)
      BY SavesAre
    <3>2. RestFits(Rest(1)) /\ CoreOK /\ RestFits(rest)
      BY RestIsFit DEF WholeInv
    <3> QED
      BY <2>1, <3>1, <3>2, SavedIsGood
  <2> QED
    BY <2>1, <2>2, <2>3, LoadWhole
<1>3. CASE load_rom \/ UNCHANGED <<vars, sessionVars>>
  <2>1. UNCHANGED <<vars, rest, file, loaded>> /\ (turn' = turn \/ turn' = "z80")
    BY <1>3 DEF load_rom, sessionVars
  <2>2. UNCHANGED <<stage, m1_tick_count, m2_tick_count, m3_tick_count, opcode_index, read_index,
                    write_index, read_is_io, write_is_io, read_address, write_address, read_buffer,
                    write_buffer, ins, pc, sp, iff1, iff2, int_mode, n_m1, n_rfsh, n_mreq, n_ioreq,
                    n_rd, n_wr, address, data, n_wait, n_int, n_nmi>>
    BY <2>1 DEF vars, ticks, pipe, indices, operand, regs, control, inputs
  <2>3. CoreOK'
    BY <2>2 DEF WholeInv, CoreOK, TypeOK, TicksInRange, CycleOrder
  <2>4. Machine' = Machine
    BY <2>1, <2>2 DEF Machine, Core, Bus, With, Encoding, StageNumber
  <2>5. LoadIsWhole' /\ WholeFilesLoad'
    BY <2>1, <2>2, <2>3, <2>4 DEF WholeInv, LoadIsWhole, WholeFilesLoad, Complete, CoreOK
  <2>6. file' # NoFile => Good(file')
    BY <2>1 DEF WholeInv
  <2> QED
    BY <2>1, <2>2, <2>3, <2>5, <2>6 DEF WholeInv, Good, Lives, Typed
<1> QED
  BY <1>1, <1>2, <1>3, HalfClockWhole, ButtonsWhole DEF SessionNext, Boot, User, Client

\* WholeInv holds in every reachable state.
THEOREM SessionsAreWhole == SessionSpec => []WholeInv
BY WholeBegins, WholeKeeps, PTL DEF SessionSpec

\* A load that returns has put back the whole machine that was saved, whatever it found in
\* its place and wherever the file was cut (savestate-restore.c:348-385).
THEOREM LoadsAreWhole == SessionSpec => []LoadIsWhole
BY SessionsAreWhole, PTL DEF WholeInv

\* A complete file loads (savestate-restore.c:39-58).
THEOREM WholeFilesAreLoaded == SessionSpec => []WholeFilesLoad
BY SessionsAreWhole, PTL DEF WholeInv

-----------------------------------------------------------------------------
(***************************************************************************)
(* What the next cycle of an instruction is told of depends on: the stage  *)
(* s, the operation op, the bytes moved (n opcode bytes, r read, w         *)
(* written), the tick counts t1, t2 and t3, and the spaces of the operand  *)
(* cycles. The pins are not in it: a reset leaves them as they are.        *)
(***************************************************************************)
Ordered(s, op, n, r, w, t1, t2, t3, rio, wio) ==
  /\ s = "M1" =>
       /\ n \in Nat /\ r = 0 /\ w = 0 /\ t2 = 0 /\ t3 = 0
       /\ n = 0 => t1 # 0
       /\ n # 0 => op \in Ops /\ n < op.size
  /\ s = "M2" =>
       /\ op \in Ops /\ n = op.size /\ r \in Nat /\ r < op.reads /\ w = 0 /\ t3 = 0
       /\ rio \in {0, op.rio} /\ (t2 \in {0, 1} => rio = op.rio)
  /\ s = "M3" =>
       /\ op \in Ops /\ n = op.size /\ r = op.reads /\ wio = op.wio

PipelineInOrder ==
  Ordered(stage, ins, opcode_index, read_index, write_index, m1_tick_count,
          m2_tick_count, m3_tick_count, read_is_io, write_is_io)

\* A machine that was saved, in the numbers of its file, is one the core can be in.
Sound(m) ==
  \E s \in StageSet, op \in Ops \cup {NoOp} :
    /\ m["stage"] = StageNumber(s) /\ m["opcode"] = Encoding(op)
    /\ Ordered(s, op, m["opcode_index"], m["read_index"], m["write_index"], m["m1_tick"],
               m["m2_tick"], m["m3_tick"], m["read_is_io"], m["write_is_io"])

\* What the stages find in the table (z80.c:227-231, 239-248, 354-363).
PcFound(a)        == { <<"pc", b>> : b \in { c \in {a} : "PC" \in breakpoints[c] } }
MemFound(a, flag) == { <<"mem", b>> : b \in { c \in {a} : flag \in breakpoints[c] } }
IoFound(a, flag)  == { <<"io", b>> : b \in { c \in {a} : flag \in breakpoints[Lo(c)] } }

\* What was told since the cycle began, if it was seen from there on.
Watched ==
  told # Unwatched =>
    /\ stage = "M1" /\ opcode_index = 0 =>
         told = PcFound(pc) /\ (m1_tick_count \in 2..4 => address = pc)
    /\ stage = "M2" /\ m2_tick_count > 0 =>
         /\ address = read_address
         /\ told = IF ins.rio = 1 THEN IoFound(address, "IO_RD") ELSE MemFound(address, "RD")
    /\ stage = "M3" /\ m3_tick_count > 0 =>
         /\ address = write_address
         /\ told = IF ins.wio = 1 THEN IoFound(address, "IO_WR") ELSE MemFound(address, "WR")

SessionInv ==
  /\ stage \in StageSet \cup {"ABORTED"}
  /\ stage # "ABORTED" => ins \in Ops \cup {NoOp}
  /\ turn = "boot" => stage = "RESET"
  /\ PipelineInOrder /\ Watched
  /\ file # NoFile => Sound(file.of)

-----------------------------------------------------------------------------
(***************************************************************************)
(* Machines and files.                                                     *)
(***************************************************************************)

\* What is written to a file is a machine the core can be in.
LEMMA SavedIsSound ==
  ASSUME SessionInv, stage # "ABORTED", NEW others
  PROVE  Sound(With(Core, others))
<1> DEFINE names == {"stage", "opcode", "opcode_index", "read_index", "write_index",
                     "m1_tick", "m2_tick", "m3_tick", "read_is_io", "write_is_io"}
           m == With(Core, others)
<1>1. names \subseteq DOMAIN Core
  BY DEF Core
<1>2. \A x \in names : m[x] = Core[x]
  BY <1>1, WithHas
<1>3. /\ m["stage"] = StageNumber(stage) /\ m["opcode"] = Encoding(ins)
      /\ m["opcode_index"] = opcode_index /\ m["read_index"] = read_index
      /\ m["write_index"] = write_index
      /\ m["m1_tick"] = m1_tick_count /\ m["m2_tick"] = m2_tick_count
      /\ m["m3_tick"] = m3_tick_count
      /\ m["read_is_io"] = read_is_io /\ m["write_is_io"] = write_is_io
  BY <1>2 DEF Core
<1> HIDE DEF m
<1>4. stage \in StageSet /\ ins \in Ops \cup {NoOp} /\ PipelineInOrder
  BY DEF SessionInv
<1>5. Sound(m)
  BY <1>3, <1>4 DEF Sound, PipelineInOrder
<1> QED
  BY <1>5 DEF m

\* The machine that a whole load puts back is one the core can be in.
LEMMA LoadedIsSound ==
  ASSUME SessionInv, LoadIsWhole', loaded', Sound(file.of)', stage' # "ABORTED"
  PROVE  stage' \in StageSet /\ ins' \in Ops \cup {NoOp} /\ PipelineInOrder'
<1> DEFINE names == {"stage", "opcode", "opcode_index", "read_index", "write_index",
                     "m1_tick", "m2_tick", "m3_tick", "read_is_io", "write_is_io"}
           m == file'.of
<1>1. names \subseteq DOMAIN Core'
  BY DEF Core
<1>2. \A x \in names : x \in DOMAIN Machine' /\ Machine'[x] = Core'[x]
  BY <1>1, WithHas DEF Machine
<1>3. \A x \in names : Machine'[x] = m[x]
  BY <1>2 DEF LoadIsWhole
<1>4. /\ m["stage"] = StageNumber(stage') /\ m["opcode"] = Encoding(ins')
      /\ m["opcode_index"] = opcode_index' /\ m["read_index"] = read_index'
      /\ m["write_index"] = write_index'
      /\ m["m1_tick"] = m1_tick_count' /\ m["m2_tick"] = m2_tick_count'
      /\ m["m3_tick"] = m3_tick_count'
      /\ m["read_is_io"] = read_is_io' /\ m["write_is_io"] = write_is_io'
  BY <1>2, <1>3 DEF Core, StageNumber, Encoding
<1>5. stage' \in StageSet /\ ins' \in Ops \cup {NoOp}
  BY DEF LoadIsWhole, TypeOK, Stages, StageSet
<1> HIDE DEF m
<1>6. PICK s \in StageSet, op \in Ops \cup {NoOp} :
        /\ m["stage"] = StageNumber(s) /\ m["opcode"] = Encoding(op)
        /\ Ordered(s, op, m["opcode_index"], m["read_index"], m["write_index"],
                   m["m1_tick"], m["m2_tick"], m["m3_tick"], m["read_is_io"],
                   m["write_is_io"])
  BY DEF Sound, m
<1>7. s = stage' /\ op = ins'
  BY <1>4, <1>5, <1>6, StagesDiffer, EncodingsDiffer
<1> QED
  BY <1>4, <1>5, <1>6, <1>7 DEF PipelineInOrder

-----------------------------------------------------------------------------
(***************************************************************************)
(* A half-clock of the core.                                               *)
(***************************************************************************)

\* What a half-clock leaves: a core in order, and nothing told that was not asked.
Kept ==
  /\ stage' \in StageSet \cup {"ABORTED"} /\ ins' \in Ops \cup {NoOp}
  /\ PipelineInOrder' /\ Watched'

\* The tick of the core, with the history of the callbacks.
Told == told' = (IF CycleBegins THEN Hits ELSE told) /\ UNCHANGED breakpoints

\* What the templates are made of.
LEMMA OpTyped ==
  ASSUME NEW op \in Ops
  PROVE  /\ op.size \in 1..4 /\ op.reads \in 0..2 /\ op.writes \in 0..2
         /\ op.rio \in 0..1 /\ op.wio \in 0..1 /\ op.last \in {"RESET", "REFRESH"}
         /\ op.prefix # "none" => op.size > 1
         /\ op.rio = 1 => op.reads < 2
BY OpsAssumption DEF Template

\* A cycle the decoder asks for begins in order, with nothing on the bus yet.
LEMMA DecodeTold ==
  ASSUME NEW op \in Ops, NEW n \in Nat, NEW r \in Nat, NEW w, NEW pc1, NEW buf,
         Decode(op, n, r, w, pc1, buf),
         opcode_index' = n, read_index' = r, write_index' = w,
         n # 0, n < op.size => r = 0 /\ w = 0,
         r # op.reads => w = 0 /\ m2_tick_count' = 0,
         r # 0 /\ r # op.reads => read_is_io \in {0, op.rio},
         w # 0 => write_is_io = op.wio,
         m2_tick_count' = 0 \/ n = op.size, m3_tick_count' = 0
  PROVE  Kept
<1>1. /\ op.size \in 1..4 /\ op.reads \in 0..2 /\ op.rio \in 0..1
      /\ op.last \in {"RESET", "REFRESH"}
      /\ op.rio = 1 => op.reads < 2
  BY OpTyped
<1>2. CASE NeedOpcode(op, n, pc1)
  <2>1. stage' = "M1" /\ ins' = op /\ n < op.size
    BY <1>2 DEF NeedOpcode
  <2>2. PipelineInOrder'
    BY <1>1, <2>1 DEF PipelineInOrder, Ordered
  <2> QED
    BY <2>1, <2>2 DEF Kept, StageSet, Watched
<1>3. CASE NeedRead(op, n, r, pc1)
  <2>1. /\ stage' = "M2" /\ ins' = op /\ n = op.size /\ r < op.reads
        /\ (r = 0 /\ read_is_io' = op.rio) \/ (r # 0 /\ read_is_io' = read_is_io)
    BY <1>3 DEF NeedRead
  <2>2. read_is_io' = op.rio
    BY <1>1, <2>1
  <2>3. PipelineInOrder'
    BY <1>1, <2>1, <2>2 DEF PipelineInOrder, Ordered
  <2>4. m2_tick_count' = 0
    BY <1>1, <2>1
  <2> QED
    BY <2>1, <2>3, <2>4 DEF Kept, StageSet, Watched
<1>4. CASE NeedWrite(op, n, r, w, pc1, buf)
  <2>1. /\ stage' = "M3" /\ ins' = op /\ n = op.size /\ r = op.reads
        /\ (w = 0 /\ write_is_io' = op.wio) \/ (w # 0 /\ write_is_io' = write_is_io)
    BY <1>4 DEF NeedWrite
  <2>2. PipelineInOrder'
    BY <2>1 DEF PipelineInOrder, Ordered
  <2> QED
    BY <2>1, <2>2 DEF Kept, StageSet, Watched
<1>5. CASE Retire(op, n, r, w, pc1, buf)
  <2>1. stage' \in {"RESET", "REFRESH"} /\ ins' = NoOp
    BY <1>1, <1>5 DEF Retire
  <2> QED
    BY <2>1 DEF Kept, StageSet, PipelineInOrder, Ordered, Watched
<1> QED
  BY <1>2, <1>3, <1>4, <1>5 DEF Decode

\* At the boundary the callback of PC is told before the fetch begins.
LEMMA BoundaryTold ==
  ASSUME SessionInv, Boundary, Told
  PROVE  Kept
<1>1. /\ stage = "RESET" /\ told' = PcFound(pc) /\ UNCHANGED <<breakpoints, ins, pc>>
      /\ opcode_index' = 0 /\ read_index' = 0 /\ write_index' = 0
      /\ m2_tick_count' = 0 /\ m3_tick_count' = 0
      /\ stage' = "M1" => m1_tick_count' = 1
      /\ stage' \in {"M1", "M1_NMI", "M1_INT", "RESET", "ABORTED"}
  BY DEF Boundary, AcceptNmi, AcceptInt, DropInt, BeginFetch, ResetPipeline, Told,
         CycleBegins, Hits, PcFound, regs
<1>2. ins' \in Ops \cup {NoOp}
  BY <1>1 DEF SessionInv
<1>3. PipelineInOrder'
  BY <1>1 DEF PipelineInOrder, Ordered
<1>4. Watched'
  BY <1>1 DEF Watched, PcFound
<1> QED
  BY <1>1, <1>2, <1>3, <1>4 DEF Kept, StageSet

\* Outside the cycles of an instruction nothing is in progress.
LEMMA BetweenKept ==
  ASSUME stage' \in (StageSet \cup {"ABORTED"}) \ {"M1", "M2", "M3"},
         ins' \in Ops \cup {NoOp}
  PROVE  Kept
BY DEF Kept, PipelineInOrder, Ordered, Watched

\* A fetch: what was told at the boundary stays told while PC is on the bus.
LEMMA M1Told ==
  ASSUME SessionInv, M1Cycle, Told
  PROVE  Kept
<1>1. /\ stage = "M1" /\ ins \in Ops \cup {NoOp}
      /\ opcode_index \in Nat /\ read_index = 0 /\ write_index = 0
      /\ m2_tick_count = 0 /\ m3_tick_count = 0
      /\ opcode_index = 0 => m1_tick_count # 0
      /\ opcode_index # 0 => ins \in Ops /\ opcode_index < ins.size
  BY DEF M1Cycle, M1Start, M1Request, M1Idle, M1SampleWait, M1Latch, M1Refresh, M1Decode,
         M1DropPrefix, OpcodeLatched, SessionInv, PipelineInOrder, Ordered
<1>2. ASSUME NEW t, stage' = "M1", m1_tick_count' = t, t # 0,
             UNCHANGED <<m2_tick_count, m3_tick_count, pipe, pc>>,
             opcode_index = 0 => m1_tick_count \notin {0, 7},
             told # Unwatched /\ opcode_index = 0 /\ t \in 2..4 => address' = pc
      PROVE  Kept
  <2>1. /\ ins' = ins /\ opcode_index' = opcode_index
        /\ read_index' = read_index /\ write_index' = write_index
    BY <1>2 DEF pipe, indices
  <2>2. PipelineInOrder'
    BY <1>1, <1>2, <2>1 DEF PipelineInOrder, Ordered
  <2>3. Watched'
    <3>1. SUFFICES ASSUME told' # Unwatched, opcode_index = 0
                   PROVE  told' = PcFound(pc)' /\ (t \in 2..4 => address' = pc')
      BY <1>2, <2>1 DEF Watched
    <3>2. told' = told /\ breakpoints' = breakpoints /\ pc' = pc
      BY <1>1, <1>2, <3>1 DEF Told, CycleBegins
    <3>3. told = PcFound(pc)
      BY <1>1, <3>1, <3>2 DEF SessionInv, Watched
    <3> QED
      BY <1>2, <3>1, <3>2, <3>3 DEF PcFound
  <2> QED
    BY <1>1, <1>2, <2>1, <2>2, <2>3 DEF Kept, StageSet
<1>3. CASE M1Start
  BY <1>1, <1>2, <1>3 DEF M1Start, regs
<1>4. CASE M1Request
  BY <1>2, <1>4 DEF M1Request, regs
<1>5. CASE M1Idle
  <2>1. /\ stage' = "M1" /\ m1_tick_count' = m1_tick_count + 1 /\ m1_tick_count \in {2, 6}
        /\ UNCHANGED <<m2_tick_count, m3_tick_count, pipe, pc, address>>
    BY <1>5 DEF M1Idle, regs
  <2>2. told # Unwatched /\ opcode_index = 0 /\ m1_tick_count + 1 \in 2..4 => address' = pc
    BY <1>1, <2>1 DEF SessionInv, Watched
  <2> QED
    BY <1>2, <2>1, <2>2
<1>6. CASE M1SampleWait
  <2>1. /\ stage' = "M1" /\ m1_tick_count' \in {1, 4} /\ m1_tick_count = 3
        /\ UNCHANGED <<m2_tick_count, m3_tick_count, pipe, pc, address>>
    BY <1>6 DEF M1SampleWait, regs
  <2>2. told # Unwatched /\ opcode_index = 0 => address' = pc
    BY <1>1, <2>1 DEF SessionInv, Watched
  <2> QED
    BY <1>2, <2>1, <2>2
<1>7. CASE M1Latch
  BY <1>2, <1>7 DEF M1Latch, regs
<1>8. CASE M1Refresh
  BY <1>2, <1>8 DEF M1Refresh, regs
<1>9. CASE M1Decode
  <2>1. /\ opcode_index' = opcode_index + 1 /\ read_index' = 0 /\ write_index' = 0
        /\ m2_tick_count' = 0 /\ m3_tick_count' = 0
    BY <1>1, <1>9 DEF M1Decode, OpcodeLatched
  <2>2. PICK op \in Ops : Decode(op, opcode_index + 1, 0, 0, Plus(pc, 1), read_buffer)
    BY <1>1, <1>9 DEF M1Decode
  <2>3. opcode_index + 1 \in Nat /\ opcode_index + 1 # 0
    BY <1>1
  <2> QED
    BY <2>1, <2>2, <2>3, DecodeTold
<1>10. CASE M1DropPrefix
  <2>1. /\ stage' = "M1" /\ opcode_index' = 1 /\ read_index' = 0 /\ write_index' = 0
        /\ m2_tick_count' = 0 /\ m3_tick_count' = 0
    BY <1>1, <1>10 DEF M1DropPrefix, OpcodeLatched
  <2>2. ins' \in Ops /\ ins'.prefix # "none"
    BY <1>10 DEF M1DropPrefix
  <2>3. 1 < ins'.size
    BY <2>2, OpsAssumption
  <2>4. PipelineInOrder'
    BY <2>1, <2>2, <2>3 DEF PipelineInOrder, Ordered
  <2> QED
    BY <2>1, <2>2, <2>4 DEF Kept, StageSet, Watched
<1> QED
  BY <1>3, <1>4, <1>5, <1>6, <1>7, <1>8, <1>9, <1>10 DEF M1Cycle

\* A read: the callback is told in the half-clock that puts the address on the bus.
LEMMA M2Told ==
  ASSUME SessionInv, M2Cycle, Told
  PROVE  Kept
<1>1. /\ stage = "M2" /\ ins \in Ops /\ opcode_index = ins.size
      /\ read_index \in Nat /\ read_index < ins.reads /\ write_index = 0
      /\ m3_tick_count = 0 /\ read_is_io \in {0, ins.rio}
      /\ m2_tick_count \in {0, 1} => read_is_io = ins.rio
  BY DEF M2Cycle, M2Address, M2Request, M2Idle, M2SampleWait, M2Done, SessionInv,
         PipelineInOrder, Ordered
<1>2. ASSUME NEW t, stage' = "M2", m2_tick_count' = t, t \in 2..7, m2_tick_count \in 1..6,
             UNCHANGED <<m1_tick_count, m3_tick_count, indices, ins, read_address, address>>,
             read_is_io' \in {0, ins.rio}
      PROVE  Kept
  <2>1. /\ opcode_index' = opcode_index
        /\ read_index' = read_index /\ write_index' = write_index
    BY <1>2 DEF indices
  <2>2. PipelineInOrder'
    BY <1>1, <1>2, <2>1 DEF PipelineInOrder, Ordered
  <2>3. told' = told /\ breakpoints' = breakpoints
    BY <1>1, <1>2 DEF Told, CycleBegins
  <2>4. Watched'
    BY <1>1, <1>2, <2>3 DEF SessionInv, Watched, IoFound, MemFound
  <2> QED
    BY <1>1, <1>2, <2>2, <2>4 DEF Kept, StageSet
<1>3. CASE M2Address
  <2>1. /\ stage' = "M2" /\ m2_tick_count = 0 /\ m2_tick_count' = 1
        /\ address' = read_address /\ UNCHANGED <<m1_tick_count, m3_tick_count, pipe>>
    BY <1>3 DEF M2Address
  <2>2. /\ ins' = ins /\ opcode_index' = opcode_index /\ read_index' = read_index
        /\ write_index' = write_index /\ read_is_io' = read_is_io
        /\ read_address' = read_address
    BY <2>1 DEF pipe, indices, operand
  <2>3. PipelineInOrder'
    BY <1>1, <2>1, <2>2 DEF PipelineInOrder, Ordered
  <2>4. told' = Hits /\ breakpoints' = breakpoints /\ read_is_io = ins.rio
    BY <1>1, <2>1 DEF Told, CycleBegins
  <2>5. told' = IF ins.rio = 1 THEN IoFound(read_address, "IO_RD")
                               ELSE MemFound(read_address, "RD")
    BY <1>1, <2>1, <2>4 DEF Hits, IoFound, MemFound
  <2>6. Watched'
    BY <1>1, <2>1, <2>2, <2>4, <2>5 DEF Watched, IoFound, MemFound
  <2> QED
    BY <1>1, <2>1, <2>2, <2>3, <2>6 DEF Kept, StageSet
<1>4. CASE M2Request
  BY <1>1, <1>2, <1>4 DEF M2Request, pipe, operand
<1>5. CASE M2Idle
  <2>1. /\ stage' = "M2" /\ m2_tick_count' = m2_tick_count + 1
        /\ m2_tick_count \in {2, 3, 4, 6}
        /\ UNCHANGED <<m1_tick_count, m3_tick_count, indices, ins, read_address, address,
                       read_is_io>>
    BY <1>1, <1>5 DEF M2Idle, pipe, operand
  <2> QED
    BY <1>1, <1>2, <2>1
<1>6. CASE M2SampleWait
  BY <1>1, <1>2, <1>6 DEF M2SampleWait, M2Wait
<1>7. CASE M2Done
  <2>1. /\ opcode_index' = opcode_index /\ read_index' = read_index + 1
        /\ write_index' = write_index /\ m2_tick_count' = 0 /\ m3_tick_count' = 0
        /\ Decode(ins, opcode_index, read_index + 1, write_index, pc,
                  [read_buffer EXCEPT ![read_index] = data])
    BY <1>1, <1>7 DEF M2Done
  <2>2. ins.size \in 1..4
    BY <1>1, OpTyped
  <2>3. /\ opcode_index \in Nat /\ opcode_index # 0 /\ ~(opcode_index < ins.size)
        /\ read_index + 1 \in Nat
    BY <1>1, <2>2
  <2> QED
    BY <1>1, <2>1, <2>3, DecodeTold
<1> QED
  BY <1>3, <1>4, <1>5, <1>6, <1>7 DEF M2Cycle

\* A write: the same.
LEMMA M3Told ==
  ASSUME SessionInv, M3Cycle, Told
  PROVE  Kept
<1>1. /\ stage = "M3" /\ ins \in Ops /\ opcode_index = ins.size
      /\ read_index = ins.reads /\ write_is_io = ins.wio
  BY DEF M3Cycle, M3Address, M3Request, M3Idle, M3SampleWait, M3Done, SessionInv,
         PipelineInOrder, Ordered
<1>2. ASSUME NEW t, stage' = "M3", m3_tick_count' = t, t \in 2..7, m3_tick_count \in 1..6,
             UNCHANGED <<opcode_index, read_index, operand, ins, address>>
      PROVE  Kept
  <2>1. write_is_io' = write_is_io /\ write_address' = write_address
    BY <1>2 DEF operand
  <2>2. PipelineInOrder'
    BY <1>1, <1>2, <2>1 DEF PipelineInOrder, Ordered
  <2>3. told' = told /\ breakpoints' = breakpoints
    BY <1>1, <1>2 DEF Told, CycleBegins
  <2>4. Watched'
    BY <1>1, <1>2, <2>1, <2>3 DEF SessionInv, Watched, IoFound, MemFound
  <2> QED
    BY <1>1, <1>2, <2>2, <2>4 DEF Kept, StageSet
<1>3. CASE M3Address
  <2>1. /\ stage' = "M3" /\ m3_tick_count = 0 /\ m3_tick_count' = 1
        /\ address' = write_address /\ UNCHANGED <<m1_tick_count, m2_tick_count, pipe>>
    BY <1>3 DEF M3Address, WriteTarget
  <2>2. /\ ins' = ins /\ opcode_index' = opcode_index /\ read_index' = read_index
        /\ write_is_io' = write_is_io /\ write_address' = write_address
    BY <2>1 DEF pipe, indices, operand
  <2>3. PipelineInOrder'
    BY <1>1, <2>1, <2>2 DEF PipelineInOrder, Ordered
  <2>4. told' = Hits /\ breakpoints' = breakpoints
    BY <1>1, <2>1 DEF Told, CycleBegins
  <2>5. told' = IF ins.wio = 1 THEN IoFound(write_address, "IO_WR")
                               ELSE MemFound(write_address, "WR")
    BY <1>1, <2>1, <2>4 DEF Hits, IoFound, MemFound
  <2>6. Watched'
    BY <1>1, <2>1, <2>2, <2>4, <2>5 DEF Watched, IoFound, MemFound
  <2> QED
    BY <1>1, <2>1, <2>2, <2>3, <2>6 DEF Kept, StageSet
<1>4. CASE M3Request
  BY <1>1, <1>2, <1>4 DEF M3Request
<1>5. CASE M3Idle
  <2>1. /\ stage' = "M3" /\ m3_tick_count' = m3_tick_count + 1
        /\ m3_tick_count \in {2, 3, 4, 6}
        /\ UNCHANGED <<opcode_index, read_index, operand, ins, address>>
    BY <1>1, <1>5 DEF M3Idle, pipe, indices
  <2> QED
    BY <1>1, <1>2, <2>1
<1>6. CASE M3SampleWait
  <2>1. /\ stage' = "M3" /\ m3_tick_count' \in {4, 6} /\ m3_tick_count = 5
        /\ UNCHANGED <<opcode_index, read_index, operand, ins, address>>
    BY <1>1, <1>6 DEF M3SampleWait, pipe, indices
  <2> QED
    BY <1>1, <1>2, <2>1
<1>7. CASE M3Done
  <2>1. /\ opcode_index' = opcode_index /\ read_index' = read_index
        /\ write_index' = write_index /\ m3_tick_count' = 0
        /\ Decode(ins, opcode_index, read_index, write_index, pc, read_buffer)
    BY <1>1, <1>7 DEF M3Done, indices
  <2>2. ins.size \in 1..4 /\ ins.reads \in 0..2
    BY <1>1, OpTyped
  <2>3. /\ opcode_index \in Nat /\ opcode_index # 0 /\ ~(opcode_index < ins.size)
        /\ read_index \in Nat
    BY <1>1, <2>2
  <2> QED
    BY <1>1, <2>1, <2>3, DecodeTold
<1> QED
  BY <1>3, <1>4, <1>5, <1>6, <1>7 DEF M3Cycle

\* A half-clock of the core keeps its order, and tells what it should.
LEMMA TickTold ==
  ASSUME SessionInv, Tick, Told
  PROVE  Kept
<1>1. CASE RefreshCycle \/ InterruptCycle
  <2>1. ins \in Ops \cup {NoOp}
    <3>1. stage # "ABORTED"
      BY <1>1 DEF RefreshCycle, RefreshStart, RefreshRequest, RefreshIdle, RefreshDone,
         InterruptCycle, IntM1, IntM2, IntM3, NmiM1, NmiM2, NmiM3
    <3> QED
      BY <3>1 DEF SessionInv
  <2>2. CASE RefreshCycle
    <3>1. ins' = ins /\ stage' \in {"REFRESH", "RESET"}
      BY <2>2 DEF RefreshCycle, RefreshStart, RefreshRequest, RefreshIdle, RefreshDone, pipe
    <3> QED
      BY <2>1, <3>1, BetweenKept DEF StageSet
  <2>3. CASE InterruptCycle
    <3>1. /\ ins' = ins
          /\ stage' \in {"M1_INT", "M2_INT", "M3_INT", "M1_NMI", "M2_NMI", "M3_NMI", "RESET"}
      BY <2>3 DEF InterruptCycle, IntM1, IntM2, IntM3, NmiM1, NmiM2, NmiM3, pipe
    <3> QED
      BY <2>1, <3>1, BetweenKept DEF StageSet
  <2> QED
    BY <1>1, <2>2, <2>3
<1> QED
  BY <1>1, BoundaryTold, M1Told, M2Told, M3Told DEF Tick

-----------------------------------------------------------------------------
(***************************************************************************)
(* The loop, the user and the client.                                      *)
(***************************************************************************)

\* A half-clock of the loop.
LEMMA CpuTurnKeeps ==
  ASSUME SessionInv, CpuTurn
  PROVE  SessionInv'
<1>1. Kept
  BY TickTold DEF CpuTurn, Told
<1>2. (file' = file \/ file' = NoFile) /\ turn' = "devices"
  BY DEF CpuTurn, Older
<1>3. file' # NoFile => Sound(file'.of)
  BY <1>2 DEF SessionInv
<1> QED
  BY <1>1, <1>2, <1>3 DEF Kept, SessionInv, Sound

\* The devices only move the data bus, or stop the program.
LEMMA DevicesTurnKeeps ==
  ASSUME SessionInv, DevicesTurn
  PROVE  SessionInv'
<1>1. /\ stage' \in {stage, "ABORTED"}
      /\ UNCHANGED <<ins, opcode_index, read_index, write_index, m1_tick_count, m2_tick_count,
                     m3_tick_count, read_is_io, write_is_io, read_address, write_address,
                     address, pc, breakpoints, told, file>>
      /\ turn' = "z80"
  BY DEF DevicesTurn, ticks, pipe, indices, operand, regs
<1>2. PipelineInOrder'
  BY <1>1 DEF SessionInv, PipelineInOrder, Ordered
<1>3. Watched'
  BY <1>1 DEF SessionInv, Watched, PcFound, MemFound, IoFound
<1>4. /\ stage' \in StageSet \cup {"ABORTED"}
      /\ stage' # "ABORTED" => ins' \in Ops \cup {NoOp}
      /\ file' # NoFile => Sound(file'.of)
  BY <1>1 DEF SessionInv
<1> QED
  BY <1>1, <1>2, <1>3, <1>4 DEF SessionInv, Sound

\* The user and the client, between two half-clocks; a new history is begun wherever
\* the core or the breakpoints are no longer those of the cycle in progress.
LEMMA ButtonsKeep ==
  ASSUME SessionInv,
         \/ onDebugStart \/ onDebugReset \/ onFileSaveState \/ load_rom
         \/ z80dbg_set_breakpoint \/ z80dbg_clear_breakpoints
  PROVE  SessionInv'
<1>1. ASSUME UNCHANGED vars, UNCHANGED <<breakpoints, told>> \/ told' = Unwatched,
             file' # NoFile => Sound(file'.of), turn' \in {turn, "z80"}
      PROVE  SessionInv'
  <2>1. UNCHANGED <<stage, ins, opcode_index, read_index, write_index, m1_tick_count,
                    m2_tick_count, m3_tick_count, read_is_io, write_is_io, read_address,
                    write_address, address, pc>>
    BY <1>1 DEF vars, ticks, pipe, indices, operand, regs
  <2>2. PipelineInOrder'
    BY <2>1 DEF SessionInv, PipelineInOrder
  <2>3. Watched'
    BY <1>1, <2>1 DEF SessionInv, Watched, PcFound, MemFound, IoFound
  <2> QED
    BY <1>1, <2>1, <2>2, <2>3 DEF SessionInv, Sound
<1>2. file # NoFile => Sound(file.of)
  BY DEF SessionInv
<1>3. CASE onDebugStart \/ load_rom
  BY <1>1, <1>2, <1>3 DEF onDebugStart, load_rom
<1>4. CASE z80dbg_set_breakpoint \/ z80dbg_clear_breakpoints
  BY <1>1, <1>2, <1>4 DEF z80dbg_set_breakpoint, z80dbg_clear_breakpoints
<1>5. CASE onDebugReset
  <2>1. stage' = "RESET" /\ ins' = NoOp /\ file' = file
    BY <1>5 DEF onDebugReset
  <2>2. told' = Unwatched /\ (file' # NoFile => Sound(file'.of))
    BY <1>2, <1>5, <2>1 DEF onDebugReset
  <2> QED
    BY <2>1, <2>2 DEF SessionInv, StageSet, PipelineInOrder, Ordered, Watched, Sound
<1>6. CASE onFileSaveState
  <2>1. PICK save \in Saves : file' = Written(Machine, save[1], save[2], Whole)
    BY <1>6 DEF onFileSaveState
  <2>2. file'.of = With(Core, rest)
    BY <2>1 DEF Written, Machine
  <2>3. Sound(file'.of)
    BY <1>6, <2>2, SavedIsSound DEF onFileSaveState, Idle
  <2> QED
    BY <1>1, <1>6, <2>3 DEF onFileSaveState
<1> QED
  BY <1>3, <1>4, <1>5, <1>6

\* A load gives the core another machine, whole: one that was saved.
LEMMA LoadKeeps ==
  ASSUME SessionInv, onFileLoadState \/ restore_state, LoadIsWhole'
  PROVE  SessionInv'
<1>1. turn' = "z80" /\ told' = Unwatched /\ loaded'
  BY DEF onFileLoadState, restore_state, Idle, ss_restore
<1>2. Sound(file'.of)
  <2>1. CASE onFileLoadState
    BY <2>1 DEF onFileLoadState, SessionInv
  <2>2. CASE restore_state
    <3>1. PICK cut \in Cuts : file' = Written(With(Core, Rest(1)), NoName, 0, cut)
      BY <2>2 DEF restore_state
    <3>2. stage # "ABORTED"
      BY <2>2 DEF restore_state, SessionInv
    <3> QED
      BY <3>1, <3>2, SavedIsSound DEF Written
  <2> QED
    BY <2>1, <2>2
<1>3. Sound(file.of)'
  BY <1>2 DEF Sound
<1>4. CASE stage' = "ABORTED"
  BY <1>1, <1>3, <1>4 DEF SessionInv, PipelineInOrder, Ordered, Watched
<1>5. CASE stage' # "ABORTED"
  BY <1>1, <1>3, <1>5, LoadedIsSound DEF SessionInv, Watched
<1> QED
  BY <1>4, <1>5

\* A session begins in order.
LEMMA SessionBegins ==
  ASSUME SessionInit
  PROVE  SessionInv
BY DEF SessionInit, Init, SessionInv, StageSet, PipelineInOrder, Ordered, Watched

\* Every step of a session keeps it so, if its loads are whole.
LEMMA SessionKeeps ==
  ASSUME SessionInv, [SessionNext]_<<vars, sessionVars>>, LoadIsWhole'
  PROVE  SessionInv'
<1>1. CASE UNCHANGED <<vars, sessionVars>>
  <2>1. UNCHANGED <<stage, ins, opcode_index, read_index, write_index, m1_tick_count,
                    m2_tick_count, m3_tick_count, read_is_io, write_is_io, read_address,
                    write_address, address, pc, turn, breakpoints, file, told>>
    BY <1>1 DEF vars, ticks, pipe, indices, operand, regs, sessionVars
  <2> QED
    BY <2>1 DEF SessionInv, PipelineInOrder, Watched, PcFound, MemFound, IoFound
<1> QED
  BY <1>1, CpuTurnKeeps, DevicesTurnKeeps, ButtonsKeep, LoadKeeps
     DEF SessionNext, Boot, User, Client

(***************************************************************************)
(* The table, and what was asked for.                                      *)
(***************************************************************************)

\* The table holds the flags of the requests that mark an address, and no others.
TableInv ==
  \A b \in Word, flag \in Flags :
    flag \in breakpoints[b] <=> \E request \in asked : flag \in request[2] /\ Marked(b, request)

\* Only the client of the debug functions changes the table.
LEMMA TableKeeps ==
  ASSUME TableInv, [SessionNext]_<<vars, sessionVars>>
  PROVE  TableInv'
<1>1. CASE UNCHANGED <<breakpoints, asked>>
  BY <1>1 DEF TableInv
<1>2. CASE CpuTurn \/ DevicesTurn \/ Boot \/ User \/ UNCHANGED <<vars, sessionVars>>
  <2>1. UNCHANGED <<breakpoints, asked>>
    BY <1>2 DEF CpuTurn, DevicesTurn, Boot, load_rom, restore_state, User, onDebugStart,
       onDebugReset, onFileSaveState, onFileLoadState, sessionVars
  <2> QED
    BY <1>1, <2>1
<1>3. CASE z80dbg_set_breakpoint
  <2>1. PICK request \in Requests :
          /\ \A b \in Word : Marked(b, request) => breakpoints[b] = {}
          /\ breakpoints' = [b \in Word |->
               IF Marked(b, request) THEN request[2] ELSE breakpoints[b]]
          /\ asked' = asked \cup {request}
    BY <1>3 DEF z80dbg_set_breakpoint
  <2>2. SUFFICES ASSUME NEW b \in Word, NEW flag \in Flags
                 PROVE  flag \in breakpoints'[b]
                          <=> \E r \in asked' : flag \in r[2] /\ Marked(b, r)
    BY DEF TableInv
  <2>3. flag \in breakpoints[b] <=> \E r \in asked : flag \in r[2] /\ Marked(b, r)
    BY DEF TableInv
  <2>4. CASE Marked(b, request)
    BY <2>1, <2>3, <2>4
  <2>5. CASE ~Marked(b, request)
    BY <2>1, <2>3, <2>5
  <2> QED
    BY <2>4, <2>5
<1>4. CASE z80dbg_clear_breakpoints
  BY <1>4 DEF z80dbg_clear_breakpoints, TableInv
<1> QED
  BY <1>2, <1>3, <1>4 DEF SessionNext, Client

\* A low byte is an address of page 0, which is not the last page.
LEMMA LowInTable ==
  ASSUME NEW a \in Word
  PROVE  Lo(a) \in Word /\ Lo(Lo(a)) = Lo(a) /\ Lo(a) - Lo(Lo(a)) < WORD - BYTE
<1>1. BYTE \in Nat /\ BYTE > 1 /\ WORD = BYTE * BYTE /\ a \in Nat
  BY ByteAssumption, PagesAssumption DEF WORD, Word
<1>2. Lo(a) \in 0..(BYTE - 1)
  BY <1>1 DEF Lo
<1>3. Lo(Lo(a)) = Lo(a)
  BY <1>1, <1>2 DEF Lo
<1>4. BYTE * BYTE >= BYTE + BYTE
  BY <1>1
<1> HIDE DEF Lo
<1> QED
  BY <1>1, <1>2, <1>3, <1>4 DEF Word

\* What is found at an address is what somebody asked for there, whether it is looked up
\* at the address or, for a port of 8 bits, in page 0.
LEMMA FoundIsAsked ==
  ASSUME TableInv, \A request \in asked : ~Mixed(request), NEW a \in Word
  PROVE  /\ PcFound(a) = Call("pc", a, PcAsked(a))
         /\ \A flag \in {"RD", "WR"} : MemFound(a, flag) = Call("mem", a, MemAsked(a, flag))
         /\ PortsByLowByte => \A flag \in {"IO_RD", "IO_WR"} :
                                IoFound(a, flag) = Call("io", a, IoAsked(a, flag))
<1>1. ASSUME NEW flag \in {"PC", "RD", "WR"}
      PROVE  flag \in breakpoints[a] <=> \E r \in asked : flag \in r[2] /\ r[1] = a
  <2>1. ASSUME NEW r \in asked, flag \in r[2] PROVE Marked(a, r) <=> r[1] = a
    BY <1>1, <2>1 DEF Mixed, Marked
  <2>2. flag \in breakpoints[a] <=> \E r \in asked : flag \in r[2] /\ Marked(a, r)
    BY <1>1 DEF TableInv, Flags
  <2> QED
    BY <2>1, <2>2
<1>2. ASSUME PortsByLowByte, NEW flag \in {"IO_RD", "IO_WR"}
      PROVE  flag \in breakpoints[Lo(a)] <=> IoAsked(a, flag)
  <2>1. ASSUME NEW r \in asked, flag \in r[2]
        PROVE  Marked(Lo(a), r) <=> Lo(r[1]) = Lo(a)
    <3>1. EightBit(r)
      BY <1>2, <2>1 DEF PortsByLowByte, EightBit
    <3> QED
      BY <3>1, LowInTable DEF Marked
  <2>2. flag \in breakpoints[Lo(a)] <=> \E r \in asked : flag \in r[2] /\ Marked(Lo(a), r)
    BY <1>2, LowInTable DEF TableInv, Flags
  <2> QED
    BY <2>1, <2>2 DEF IoAsked
<1>3. PcFound(a) = Call("pc", a, PcAsked(a))
  BY <1>1 DEF PcFound, Call, PcAsked
<1>4. ASSUME NEW flag \in {"RD", "WR"}
      PROVE  MemFound(a, flag) = Call("mem", a, MemAsked(a, flag))
  BY <1>1, <1>4 DEF MemFound, Call, MemAsked
<1>5. ASSUME PortsByLowByte, NEW flag \in {"IO_RD", "IO_WR"}
      PROVE  IoFound(a, flag) = Call("io", a, IoAsked(a, flag))
  BY <1>2, <1>5 DEF IoFound, Call
<1> QED
  BY <1>3, <1>4, <1>5

\* Of every fetch and every operand cycle that a request asks for the callback has been
\* told, and of no other (z80.c:227-363), wherever the user stopped, reset, saved and
\* loaded the machine; ports are asked for by their low byte, and if one is asked for by
\* 16 bits only fetches and memory operands are spoken of.
THEOREM BreaksReported == SessionSpec => []BreaksAreReported
<1>1. ASSUME SessionInv, WholeInv, TableInv PROVE BreaksAreReported
  <2>1. SUFFICES ASSUME told # Unwatched, \A request \in asked : ~Mixed(request)
                 PROVE  /\ stage = "M1" /\ opcode_index = 0 /\ m1_tick_count \in 2..4 =>
                             told = Call("pc", address, PcAsked(address))
                        /\ stage = "M2" /\ m2_tick_count > 0 /\ (ins.rio = 1 => PortsByLowByte) =>
                             told = ReadCall
                        /\ stage = "M3" /\ m3_tick_count > 0 /\ (ins.wio = 1 => PortsByLowByte) =>
                             told = WriteCall
    BY DEF BreaksAreReported
  <2>2. pc \in Word /\ read_address \in Word /\ write_address \in Word
    BY <1>1 DEF WholeInv, CoreOK, TypeOK
  <2>3. Watched
    BY <1>1 DEF SessionInv
  <2>4. CASE stage = "M1"
    <3>1. PcFound(pc) = Call("pc", pc, PcAsked(pc))
      BY <1>1, <2>1, <2>2, FoundIsAsked
    <3> QED
      BY <2>1, <2>3, <2>4, <3>1 DEF Watched
  <2>5. CASE stage = "M2"
    <3>1. /\ MemFound(read_address, "RD") = Call("mem", read_address, MemAsked(read_address, "RD"))
          /\ PortsByLowByte => IoFound(read_address, "IO_RD")
                                 = Call("io", read_address, IoAsked(read_address, "IO_RD"))
      BY <1>1, <2>1, <2>2, FoundIsAsked
    <3> QED
      BY <2>1, <2>3, <2>5, <3>1 DEF Watched, ReadCall
  <2>6. CASE stage = "M3"
    <3>1. /\ MemFound(write_address, "WR") = Call("mem", write_address, MemAsked(write_address, "WR"))
          /\ PortsByLowByte => IoFound(write_address, "IO_WR")
                                 = Call("io", write_address, IoAsked(write_address, "IO_WR"))
      BY <1>1, <2>1, <2>2, FoundIsAsked
    <3> QED
      BY <2>1, <2>3, <2>6, <3>1 DEF Watched, WriteCall
  <2> QED
    BY <2>4, <2>5, <2>6
<1>2. SessionInit => TableInv
  BY DEF SessionInit, TableInv
<1>3. SessionInit => SessionInv
  BY SessionBegins
<1> QED
  BY <1>1, <1>2, <1>3, SessionKeeps, TableKeeps, LoadsAreWhole, SessionsAreWhole, PTL
     DEF SessionSpec

-----------------------------------------------------------------------------
(***************************************************************************)
(* The clock.                                                              *)
(***************************************************************************)
ClockInv == is_clocked \in {0, 1, Forever} /\ (turn = "devices" => is_clocked # 0)

\* The loop never enters the turn of the devices with its clock at rest.
LEMMA ClockKeeps ==
  ASSUME ClockInv, [SessionNext]_<<vars, sessionVars>>
  PROVE  ClockInv'
<1>1. CASE CpuTurn
  BY <1>1 DEF ClockInv, CpuTurn, Breakpoint
<1>2. CASE DevicesTurn
  BY <1>2 DEF ClockInv, DevicesTurn, Decremented
<1>3. CASE Boot \/ User \/ Client
  <2>1. turn' = "z80" /\ is_clocked' \in {0, Forever, is_clocked}
    BY <1>3 DEF Boot, load_rom, restore_state, User, Client, onDebugStart, onDebugReset,
       onFileSaveState, onFileLoadState, z80dbg_set_breakpoint, z80dbg_clear_breakpoints, Idle
  <2> QED
    BY <2>1 DEF ClockInv
<1>4. CASE UNCHANGED <<vars, sessionVars>>
  BY <1>4 DEF ClockInv, sessionVars
<1> QED
  BY <1>1, <1>2, <1>3, <1>4 DEF SessionNext

\* A breakpoint stops the clock in the half-clock that hits it: the decrement of
\* smsui.cxx:283 leaves 0, and does not wrap to 2^64 - 1.
THEOREM BreaksStop == SessionSpec => BreakStops
<1>1. SessionInit => ClockInv
  BY DEF SessionInit, ClockInv
<1>2. ASSUME ClockInv, SessionNext
      PROVE  turn = "devices" /\ told # Unwatched /\ told # {} /\ is_clocked # Forever
               => is_clocked' = 0
  <2>1. SUFFICES ASSUME turn = "devices", is_clocked # Forever
                 PROVE  is_clocked' = 0
    OBVIOUS
  <2>2. DevicesTurn
    BY <1>2, <2>1 DEF SessionNext, CpuTurn, Boot, load_rom, restore_state, User, Client,
       onDebugStart, onDebugReset, onFileSaveState, onFileLoadState,
       z80dbg_set_breakpoint, z80dbg_clear_breakpoints, Idle
  <2> QED
    BY <1>2, <2>1, <2>2 DEF ClockInv, DevicesTurn, Decremented
<1>3. ClockInv /\ [SessionNext]_<<vars, sessionVars>>
        => [turn = "devices" /\ told # Unwatched /\ told # {} /\ is_clocked # Forever
              => is_clocked' = 0]_<<vars, sessionVars>>
  BY <1>2
<1> QED
  BY <1>1, <1>3, ClockKeeps, PTL DEF SessionSpec, BreakStops

=============================================================================
