---------------------------- MODULE LabelsProofs ----------------------------
(***************************************************************************)
(* What the text functions of labels.go compute, for every text: matchGlob  *)
(* is the meaning of a glob, the targets parseEgressTargets takes are hosts *)
(* and ports, and the address of one target is read back as that target.    *)
(*                                                                          *)
(* Each of the functions goes through its text with a recursive function.   *)
(* The first part shows that such a function exists (Recursion) and what    *)
(* holds along it (UpTo); the `Computes' lemmas give each function its      *)
(* equations, and everything else follows from those.                       *)
(***************************************************************************)
EXTENDS Labels, WellFoundedInduction, SequenceTheorems, TLAPS

-----------------------------------------------------------------------------
(* Induction and recursion over an interval of numbers, stated with sets and *)
(* functions in place of operators                                           *)

\* A set of numbers has a least one.
LEMMA LeastNat ==
    ASSUME NEW T \in SUBSET Nat, T # {}
    PROVE  \E x \in T : \A y \in T : x <= y
<1> DEFINE Less == {ss \in Nat \X Nat : ss[1] < ss[2]}
<1>1. IsWellFoundedOn(Less, Nat)
  BY NatLessThanWellFounded DEF OpToRel
<1>2. PICK x \in T : \A y \in T : ~ (<<y, x>> \in Less)
  <2> HIDE DEF Less
  <2> QED
    BY <1>1, WFMin
<1>3. ASSUME NEW y \in T PROVE x <= y
  <2>1. <<y, x>> \in Nat \X Nat
    OBVIOUS
  <2>2. <<y, x>> \notin Less
    BY <1>2
  <2>3. ~ (y < x)
    BY <2>1, <2>2
  <2> QED
    BY <2>3
<1> QED
  BY <1>3

\* Induction from 0 up to n.
LEMMA UpTo ==
    ASSUME NEW n \in Nat, NEW S, 0 \in S, \A i \in 0 .. n - 1 : i \in S => i + 1 \in S
    PROVE  0 .. n \subseteq S
<1> DEFINE T == (0 .. n) \ S
<1>1. SUFFICES ASSUME T # {} PROVE FALSE
  OBVIOUS
<1>2. PICK x \in T : \A y \in T : x <= y
  <2>1. T \in SUBSET Nat
    OBVIOUS
  <2> HIDE DEF T
  <2> QED
    BY <1>1, <2>1, LeastNat
<1>3. x # 0 /\ x - 1 \in 0 .. n - 1 /\ x - 1 \notin T
  BY <1>2
<1> QED
  BY <1>2, <1>3

\* A function is defined by its value at 0 and by what each of the others is
\* in terms of an earlier one.
Earlier(pre, n)         == pre \in [1 .. n -> 0 .. n] /\ \A i \in 1 .. n : pre[i] < i
Solves(f, n, c, pre, F) == f[0] = c /\ \A i \in 1 .. n : f[i] = F[i][f[pre[i]]]

\* Such a function exists.
LEMMA Recursion ==
    ASSUME NEW V, NEW n \in Nat, NEW c \in V, NEW pre, Earlier(pre, n), NEW F \in [1 .. n -> [V -> V]]
    PROVE  \E f \in [0 .. n -> V] : Solves(f, n, c, pre, F)
<1> USE DEF Earlier
<1> DEFINE Sol(k, f) == Solves(f, k, c, pre, F)
           S == {k \in 0 .. n : \E f \in [0 .. k -> V] : Sol(k, f)}
<1>1. 0 \in S
  <2>1. [i \in 0 .. 0 |-> c] \in [0 .. 0 -> V] /\ Sol(0, [i \in 0 .. 0 |-> c])
    BY DEF Solves
  <2>2. \E f \in [0 .. 0 -> V] : Sol(0, f)
    <3> HIDE DEF Sol
    <3> QED
      BY <2>1
  <2> QED
    BY <2>2
<1>2. ASSUME NEW k \in 0 .. n - 1, k \in S PROVE k + 1 \in S
  <2>1. PICK f \in [0 .. k -> V] : Sol(k, f)
    BY <1>2
  <2>2. k + 1 \in 1 .. n /\ pre[k + 1] \in 0 .. k /\ f[pre[k + 1]] \in V
    OBVIOUS
  <2> DEFINE v == F[k + 1][f[pre[k + 1]]]
             g == [i \in 0 .. k + 1 |-> IF i = k + 1 THEN v ELSE f[i]]
  <2>3. v \in V
    BY <2>2
  <2>4. g \in [0 .. k + 1 -> V]
    BY <2>3
  <2>5. Sol(k + 1, g)
    <3>1. g[0] = c
      BY <2>1 DEF Solves
    <3>2. ASSUME NEW i \in 1 .. k + 1 PROVE g[i] = F[i][g[pre[i]]]
      <4>1. pre[i] \in 0 .. k /\ g[pre[i]] = f[pre[i]]
        OBVIOUS
      <4>2. i # k + 1 => f[i] = F[i][f[pre[i]]]
        BY <2>1 DEF Solves
      <4> QED
        BY <4>1, <4>2
    <3> QED
      BY <3>1, <3>2 DEF Solves
  <2>6. \E h \in [0 .. k + 1 -> V] : Sol(k + 1, h)
    <3> HIDE DEF Sol, g
    <3> QED
      BY <2>4, <2>5
  <2>7. k + 1 \in 0 .. n
    OBVIOUS
  <2> HIDE DEF Sol
  <2> QED
    BY <2>6, <2>7
<1> HIDE DEF S
<1>3. n \in S
  <2>1. \A k \in 0 .. n - 1 : k \in S => k + 1 \in S
    BY <1>2
  <2>2. 0 .. n \subseteq S
    BY <1>1, <2>1, UpTo
  <2> QED
    BY <2>2
<1> QED
  BY <1>3 DEF S
-----------------------------------------------------------------------------
(* Split *)

\* The equation of the function that Split is computed by.
SplitEqs(text, sep, f) ==
    f = [i \in 0 .. Len(text) |-> IF i = 0 THEN <<<<>>>> ELSE AddSymbol(f[i - 1], text[i], sep)]

\* The pieces are never none, and are pieces again.
LEMMA AddSymbolType ==
    ASSUME NEW A, NEW text \in Seq(A), NEW sep, NEW i \in 1 .. Len(text), NEW p \in Seq(Seq(A)), p # <<>>
    PROVE  /\ AddSymbol(p, text[i], sep) \in Seq(Seq(A))
           /\ AddSymbol(p, text[i], sep) # <<>>
<1>1. CASE text[i] = sep
  <2>1. <<>> \in Seq(A)
    OBVIOUS
  <2>2. Append(p, <<>>) \in Seq(Seq(A)) /\ Append(p, <<>>) # <<>>
    BY <2>1
  <2> QED
    BY <1>1, <2>2 DEF AddSymbol
<1>2. CASE text[i] # sep
  <2>1. Len(p) \in 1 .. Len(p) /\ p[Len(p)] \in Seq(A) /\ text[i] \in A
    OBVIOUS
  <2>2. Append(p[Len(p)], text[i]) \in Seq(A)
    BY <2>1
  <2> DEFINE q == [p EXCEPT ![Len(p)] = Append(p[Len(p)], text[i])]
  <2>3. q \in Seq(Seq(A)) /\ Len(q) = Len(p)
    BY <2>1, <2>2
  <2>4. q # <<>>
    BY <2>1, <2>3
  <2> QED
    BY <1>2, <2>3, <2>4 DEF AddSymbol
<1> QED
  BY <1>1, <1>2

\* Split goes through the text symbol by symbol.
SplitSteps(text, sep, f) ==
    /\ f[0] = <<<<>>>>
    /\ \A i \in 1 .. Len(text) : f[i] = AddSymbol(f[i - 1], text[i], sep)
    /\ Split(text, sep) = f[Len(text)]

\* The lists on the way form a function, and are never empty.
LEMMA SplitComputes ==
    ASSUME NEW A, NEW text \in Seq(A), NEW sep
    PROVE  \E f \in [0 .. Len(text) -> Seq(Seq(A)) \ {<<>>}] : SplitSteps(text, sep, f)
<1> DEFINE V == Seq(Seq(A)) \ {<<>>}
           n == Len(text)
           parts == CHOOSE f : SplitEqs(text, sep, f)
<1>1. Split(text, sep) = parts[Len(text)]
  BY DEF Split, SplitEqs
<1>2. n \in Nat /\ <<<<>>>> \in V
  OBVIOUS
<1>3. ASSUME NEW i \in 1 .. n, NEW p \in V PROVE AddSymbol(p, text[i], sep) \in V
  BY AddSymbolType
<1>4. \E f : SplitEqs(text, sep, f)
  <2> DEFINE F == [i \in 1 .. n |-> [p \in V |-> AddSymbol(p, text[i], sep)]]
             pre == [i \in 1 .. n |-> i - 1]
             c == <<<<>>>>
  <2> HIDE DEF n, V
  <2>1. F \in [1 .. n -> [V -> V]]
    BY <1>3
  <2>2. Earlier(pre, n)
    BY <1>2 DEF Earlier
  <2>3. PICK f \in [0 .. n -> V] : Solves(f, n, c, pre, F)
    <3>1. c \in V
      BY <1>2
    <3> HIDE DEF F, pre, c
    <3> QED
      BY <1>2, <2>1, <2>2, <3>1, Recursion
  <2>4. ASSUME NEW i \in 1 .. n PROVE f[i] = AddSymbol(f[i - 1], text[i], sep)
    <3>1. f[i - 1] \in V /\ pre[i] = i - 1
      BY <1>2
    <3> QED
      BY <2>3, <3>1 DEF Solves
  <2>5. SplitEqs(text, sep, f)
    BY <1>2, <2>3, <2>4 DEF Solves, SplitEqs, n
  <2> QED
    BY <2>5
<1>5. SplitEqs(text, sep, parts)
  <2> HIDE DEF n, V
  <2> QED
    BY <1>4
<1> HIDE DEF parts
<1>6. /\ parts[0] = <<<<>>>>
      /\ \A i \in 1 .. n : parts[i] = AddSymbol(parts[i - 1], text[i], sep)
      /\ parts = [i \in 0 .. n |-> parts[i]]
  <2> DEFINE R(i) == IF i = 0 THEN <<<<>>>> ELSE AddSymbol(parts[i - 1], text[i], sep)
  <2>1. parts = [i \in 0 .. n |-> R(i)]
    BY <1>5 DEF SplitEqs
  <2> HIDE DEF n
  <2>2. \A i \in 0 .. n : parts[i] = R(i)
    BY <2>1
  <2>3. parts = [i \in 0 .. n |-> parts[i]]
    <3> HIDE DEF R
    <3> QED
      BY <2>1
  <2>4. 0 \in 0 .. n /\ \A i \in 1 .. n : i \in 0 .. n /\ i # 0
    BY <1>2
  <2> QED
    BY <2>2, <2>3, <2>4
<1>7. parts \in [0 .. n -> V]
  <2> DEFINE S == {i \in 0 .. n : parts[i] \in V}
  <2> HIDE DEF n, V
  <2>1. 0 \in S
    BY <1>2, <1>6
  <2>2. ASSUME NEW i \in 0 .. n - 1, i \in S PROVE i + 1 \in S
    <3>1. parts[i] \in V /\ i + 1 \in 1 .. n /\ (i + 1) - 1 = i
      BY <1>2, <2>2
    <3>2. parts[i + 1] = AddSymbol(parts[i], text[i + 1], sep)
      BY <1>6, <3>1
    <3> QED
      BY <1>2, <1>3, <3>1, <3>2
  <2>3. 0 .. n \subseteq S
    <3> HIDE DEF S
    <3>1. \A i \in 0 .. n - 1 : i \in S => i + 1 \in S
      BY <2>2
    <3> QED
      BY <1>2, <2>1, <3>1, UpTo
  <2> QED
    BY <1>6, <2>3
<1> QED
  BY <1>1, <1>6, <1>7 DEF SplitSteps

\* P are the pieces of the first e symbols of a text: piece k is what is
\* between the separators b[k - 1] and b[k], the ends of the text being two more.
PieceAt(text, sep, q, from, to) ==
    /\ from < to
    /\ Len(q) = to - from - 1
    /\ \A x \in 1 .. Len(q) : q[x] = text[from + x] /\ text[from + x] # sep

Cuts(text, sep, P, b, e) ==
    /\ b \in [0 .. Len(P) -> 0 .. e + 1]
    /\ b[0] = 0 /\ b[Len(P)] = e + 1
    /\ \A k \in 1 .. Len(P) : /\ PieceAt(text, sep, P[k], b[k - 1], b[k])
                              /\ k < Len(P) => text[b[k]] = sep

\* One more symbol keeps it so.
LEMMA AddSymbolCuts ==
    ASSUME NEW A, NEW text \in Seq(A), NEW sep, NEW e \in 0 .. Len(text) - 1,
           NEW P \in Seq(Seq(A)), P # <<>>, NEW b, Cuts(text, sep, P, b, e)
    PROVE  \E d : Cuts(text, sep, AddSymbol(P, text[e + 1], sep), d, e + 1)
<1> DEFINE n == Len(P)
           c == text[e + 1]
           Q == AddSymbol(P, c, sep)
<1>1. n \in Nat /\ n >= 1 /\ e \in Nat
  OBVIOUS
<1>2. /\ b \in [0 .. n -> 0 .. e + 1] /\ b[0] = 0 /\ b[n] = e + 1
      /\ \A k \in 1 .. n : PieceAt(text, sep, P[k], b[k - 1], b[k]) /\ (k < n => text[b[k]] = sep)
  BY DEF Cuts
<1>3. CASE c = sep
  <2> DEFINE d == [k \in 0 .. n + 1 |-> IF k = n + 1 THEN e + 2 ELSE b[k]]
  <2>1. Q = Append(P, <<>>) /\ Len(Q) = n + 1 /\ Q[n + 1] = <<>> /\ \A k \in 1 .. n : Q[k] = P[k]
    BY <1>3 DEF AddSymbol
  <2>2. d \in [0 .. n + 1 -> 0 .. e + 2] /\ d[0] = 0 /\ d[n + 1] = e + 2 /\ d[n] = e + 1
    BY <1>1, <1>2
  <2>3. ASSUME NEW k \in 1 .. n + 1
        PROVE  PieceAt(text, sep, Q[k], d[k - 1], d[k]) /\ (k < n + 1 => text[d[k]] = sep)
    <3>1. CASE k = n + 1
      BY <1>1, <2>1, <2>2, <3>1 DEF PieceAt
    <3>2. CASE k # n + 1
      <4>1. k \in 1 .. n /\ d[k] = b[k] /\ d[k - 1] = b[k - 1] /\ Q[k] = P[k]
        BY <1>1, <2>1, <3>2
      <4>2. k = n => text[d[k]] = sep
        BY <1>3, <2>2
      <4> QED
        BY <1>1, <1>2, <4>1, <4>2
    <3> QED
      BY <3>1, <3>2
  <2> HIDE DEF d, Q
  <2>4. Cuts(text, sep, Q, d, e + 1)
    BY <1>1, <2>1, <2>2, <2>3 DEF Cuts
  <2> QED
    BY <2>4 DEF Q
<1>4. CASE c # sep
  <2> DEFINE d == [b EXCEPT ![n] = e + 2]
             p == P[n]
  <2>0. p \in Seq(A) /\ c \in A
    BY <1>1
  <2>1. Q = [P EXCEPT ![n] = Append(p, c)]
    BY <1>4 DEF AddSymbol
  <2>2. Len(Q) = n /\ Q[n] = Append(p, c) /\ \A k \in 1 .. n : k # n => Q[k] = P[k]
    BY <1>1, <2>1
  <2>3. d \in [0 .. n -> 0 .. e + 2] /\ d[0] = 0 /\ d[n] = e + 2 /\ \A k \in 0 .. n - 1 : d[k] = b[k]
    BY <1>1, <1>2
  <2>4. PieceAt(text, sep, Append(p, c), b[n - 1], e + 2)
    <3>0. n \in 1 .. n /\ n - 1 \in 0 .. n
      BY <1>1
    <3>1. PieceAt(text, sep, p, b[n - 1], e + 1) /\ b[n - 1] \in 0 .. e + 1
      BY <1>2, <3>0, Zenon
    <3>2. Len(Append(p, c)) = Len(p) + 1 /\ Append(p, c)[Len(p) + 1] = c /\ Len(p) \in Nat
          /\ \A x \in 1 .. Len(p) : Append(p, c)[x] = p[x]
      BY <2>0
    <3>3. Len(p) = e - b[n - 1] /\ b[n - 1] + (Len(p) + 1) = e + 1
      BY <1>1, <3>1 DEF PieceAt
    <3>4. ASSUME NEW x \in 1 .. Len(p) + 1
          PROVE  Append(p, c)[x] = text[b[n - 1] + x] /\ text[b[n - 1] + x] # sep
      <4>1. CASE x = Len(p) + 1
        BY <1>4, <3>2, <3>3, <4>1
      <4>2. CASE x # Len(p) + 1
        <5>1. x \in 1 .. Len(p)
          BY <3>2, <4>2
        <5> QED
          BY <3>1, <3>2, <5>1 DEF PieceAt
      <4> QED
        BY <4>1, <4>2
    <3>5. b[n - 1] < e + 2 /\ Len(p) + 1 = (e + 2) - b[n - 1] - 1
      BY <1>1, <3>1, <3>3
    <3> DEFINE q == Append(p, c)
    <3>6. Len(q) = Len(p) + 1 /\ \A x \in 1 .. Len(q) : q[x] = text[b[n - 1] + x] /\ text[b[n - 1] + x] # sep
      BY <3>2, <3>4
    <3> HIDE DEF q
    <3>7. PieceAt(text, sep, q, b[n - 1], e + 2)
      BY <3>5, <3>6 DEF PieceAt
    <3> QED
      BY <3>7 DEF q
  <2>5. ASSUME NEW k \in 1 .. n
        PROVE  PieceAt(text, sep, Q[k], d[k - 1], d[k]) /\ (k < n => text[d[k]] = sep)
    <3>1. CASE k = n
      <4>1. k - 1 \in 0 .. n - 1 /\ ~ (k < n)
        BY <1>1, <3>1
      <4> QED
        BY <2>2, <2>3, <2>4, <3>1, <4>1
    <3>2. CASE k # n
      <4>1. k \in 0 .. n - 1 /\ k - 1 \in 0 .. n - 1
        BY <1>1, <3>2
      <4>2. Q[k] = P[k] /\ d[k] = b[k] /\ d[k - 1] = b[k - 1]
        BY <2>2, <2>3, <3>2, <4>1
      <4> HIDE DEF d, Q, n
      <4> QED
        BY <1>2, <4>2
    <3> QED
      BY <3>1, <3>2
  <2> HIDE DEF d, Q
  <2>6. Cuts(text, sep, Q, d, e + 1)
    BY <1>1, <2>2, <2>3, <2>5 DEF Cuts
  <2> QED
    BY <2>6 DEF Q
<1> QED
  BY <1>3, <1>4

\* Split cuts the text at its separators, all of them and nowhere else.
LEMMA SplitCuts ==
    ASSUME NEW A, NEW text \in Seq(A), NEW sep
    PROVE  /\ Split(text, sep) \in Seq(Seq(A))
           /\ Split(text, sep) # <<>>
           /\ \E b : Cuts(text, sep, Split(text, sep), b, Len(text))
<1> DEFINE n == Len(text)
           V == Seq(Seq(A)) \ {<<>>}
<1>0. PICK f \in [0 .. n -> V] : SplitSteps(text, sep, f)
  BY SplitComputes
<1>1. /\ f[0] = <<<<>>>>
      /\ \A i \in 1 .. n : f[i] = AddSymbol(f[i - 1], text[i], sep)
      /\ Split(text, sep) = f[n]
  BY <1>0 DEF SplitSteps
<1>2. n \in Nat
  OBVIOUS
<1> DEFINE S == {i \in 0 .. n : \E b : Cuts(text, sep, f[i], b, i)}
<1>3. 0 \in S
  <2> DEFINE b == [k \in 0 .. 1 |-> k]
             P == <<<<>>>>
  <2>1. Len(P) = 1 /\ P[1] = <<>> /\ b \in [0 .. 1 -> 0 .. 0 + 1] /\ b[0] = 0 /\ b[1] = 0 + 1
    OBVIOUS
  <2>2. PieceAt(text, sep, <<>>, 0, 1)
    BY DEF PieceAt
  <2> HIDE DEF b, P
  <2>3. ASSUME NEW k \in 1 .. Len(P)
        PROVE  PieceAt(text, sep, P[k], b[k - 1], b[k]) /\ (k < Len(P) => text[b[k]] = sep)
    <3>1. k = 1 /\ k - 1 = 0 /\ ~ (k < Len(P))
      BY <2>1
    <3> QED
      BY <2>1, <2>2, <3>1
  <2>4. Cuts(text, sep, P, b, 0)
    BY <2>1, <2>3 DEF Cuts
  <2>5. f[0] = P
    BY <1>1 DEF P
  <2> QED
    BY <1>2, <2>4, <2>5
<1>4. ASSUME NEW i \in 0 .. n - 1, i \in S PROVE i + 1 \in S
  <2>1. PICK b : Cuts(text, sep, f[i], b, i)
    BY <1>4
  <2>2. i \in 0 .. n /\ i + 1 \in 0 .. n /\ i + 1 \in 1 .. n /\ (i + 1) - 1 = i
    BY <1>2
  <2>3. f[i] \in Seq(Seq(A)) /\ f[i] # <<>>
    BY <2>2
  <2>4. f[i + 1] = AddSymbol(f[i], text[i + 1], sep)
    BY <1>1, <2>2
  <2>5. \E d : Cuts(text, sep, f[i + 1], d, i + 1)
    BY <2>1, <2>3, <2>4, AddSymbolCuts
  <2> QED
    BY <2>2, <2>5
<1> HIDE DEF S
<1>5. n \in S
  <2>1. \A i \in 0 .. n - 1 : i \in S => i + 1 \in S
    BY <1>4
  <2>2. 0 .. n \subseteq S
    BY <1>2, <1>3, <2>1, UpTo
  <2> QED
    BY <1>2, <2>2
<1>6. f[n] \in V
  BY <1>2
<1> QED
  BY <1>1, <1>5, <1>6 DEF S
-----------------------------------------------------------------------------
(* matchGlob *)

\* Text q is what stands in s behind its first o symbols.
Occurs(s, o, q) == o + Len(q) <= Len(s) /\ \A x \in 1 .. Len(q) : s[o + x] = q[x]

\* Which is what SubSeq takes from there.
LEMMA SubSeqOccurs ==
    ASSUME NEW A, NEW s \in Seq(A), NEW q \in Seq(A), NEW o \in Nat, o + Len(q) <= Len(s)
    PROVE  SubSeq(s, o + 1, o + Len(q)) = q <=> Occurs(s, o, q)
<1> DEFINE r == SubSeq(s, o + 1, o + Len(q))
<1>1. Len(q) \in Nat /\ Len(s) \in Nat
  OBVIOUS
<1>2. r \in Seq(A) /\ Len(r) = Len(q) /\ \A x \in 1 .. Len(q) : r[x] = s[o + x]
  BY <1>1, SubSeqProperties
<1>3. r = q <=> \A x \in 1 .. Len(q) : r[x] = q[x]
  <2> HIDE DEF r
  <2>1. ASSUME \A x \in 1 .. Len(q) : r[x] = q[x] PROVE r = q
    BY <1>2, <2>1, SeqEqual
  <2> QED
    BY <2>1
<1> QED
  BY <1>2, <1>3 DEF Occurs

\* EndOf finds the first occurrence, and none only if there is none.
LEMMA EndOfFirst ==
    ASSUME NEW A, NEW s \in Seq(A), NEW q \in Seq(A), NEW from \in Nat
    PROVE  /\ EndOf(s, from, q) \in Nat
           /\ EndOf(s, from, q) <= Len(s) =>
                 \E o \in Nat : from <= o /\ Occurs(s, o, q) /\ EndOf(s, from, q) = o + Len(q)
           /\ \A o \in Nat : from <= o /\ Occurs(s, o, q) => EndOf(s, from, q) <= o + Len(q)
<1> DEFINE found == {i \in from .. Len(s) - Len(q) : SubSeq(s, i + 1, i + Len(q)) = q}
<1>1. Len(q) \in Nat /\ Len(s) \in Nat
  OBVIOUS
<1>2. found \in SUBSET Nat
  OBVIOUS
<1>3. \A o \in Nat : o \in found <=> from <= o /\ Occurs(s, o, q)
  <2> SUFFICES ASSUME NEW o \in Nat PROVE o \in found <=> from <= o /\ Occurs(s, o, q)
    OBVIOUS
  <2>1. CASE o + Len(q) <= Len(s)
    BY <1>1, <2>1, SubSeqOccurs
  <2>2. CASE ~ (o + Len(q) <= Len(s))
    BY <1>1, <2>2 DEF Occurs
  <2> QED
    BY <2>1, <2>2
<1>4. EndOf(s, from, q) = IF found = {} THEN Len(s) + 1 ELSE Min(found) + Len(q)
  BY DEF EndOf
<1> HIDE DEF found
<1>5. CASE found = {}
  BY <1>1, <1>3, <1>4, <1>5
<1>6. CASE found # {}
  <2>1. \E x \in found : \A y \in found : x <= y
    BY <1>2, <1>6, LeastNat
  <2>2. Min(found) \in found /\ \A y \in found : Min(found) <= y
    BY <2>1 DEF Min
  <2>3. Min(found) \in Nat
    BY <1>2, <2>2
  <2> DEFINE m == Min(found)
  <2> HIDE DEF m
  <2>4. m \in Nat /\ m \in found /\ (\A y \in found : m <= y) /\ EndOf(s, from, q) = m + Len(q)
    BY <1>4, <1>6, <2>2, <2>3 DEF m
  <2> QED
    BY <1>1, <1>3, <2>4
<1> QED
  BY <1>5, <1>6

\* end says how much of s the first symbols of the pattern stand for, up to e.
Aligned(p, s, end, e) ==
    /\ end \in [0 .. e -> 0 .. Len(s)]
    /\ end[0] = 0
    /\ \A i \in 1 .. e : IF p[i] = "*" THEN end[i - 1] <= end[i]
                         ELSE end[i] = end[i - 1] + 1 /\ s[end[i]] = p[i]

\* The first e symbols of the pattern can stand for the first v of the text.
Reach(p, s, e, v) == \E end : Aligned(p, s, end, e) /\ end[e] = v

\* GlobMatches is reaching the ends of both.
LEMMA GlobAligned ==
    ASSUME NEW A, NEW p \in Seq(A), NEW s \in Seq(A)
    PROVE  GlobMatches(p, s) <=> Reach(p, s, Len(p), Len(s))
<1>1. DOMAIN p = 1 .. Len(p)
  OBVIOUS
<1> QED
  BY <1>1 DEF GlobMatches, Aligned, Reach

\* A prefix stands at the front of a text,
LEMMA PrefixOccurs ==
    ASSUME NEW A, NEW s \in Seq(A), NEW q \in Seq(A)
    PROVE  IsPrefix(q, s) <=> Occurs(s, 0, q)
<1>1. Len(q) \in Nat /\ Len(s) \in Nat
  OBVIOUS
<1>2. CASE Len(q) <= Len(s)
  <2>1. SubSeq(s, 0 + 1, 0 + Len(q)) = q <=> Occurs(s, 0, q)
    BY <1>1, <1>2, SubSeqOccurs
  <2>2. SubSeq(q, 0 + 1, 0 + Len(q)) = q
    <3>1. Occurs(q, 0, q)
      BY <1>1 DEF Occurs
    <3> QED
      BY <1>1, <3>1, SubSeqOccurs
  <2>3. 0 + 1 = 1 /\ 0 + Len(q) = Len(q)
    BY <1>1
  <2>4. SubSeq(s, 1, Len(q)) = q <=> Occurs(s, 0, q)
    BY <2>1, <2>3
  <2>5. SubSeq(q, 1, Len(q)) = q
    BY <2>2, <2>3
  <2> QED
    BY <1>2, <2>4, <2>5 DEF IsPrefix
<1>3. CASE ~ (Len(q) <= Len(s))
  BY <1>1, <1>3 DEF IsPrefix, Occurs
<1> QED
  BY <1>2, <1>3

\* and a suffix at its back.
LEMMA SuffixOccurs ==
    ASSUME NEW A, NEW s \in Seq(A), NEW q \in Seq(A), Len(q) <= Len(s)
    PROVE  IsSuffix(q, s) <=> Occurs(s, Len(s) - Len(q), q)
<1> DEFINE n == Len(q)
           m == Len(s)
           rq == Reverse(q)
           rs == Reverse(s)
<1>1. n \in Nat /\ m \in Nat /\ n <= m
  OBVIOUS
<1>2. rq \in Seq(A) /\ Len(rq) = n /\ \A x \in 1 .. n : rq[x] = q[(n - x) + 1]
  BY <1>1 DEF Reverse
<1>3. rs \in Seq(A) /\ Len(rs) = m /\ \A x \in 1 .. m : rs[x] = s[(m - x) + 1]
  BY <1>1 DEF Reverse
<1>4. IsSuffix(q, s) <=> IsPrefix(rq, rs)
  BY DEF IsSuffix
<1> HIDE DEF rq, rs
<1>5. IsPrefix(rq, rs) <=> Occurs(rs, 0, rq)
  BY <1>2, <1>3, PrefixOccurs
<1>6. Occurs(rs, 0, rq) <=> \A x \in 1 .. n : s[(m - x) + 1] = q[(n - x) + 1]
  <2>1. \A x \in 1 .. n : x \in 1 .. m /\ 0 + x = x
    BY <1>1
  <2>2. 0 + n <= m
    BY <1>1
  <2> HIDE DEF n, m
  <2>3. Occurs(rs, 0, rq) <=> \A x \in 1 .. n : rs[0 + x] = rq[x]
    BY <1>2, <1>3, <2>2 DEF Occurs
  <2>4. \A x \in 1 .. n : rs[0 + x] = s[(m - x) + 1] /\ rq[x] = q[(n - x) + 1]
    BY <1>2, <1>3, <2>1
  <2> QED
    BY <2>3, <2>4
<1>7. (\A x \in 1 .. n : s[(m - x) + 1] = q[(n - x) + 1]) <=> \A x \in 1 .. n : s[(m - n) + x] = q[x]
  <2> HIDE DEF n, m
  <2>1. ASSUME \A x \in 1 .. n : s[(m - x) + 1] = q[(n - x) + 1], NEW x \in 1 .. n
        PROVE  s[(m - n) + x] = q[x]
    <3>1. (n - x) + 1 \in 1 .. n /\ (m - ((n - x) + 1)) + 1 = (m - n) + x /\ (n - ((n - x) + 1)) + 1 = x
      BY <1>1
    <3>2. s[(m - ((n - x) + 1)) + 1] = q[(n - ((n - x) + 1)) + 1]
      BY <2>1, <3>1, Zenon
    <3> QED
      BY <3>1, <3>2
  <2>2. ASSUME \A x \in 1 .. n : s[(m - n) + x] = q[x], NEW x \in 1 .. n
        PROVE  s[(m - x) + 1] = q[(n - x) + 1]
    <3>1. (n - x) + 1 \in 1 .. n /\ (m - n) + ((n - x) + 1) = (m - x) + 1
      BY <1>1
    <3>2. s[(m - n) + ((n - x) + 1)] = q[(n - x) + 1]
      BY <2>2, <3>1, Zenon
    <3> QED
      BY <3>1, <3>2
  <2> QED
    BY <2>1, <2>2
<1>8. (m - n) + n <= m
  BY <1>1
<1> QED
  BY <1>4, <1>5, <1>6, <1>7, <1>8 DEF Occurs

\* With a star in the pattern, matchGlob takes the pieces off the text one by
\* one: t[k] symbols are gone once piece k + 1 is found.
Takes(s, P, t) ==
    /\ t[0] = Len(P[1])
    /\ \A k \in 1 .. Len(P) - 2 : t[k] = EndOf(s, t[k - 1], P[k + 1])
Ends(s, P, t) == /\ Occurs(s, 0, P[1])
                 /\ t[Len(P) - 2] + Len(P[Len(P)]) <= Len(s)
                 /\ Occurs(s, Len(s) - Len(P[Len(P)]), P[Len(P)])
GlobSteps(p, s, P, t) == Takes(s, P, t) /\ (matchGlob(p, s) <=> Ends(s, P, t))

TakesEqs(s, P, f) ==
    f = [k \in 0 .. Len(P) - 2 |-> IF k = 0 THEN Len(P[1]) ELSE EndOf(s, f[k - 1], P[k + 1])]

\* The places form a function of numbers.
LEMMA GlobComputes ==
    ASSUME NEW A, NEW p \in Seq(A), NEW s \in Seq(A), NEW P \in Seq(Seq(A)),
           Split(p, "*") = P, Len(P) >= 2
    PROVE  \E t \in [0 .. Len(P) - 2 -> Nat] : GlobSteps(p, s, P, t)
<1>0. Len(P) \in Nat /\ Len(P) # 1
  <2>1. Len(P) \in Nat
    BY LenProperties, Zenon
  <2>2. \A k \in Nat : k >= 2 => k # 1
    OBVIOUS
  <2> QED
    BY <2>1, <2>2, Zenon
<1> DEFINE n == Len(P) - 2
           taken == CHOOSE f : TakesEqs(s, P, f)
           last == P[Len(P)]
<1>1. matchGlob(p, s) <=> /\ IsPrefix(P[1], s)
                          /\ taken[Len(P) - 2] + Len(Last(P)) <= Len(s)
                          /\ IsSuffix(Last(P), s)
  BY <1>0 DEF matchGlob, TakesEqs
<1>2. /\ n \in Nat /\ P[1] \in Seq(A) /\ Len(P[1]) \in Nat /\ last \in Seq(A)
      /\ \A k \in 1 .. n : P[k + 1] \in Seq(A)
  OBVIOUS
<1>3. ASSUME NEW k \in 1 .. n, NEW v \in Nat PROVE EndOf(s, v, P[k + 1]) \in Nat
  BY <1>2, EndOfFirst
<1>4. \E f : TakesEqs(s, P, f)
  <2> DEFINE F == [k \in 1 .. n |-> [v \in Nat |-> EndOf(s, v, P[k + 1])]]
             pre == [k \in 1 .. n |-> k - 1]
             c == Len(P[1])
  <2> HIDE DEF n
  <2>1. F \in [1 .. n -> [Nat -> Nat]]
    BY <1>3
  <2>2. Earlier(pre, n)
    BY <1>2 DEF Earlier
  <2>3. PICK f \in [0 .. n -> Nat] : Solves(f, n, c, pre, F)
    <3>1. c \in Nat
      BY <1>2
    <3> HIDE DEF F, pre, c
    <3> QED
      BY <1>2, <2>1, <2>2, <3>1, Recursion
  <2>4. ASSUME NEW k \in 1 .. n PROVE f[k] = EndOf(s, f[k - 1], P[k + 1])
    <3>1. f[k - 1] \in Nat /\ pre[k] = k - 1
      BY <1>2
    <3> QED
      BY <2>3, <3>1 DEF Solves
  <2>5. TakesEqs(s, P, f)
    BY <1>2, <2>3, <2>4 DEF Solves, TakesEqs, n
  <2> QED
    BY <2>5
<1>5. TakesEqs(s, P, taken)
  <2> HIDE DEF n
  <2> QED
    BY <1>4
<1> HIDE DEF taken
<1>6. /\ taken[0] = Len(P[1])
      /\ \A k \in 1 .. n : taken[k] = EndOf(s, taken[k - 1], P[k + 1])
      /\ taken = [k \in 0 .. n |-> taken[k]]
  <2> DEFINE R(k) == IF k = 0 THEN Len(P[1]) ELSE EndOf(s, taken[k - 1], P[k + 1])
  <2>1. taken = [k \in 0 .. n |-> R(k)]
    BY <1>5 DEF TakesEqs
  <2> HIDE DEF n
  <2>2. \A k \in 0 .. n : taken[k] = R(k)
    BY <2>1
  <2>3. taken = [k \in 0 .. n |-> taken[k]]
    <3> HIDE DEF R
    <3> QED
      BY <2>1
  <2>4. 0 \in 0 .. n /\ \A k \in 1 .. n : k \in 0 .. n /\ k # 0
    BY <1>2
  <2> QED
    BY <2>2, <2>3, <2>4
<1>7. taken \in [0 .. n -> Nat]
  <2> DEFINE S == {k \in 0 .. n : taken[k] \in Nat}
  <2> HIDE DEF n
  <2>1. 0 \in S
    BY <1>2, <1>6
  <2>2. ASSUME NEW k \in 0 .. n - 1, k \in S PROVE k + 1 \in S
    <3>1. taken[k] \in Nat /\ k + 1 \in 1 .. n /\ (k + 1) - 1 = k
      BY <1>2, <2>2
    <3>2. taken[k + 1] = EndOf(s, taken[k], P[(k + 1) + 1])
      BY <1>6, <3>1
    <3>3. EndOf(s, taken[k], P[(k + 1) + 1]) \in Nat
      BY <1>3, <3>1
    <3>4. k + 1 \in 0 .. n
      BY <1>2
    <3> QED
      BY <3>2, <3>3, <3>4
  <2>3. 0 .. n \subseteq S
    <3> HIDE DEF S
    <3>1. \A k \in 0 .. n - 1 : k \in S => k + 1 \in S
      BY <2>2
    <3> QED
      BY <1>2, <2>1, <3>1, UpTo
  <2> QED
    BY <1>6, <2>3
<1>8. matchGlob(p, s) <=> Ends(s, P, taken)
  <2>1. Last(P) = last
    BY DEF Last
  <2>2. IsPrefix(P[1], s) <=> Occurs(s, 0, P[1])
    BY <1>2, PrefixOccurs
  <2>3. Len(last) <= Len(s) => (IsSuffix(last, s) <=> Occurs(s, Len(s) - Len(last), last))
    BY <1>2, SuffixOccurs
  <2>4. taken[Len(P) - 2] + Len(last) <= Len(s) => Len(last) <= Len(s)
    <3>1. n \in 0 .. n /\ Len(last) \in Nat /\ Len(s) \in Nat
      BY <1>2
    <3>2. taken[n] \in Nat
      <4> HIDE DEF n
      <4> QED
        BY <1>7, <3>1
    <3> QED
      BY <3>1, <3>2
  <2> QED
    BY <1>1, <2>1, <2>2, <2>3, <2>4 DEF Ends
<1> QED
  BY <1>6, <1>7, <1>8 DEF GlobSteps, Takes

\* The symbols of q are those of the pattern behind its first e, none a star.
Literal(p, q, e) == \A x \in 1 .. Len(q) : p[e + x] = q[x] /\ p[e + x] # "*"

\* An alignment goes on over literal symbols if they stand where it has come to,
LEMMA AlignLiteral ==
    ASSUME NEW A, NEW p \in Seq(A), NEW s \in Seq(A), NEW q \in Seq(A), NEW e \in Nat, NEW v \in Nat,
           Reach(p, s, e, v), Literal(p, q, e), Occurs(s, v, q)
    PROVE  Reach(p, s, e + Len(q), v + Len(q))
<1>0. PICK end : Aligned(p, s, end, e) /\ end[e] = v
  BY DEF Reach
<1> DEFINE n == Len(q)
           m == Len(s)
           d == [i \in 0 .. e + n |-> IF i <= e THEN end[i] ELSE end[e] + (i - e)]
<1>1. n \in Nat /\ m \in Nat
  OBVIOUS
<1>2. /\ end \in [0 .. e -> 0 .. m] /\ end[0] = 0 /\ end[e] \in 0 .. m
      /\ \A i \in 1 .. e : IF p[i] = "*" THEN end[i - 1] <= end[i]
                           ELSE end[i] = end[i - 1] + 1 /\ s[end[i]] = p[i]
  BY <1>0 DEF Aligned
<1>3. end[e] + n <= m /\ \A x \in 1 .. n : s[end[e] + x] = q[x] /\ p[e + x] = q[x] /\ p[e + x] # "*"
  BY <1>0 DEF Occurs, Literal
<1> HIDE DEF n, m
<1>4. d \in [0 .. e + n -> 0 .. m] /\ d[0] = 0
  BY <1>1, <1>2, <1>3
<1>5. ASSUME NEW i \in 1 .. e + n
      PROVE  IF p[i] = "*" THEN d[i - 1] <= d[i] ELSE d[i] = d[i - 1] + 1 /\ s[d[i]] = p[i]
  <2>1. CASE i <= e
    <3>1. i \in 1 .. e /\ d[i] = end[i] /\ d[i - 1] = end[i - 1]
      BY <1>1, <2>1
    <3> HIDE DEF d
    <3> QED
      BY <1>2, <3>1
  <2>2. CASE i > e
    <3> DEFINE x == i - e
    <3>1. x \in 1 .. n /\ e + x = i
      BY <1>1, <2>2
    <3>2. d[i] = end[e] + x /\ d[i - 1] = end[e] + (x - 1)
      BY <1>1, <1>2, <2>2
    <3>3. d[i] = d[i - 1] + 1
      BY <1>2, <3>1, <3>2
    <3>4. s[end[e] + x] = q[x] /\ p[e + x] = q[x] /\ p[e + x] # "*"
      BY <1>3, <3>1
    <3>5. s[d[i]] = p[i] /\ p[i] # "*"
      <4> HIDE DEF d, x
      <4> QED
        BY <3>1, <3>2, <3>4
    <3> HIDE DEF d
    <3> QED
      BY <3>3, <3>5
  <2> QED
    BY <2>1, <2>2
<1>6. d[e + n] = end[e] + n
  <2>1. e + n \in 0 .. e + n /\ (e + n <= e => n = 0) /\ (e + n) - e = n /\ end[e] \in Nat
    BY <1>1, <1>2
  <2>2. d[e + n] = IF e + n <= e THEN end[e + n] ELSE end[e] + ((e + n) - e)
    BY <2>1
  <2>3. CASE n = 0
    BY <2>1, <2>2, <2>3
  <2>4. CASE n # 0
    BY <2>1, <2>2, <2>4
  <2> QED
    BY <2>3, <2>4
<1> HIDE DEF d
<1>7. Aligned(p, s, d, e + n)
  BY <1>4, <1>5 DEF Aligned, m
<1> QED
  BY <1>0, <1>6, <1>7 DEF n, Reach

\* and over a star to any later place.
LEMMA AlignStar ==
    ASSUME NEW A, NEW p \in Seq(A), NEW s \in Seq(A), NEW e \in Nat, NEW v \in Nat,
           Reach(p, s, e, v), p[e + 1] = "*", NEW o \in Nat, v <= o, o <= Len(s)
    PROVE  Reach(p, s, e + 1, o)
<1>0. PICK end : Aligned(p, s, end, e) /\ end[e] = v
  BY DEF Reach
<1> DEFINE m == Len(s)
           d == [i \in 0 .. e + 1 |-> IF i <= e THEN end[i] ELSE o]
<1>1. m \in Nat /\ o <= m
  OBVIOUS
<1>2. /\ end \in [0 .. e -> 0 .. m] /\ end[0] = 0 /\ end[e] \in 0 .. m
      /\ \A i \in 1 .. e : IF p[i] = "*" THEN end[i - 1] <= end[i]
                           ELSE end[i] = end[i - 1] + 1 /\ s[end[i]] = p[i]
  BY <1>0 DEF Aligned
<1> HIDE DEF m
<1>3. d \in [0 .. e + 1 -> 0 .. m] /\ d[0] = 0 /\ d[e + 1] = o
  BY <1>1, <1>2
<1>4. ASSUME NEW i \in 1 .. e + 1
      PROVE  IF p[i] = "*" THEN d[i - 1] <= d[i] ELSE d[i] = d[i - 1] + 1 /\ s[d[i]] = p[i]
  <2>1. CASE i <= e
    <3>1. i \in 1 .. e /\ d[i] = end[i] /\ d[i - 1] = end[i - 1]
      BY <2>1
    <3> HIDE DEF d
    <3> QED
      BY <1>2, <3>1
  <2>2. CASE i > e
    <3>1. i = e + 1 /\ d[i] = o /\ d[i - 1] = end[e]
      BY <2>2
    <3> HIDE DEF d
    <3> QED
      BY <1>0, <3>1
  <2> QED
    BY <2>1, <2>2
<1> HIDE DEF d
<1>5. Aligned(p, s, d, e + 1)
  BY <1>3, <1>4 DEF Aligned, m
<1> QED
  BY <1>3, <1>5 DEF Reach

\* The other way round: over literal symbols an alignment advances one by one,
\* and they stand where it was.
LEMMA AlignedLiteral ==
    ASSUME NEW A, NEW p \in Seq(A), NEW s \in Seq(A), NEW q \in Seq(A), NEW e \in Nat, NEW z \in Nat,
           NEW end, Aligned(p, s, end, z), Literal(p, q, e), e + Len(q) <= z
    PROVE  end[e + Len(q)] = end[e] + Len(q) /\ Occurs(s, end[e], q)
<1> DEFINE n == Len(q)
           m == Len(s)
           S == {x \in 0 .. n : end[e + x] = end[e] + x}
<1>1. n \in Nat /\ m \in Nat /\ e + n <= z
  OBVIOUS
<1>2. /\ end \in [0 .. z -> 0 .. m]
      /\ \A i \in 1 .. z : IF p[i] = "*" THEN end[i - 1] <= end[i]
                           ELSE end[i] = end[i - 1] + 1 /\ s[end[i]] = p[i]
  BY DEF Aligned
<1>3. \A x \in 1 .. n : p[e + x] = q[x] /\ p[e + x] # "*"
  BY DEF Literal
<1> HIDE DEF n, m
<1>4. ASSUME NEW x \in 1 .. n
      PROVE  end[e + x] = end[e + (x - 1)] + 1 /\ s[end[e + x]] = q[x]
  <2>1. e + x \in 1 .. z /\ (e + x) - 1 = e + (x - 1)
    BY <1>1
  <2>2. p[e + x] = q[x] /\ p[e + x] # "*"
    BY <1>3
  <2>3. end[e + x] = end[(e + x) - 1] + 1 /\ s[end[e + x]] = p[e + x]
    BY <1>2, <2>1, <2>2
  <2> QED
    BY <2>1, <2>2, <2>3
<1>5. 0 .. n \subseteq S
  <2>1. 0 \in S
    BY <1>1, <1>2
  <2>2. ASSUME NEW x \in 0 .. n - 1, x \in S PROVE x + 1 \in S
    <3>1. x + 1 \in 1 .. n /\ x + 1 \in 0 .. n /\ (x + 1) - 1 = x /\ end[e + x] = end[e] + x /\ end[e] \in Nat
      BY <1>1, <1>2, <2>2
    <3>2. end[e + (x + 1)] = end[e + ((x + 1) - 1)] + 1
      BY <1>4, <3>1
    <3>3. end[e + (x + 1)] = (end[e] + x) + 1
      BY <3>1, <3>2
    <3>4. (end[e] + x) + 1 = end[e] + (x + 1)
      <4>1. \A a \in Nat : (a + x) + 1 = a + (x + 1)
        BY <1>1
      <4> QED
        BY <3>1, <4>1
    <3> QED
      BY <3>1, <3>3, <3>4
  <2>3. \A x \in 0 .. n - 1 : x \in S => x + 1 \in S
    BY <2>2
  <2> HIDE DEF S
  <2> QED
    BY <1>1, <2>1, <2>3, UpTo
<1>6. n \in 0 .. n /\ e + n \in 0 .. z /\ \A x \in 1 .. n : x \in 0 .. n
  BY <1>1
<1>7. end[e + n] = end[e] + n
  BY <1>5, <1>6
<1>8. end[e] + n <= m
  <2>1. end[e + n] \in 0 .. m
    BY <1>2, <1>6
  <2> QED
    BY <1>1, <1>7, <2>1
<1>9. ASSUME NEW x \in 1 .. n PROVE s[end[e] + x] = q[x]
  <2>1. end[e + x] = end[e] + x
    BY <1>5, <1>6
  <2> QED
    BY <1>4, <2>1
<1> QED
  BY <1>7, <1>8, <1>9 DEF Occurs, n, m

\* Piece k is the literal symbols between two places of the pattern, a star
\* behind it if another piece follows.
IsPiece(A, p, P, b, k) ==
    /\ P[k] \in Seq(A) /\ Len(P[k]) \in Nat
    /\ b[k - 1] \in Nat /\ b[k - 1] + Len(P[k]) = b[k] - 1 /\ b[k] - 1 \in 0 .. Len(p)
    /\ Literal(p, P[k], b[k - 1])
    /\ k < Len(P) => p[b[k]] = "*" /\ b[k] \in 1 .. Len(p)

\* The cuts of a pattern give each piece its place.
LEMMA CutsPieces ==
    ASSUME NEW A, NEW p \in Seq(A), NEW P \in Seq(Seq(A)), NEW b, Cuts(p, "*", P, b, Len(p)),
           NEW k \in 1 .. Len(P)
    PROVE  IsPiece(A, p, P, b, k)
<1> DEFINE n == Len(P)
           q == P[k]
<1>1. n \in Nat /\ Len(p) \in Nat /\ q \in Seq(A) /\ Len(q) \in Nat
  OBVIOUS
<1>2. k \in 0 .. n /\ k - 1 \in 0 .. n /\ k \in Nat
  BY <1>1
<1>3. b \in [0 .. n -> 0 .. Len(p) + 1] /\ PieceAt(p, "*", q, b[k - 1], b[k]) /\ (k < n => p[b[k]] = "*")
  BY DEF Cuts
<1> HIDE DEF n, q
<1>4. b[k] \in 0 .. Len(p) + 1 /\ b[k - 1] \in 0 .. Len(p) + 1
  BY <1>2, <1>3
<1>5. b[k - 1] < b[k] /\ Len(q) = b[k] - b[k - 1] - 1
  BY <1>3 DEF PieceAt
<1>6. b[k - 1] \in Nat /\ b[k - 1] + Len(q) = b[k] - 1 /\ b[k] - 1 \in 0 .. Len(p)
  <2>1. \A z, l \in Nat : \A x, y \in 0 .. z + 1 :
           x < y /\ l = y - x - 1 => x \in Nat /\ x + l = y - 1 /\ y - 1 \in 0 .. z
    OBVIOUS
  <2> QED
    BY <1>1, <1>4, <1>5, <2>1, Zenon
<1>7. Literal(p, q, b[k - 1])
  BY <1>3 DEF PieceAt, Literal
<1>8. ASSUME k < n PROVE b[k] \in 1 .. Len(p)
  <2>1. PieceAt(p, "*", P[k + 1], b[k], b[k + 1]) /\ k + 1 \in 0 .. n
    <3>1. k + 1 \in 1 .. n /\ (k + 1) - 1 = k
      BY <1>1, <1>2, <1>8
    <3>2. PieceAt(p, "*", P[k + 1], b[(k + 1) - 1], b[k + 1])
      BY <3>1 DEF Cuts, n
    <3> QED
      BY <3>1, <3>2
  <2>2. b[k + 1] \in 0 .. Len(p) + 1 /\ b[k] < b[k + 1]
    BY <1>3, <2>1 DEF PieceAt
  <2> QED
    BY <1>1, <1>4, <1>5, <2>2
<1> QED
  BY <1>1, <1>3, <1>6, <1>7, <1>8 DEF n, q, IsPiece

\* The first piece at the front of the text,
LEMMA ReachFirst ==
    ASSUME NEW A, NEW p \in Seq(A), NEW s \in Seq(A), NEW P \in Seq(Seq(A)), P # <<>>,
           NEW b, Cuts(p, "*", P, b, Len(p)), Occurs(s, 0, P[1])
    PROVE  Reach(p, s, b[1] - 1, Len(P[1]))
<1> DEFINE q == P[1]
           end == [i \in 0 .. 0 |-> 0]
<1>1. 1 \in 1 .. Len(P) /\ 1 - 1 = 0 /\ Len(s) \in Nat
  OBVIOUS
<1>2. b[0] = 0
  BY DEF Cuts
<1>3. q \in Seq(A) /\ Len(q) \in Nat /\ b[0] + Len(q) = b[1] - 1 /\ Literal(p, q, b[0])
  <2>1. /\ q \in Seq(A) /\ Len(q) \in Nat
        /\ b[1 - 1] + Len(q) = b[1] - 1 /\ Literal(p, q, b[1 - 1])
    BY <1>1, CutsPieces DEF IsPiece
  <2> QED
    BY <1>1, <2>1
<1>4. Reach(p, s, 0, 0)
  <2>1. end[0] = 0 /\ Aligned(p, s, end, 0)
    BY <1>1 DEF Aligned
  <2> HIDE DEF end
  <2> QED
    BY <2>1 DEF Reach
<1>5. Occurs(s, 0, q) /\ Literal(p, q, 0)
  BY <1>2, <1>3
<1> HIDE DEF q
<1>6. Reach(p, s, 0 + Len(q), 0 + Len(q))
  BY <1>3, <1>4, <1>5, AlignLiteral
<1>7. 0 + Len(q) = b[1] - 1 /\ 0 + Len(q) = Len(q)
  BY <1>2, <1>3
<1> QED
  BY <1>6, <1>7 DEF q

\* and each later piece behind the place that was reached.
LEMMA ReachNext ==
    ASSUME NEW A, NEW p \in Seq(A), NEW s \in Seq(A), NEW P \in Seq(Seq(A)),
           NEW b, Cuts(p, "*", P, b, Len(p)), NEW k \in 1 .. Len(P) - 1,
           NEW v \in Nat, Reach(p, s, b[k] - 1, v),
           NEW o \in Nat, v <= o, Occurs(s, o, P[k + 1])
    PROVE  Reach(p, s, b[k + 1] - 1, o + Len(P[k + 1]))
<1> DEFINE j == k + 1
           q == P[j]
           e == b[k] - 1
<1>1. Len(P) \in Nat /\ Len(s) \in Nat
  OBVIOUS
<1>2. k \in 1 .. Len(P) /\ j \in 1 .. Len(P) /\ j - 1 = k /\ k < Len(P)
  BY <1>1
<1>3. b[k] - 1 \in 0 .. Len(p) /\ p[b[k]] = "*"
  BY <1>2, CutsPieces DEF IsPiece
<1>4. q \in Seq(A) /\ Len(q) \in Nat /\ b[k] \in Nat /\ b[k] + Len(q) = b[j] - 1 /\ Literal(p, q, b[k])
  <2> HIDE DEF j
  <2>1. /\ q \in Seq(A) /\ Len(q) \in Nat
        /\ b[j - 1] \in Nat /\ b[j - 1] + Len(q) = b[j] - 1 /\ Literal(p, q, b[j - 1])
    <3>1. IsPiece(A, p, P, b, j)
      BY <1>2, CutsPieces
    <3> QED
      BY <3>1 DEF IsPiece
  <2> QED
    BY <1>2, <2>1
<1>5. e \in Nat /\ e + 1 = b[k]
  BY <1>3, <1>4
<1>6. Reach(p, s, e, v)
  OBVIOUS
<1> HIDE DEF e
<1>7. o <= Len(s)
  <2>1. o + Len(q) <= Len(s)
    BY DEF Occurs
  <2> HIDE DEF q
  <2> QED
    BY <1>1, <1>4, <2>1
<1>8. Reach(p, s, e + 1, o)
  <2>1. p[e + 1] = "*"
    BY <1>3, <1>5
  <2> QED
    BY <1>5, <1>6, <1>7, <2>1, AlignStar
<1>9. Reach(p, s, b[k], o) /\ Occurs(s, o, q)
  BY <1>5, <1>8
<1> HIDE DEF q, j
<1>10. Reach(p, s, b[k] + Len(q), o + Len(q))
  BY <1>4, <1>9, AlignLiteral
<1> QED
  BY <1>4, <1>10 DEF q, j

\* matchGlob says yes only of a match: the places it finds are an alignment.
LEMMA GlobSound ==
    ASSUME NEW A, NEW p \in Seq(A), NEW s \in Seq(A), NEW P \in Seq(Seq(A)), Len(P) >= 2,
           NEW b, Cuts(p, "*", P, b, Len(p)),
           NEW t \in [0 .. Len(P) - 2 -> Nat], Takes(s, P, t), Ends(s, P, t)
    PROVE  Reach(p, s, Len(p), Len(s))
<1> DEFINE n == Len(P)
           S == {k \in 0 .. n - 2 : t[k] <= Len(s) => Reach(p, s, b[k + 1] - 1, t[k])}
           last == P[n]
<1>1. n \in Nat /\ n >= 2 /\ P # <<>> /\ Len(s) \in Nat /\ Len(p) \in Nat
  <2>1. Len(P) \in Nat /\ Len(s) \in Nat /\ Len(p) \in Nat
    BY LenProperties, Zenon
  <2>2. Len(<<>>) = 0
    OBVIOUS
  <2> HIDE DEF n
  <2>3. \A k \in Nat : k >= 2 => k # 0
    OBVIOUS
  <2> QED
    BY <2>1, <2>2, <2>3, Zenon DEF n
<1>2. /\ t[0] = Len(P[1])
      /\ \A k \in 1 .. n - 2 : t[k] = EndOf(s, t[k - 1], P[k + 1])
  BY DEF Takes
<1>3. Occurs(s, 0, P[1]) /\ t[n - 2] + Len(last) <= Len(s) /\ Occurs(s, Len(s) - Len(last), last)
  BY DEF Ends
<1>4. t \in [0 .. n - 2 -> Nat] /\ Cuts(p, "*", P, b, Len(p))
  OBVIOUS
<1>5. \A k \in 1 .. n : P[k] \in Seq(A) /\ Len(P[k]) \in Nat
  BY <1>1
<1>6. b[n] = Len(p) + 1
  BY DEF Cuts
<1>7. \A k \in 1 .. n - 1 : k \in 1 .. Len(P) - 1
  OBVIOUS
<1> HIDE DEF n
<1>8. 0 \in S
  <2>1. Reach(p, s, b[1] - 1, t[0])
    BY <1>1, <1>2, <1>3, ReachFirst
  <2> QED
    BY <1>1, <2>1
<1>9. ASSUME NEW k \in 0 .. (n - 2) - 1, k \in S PROVE k + 1 \in S
  <2> DEFINE j == k + 1
             q == P[j + 1]
  <2>1. /\ j \in 1 .. n - 2 /\ j \in 0 .. n - 2 /\ k \in 0 .. n - 2 /\ j - 1 = k
        /\ j + 1 \in 1 .. n /\ j \in 1 .. n - 1
    BY <1>1
  <2>2. t[j] = EndOf(s, t[k], q) /\ t[k] \in Nat /\ t[j] \in Nat /\ q \in Seq(A) /\ Len(q) \in Nat
    <3>1. t[j] = EndOf(s, t[j - 1], P[j + 1])
      BY <1>2, <2>1
    <3> QED
      BY <1>4, <1>5, <2>1, <3>1
  <2>3. ASSUME t[j] <= Len(s) PROVE Reach(p, s, b[j + 1] - 1, t[j])
    <3> HIDE DEF j, q
    <3>1. PICK o \in Nat : t[k] <= o /\ Occurs(s, o, q) /\ t[j] = o + Len(q)
      BY <2>2, <2>3, EndOfFirst
    <3>2. t[k] <= Len(s)
      BY <1>1, <2>2, <2>3, <3>1
    <3>3. Reach(p, s, b[j] - 1, t[k])
      BY <1>9, <3>2 DEF j
    <3>4. j \in 1 .. Len(P) - 1 /\ Occurs(s, o, P[j + 1])
      BY <1>7, <2>1, <3>1 DEF q
    <3>5. Reach(p, s, b[j + 1] - 1, o + Len(P[j + 1]))
      BY <1>4, <2>2, <3>1, <3>3, <3>4, ReachNext
    <3> QED
      BY <3>1, <3>5 DEF q
  <2> QED
    BY <2>1, <2>3
<1>10. n - 2 \in S
  <2>1. \A k \in 0 .. (n - 2) - 1 : k \in S => k + 1 \in S
    BY <1>9
  <2>2. n - 2 \in Nat
    BY <1>1
  <2>3. 0 .. n - 2 \subseteq S
    <3> DEFINE m == n - 2
    <3> HIDE DEF S, m
    <3>1. m \in Nat /\ 0 \in S /\ \A k \in 0 .. m - 1 : k \in S => k + 1 \in S
      BY <1>8, <2>1, <2>2 DEF m
    <3>2. 0 .. m \subseteq S
      BY <3>1, UpTo
    <3> QED
      BY <3>2 DEF m
  <2>4. n - 2 \in 0 .. n - 2
    BY <2>2
  <2> QED
    BY <2>3, <2>4
<1>11. /\ n - 1 \in 1 .. n - 1 /\ n \in 1 .. n /\ (n - 1) + 1 = n /\ (n - 2) + 1 = n - 1
       /\ n - 2 \in 0 .. n - 2
  BY <1>1
<1>12. t[n - 2] \in Nat /\ Len(last) \in Nat
  BY <1>4, <1>5, <1>11
<1> DEFINE o == Len(s) - Len(last)
           v == t[n - 2]
           k == n - 1
<1>13. o \in Nat /\ v <= o /\ v <= Len(s) /\ o + Len(last) = Len(s) /\ v \in Nat
  <2> DEFINE l == Len(last)
             m == Len(s)
  <2>1. v \in Nat /\ l \in Nat /\ m \in Nat /\ v + l <= m /\ o = m - l
    BY <1>1, <1>3, <1>12
  <2> HIDE DEF v, l, m, o
  <2>2. o \in Nat /\ v <= o /\ v <= m /\ o + l = m
    BY <2>1
  <2> QED
    BY <2>1, <2>2 DEF l, m
<1>14. Reach(p, s, b[k] - 1, v)
  BY <1>10, <1>11, <1>13
<1>15. Occurs(s, o, P[k + 1]) /\ P[k + 1] = last /\ k \in 1 .. Len(P) - 1 /\ k + 1 = n
  BY <1>3, <1>7, <1>11
<1> HIDE DEF o, v, k, last
<1>16. Reach(p, s, b[k + 1] - 1, o + Len(P[k + 1]))
  BY <1>4, <1>13, <1>14, <1>15, ReachNext
<1>17. b[n] - 1 = Len(p)
  BY <1>1, <1>6
<1> QED
  BY <1>13, <1>15, <1>16, <1>17, Zenon

\* Of an alignment of the whole pattern: piece k stands in the text where the
\* alignment says, and behind the pieces before it.
Stands(s, P, b, end, k) ==
    /\ end[b[k - 1]] \in Nat
    /\ Occurs(s, end[b[k - 1]], P[k])
    /\ end[b[k] - 1] = end[b[k - 1]] + Len(P[k])
    /\ k < Len(P) => end[b[k] - 1] \in Nat /\ end[b[k] - 1] <= end[b[k]]

\* Every piece does.
LEMMA PiecesStand ==
    ASSUME NEW A, NEW p \in Seq(A), NEW s \in Seq(A), NEW P \in Seq(Seq(A)),
           NEW b, Cuts(p, "*", P, b, Len(p)), NEW end, Aligned(p, s, end, Len(p)),
           NEW k \in 1 .. Len(P)
    PROVE  Stands(s, P, b, end, k)
<1> DEFINE q == P[k]
           e == b[k - 1]
           z == Len(p)
<1>1. z \in Nat /\ Len(s) \in Nat
  OBVIOUS
<1>2. IsPiece(A, p, P, b, k)
  BY CutsPieces
<1>3. /\ q \in Seq(A) /\ Len(q) \in Nat /\ e \in Nat /\ e + Len(q) = b[k] - 1 /\ b[k] - 1 \in 0 .. z
      /\ Literal(p, q, e)
      /\ k < Len(P) => p[b[k]] = "*" /\ b[k] \in 1 .. z
  BY <1>2 DEF IsPiece
<1>4. /\ end \in [0 .. z -> 0 .. Len(s)]
      /\ \A i \in 1 .. z : p[i] = "*" => end[i - 1] <= end[i]
  BY DEF Aligned
<1>5. Aligned(p, s, end, z)
  OBVIOUS
<1> HIDE DEF q, e, z
<1>6. e + Len(q) <= z /\ e \in 0 .. z
  BY <1>1, <1>3
<1>7. end[e + Len(q)] = end[e] + Len(q) /\ Occurs(s, end[e], q)
  BY <1>1, <1>3, <1>5, <1>6, AlignedLiteral
<1>8. end[e] \in Nat /\ end[b[k] - 1] \in Nat
  <2>1. end[e] \in 0 .. Len(s) /\ end[b[k] - 1] \in 0 .. Len(s)
    BY <1>3, <1>4, <1>6
  <2> QED
    BY <1>1, <2>1
<1>9. ASSUME k < Len(P) PROVE end[b[k] - 1] <= end[b[k]]
  BY <1>3, <1>4, <1>9
<1> QED
  BY <1>3, <1>7, <1>8, <1>9 DEF Stands, q, e

\* matchGlob says no only of what does not match: each piece is found no later
\* than an alignment has it.
LEMMA GlobComplete ==
    ASSUME NEW A, NEW p \in Seq(A), NEW s \in Seq(A), NEW P \in Seq(Seq(A)), Len(P) >= 2,
           NEW b, Cuts(p, "*", P, b, Len(p)),
           NEW t \in [0 .. Len(P) - 2 -> Nat], Takes(s, P, t), Reach(p, s, Len(p), Len(s))
    PROVE  Ends(s, P, t)
<1> DEFINE n == Len(P)
           m == Len(s)
<1>1. PICK end : Aligned(p, s, end, Len(p)) /\ end[Len(p)] = m
  BY DEF Reach
<1>2. n \in Nat /\ n >= 2 /\ m \in Nat /\ Len(p) \in Nat
  BY LenProperties, Zenon
<1>3. /\ t[0] = Len(P[1])
      /\ \A k \in 1 .. n - 2 : t[k] = EndOf(s, t[k - 1], P[k + 1])
  BY DEF Takes
<1>4. t \in [0 .. n - 2 -> Nat]
  OBVIOUS
<1>5. \A k \in 1 .. n : P[k] \in Seq(A) /\ Len(P[k]) \in Nat
  BY <1>2
<1>6. b[0] = 0 /\ b[n] = Len(p) + 1 /\ end[0] = 0
  BY <1>1 DEF Cuts, Aligned
<1>7. \A k \in 1 .. n : Stands(s, P, b, end, k)
  BY <1>1, PiecesStand
<1>8. \A k \in 1 .. n : /\ end[b[k - 1]] \in Nat
                        /\ Occurs(s, end[b[k - 1]], P[k])
                        /\ end[b[k] - 1] = end[b[k - 1]] + Len(P[k])
                        /\ k < n => end[b[k] - 1] \in Nat /\ end[b[k] - 1] <= end[b[k]]
  BY <1>7 DEF Stands
<1> HIDE DEF n, m
<1> DEFINE at(k) == end[b[k + 1] - 1]
           S == {k \in 0 .. n - 2 : t[k] <= at(k)}
<1>9. Occurs(s, 0, P[1]) /\ 0 \in S
  <2>1. 1 \in 1 .. n /\ 1 - 1 = 0 /\ 0 + 1 = 1 /\ 0 \in 0 .. n - 2
    BY <1>2
  <2>2. Occurs(s, end[b[1 - 1]], P[1]) /\ end[b[1] - 1] = end[b[1 - 1]] + Len(P[1])
    BY <1>8, <2>1
  <2>3. end[b[1 - 1]] = 0
    BY <1>6, <2>1
  <2>4. Occurs(s, 0, P[1]) /\ end[b[1] - 1] = 0 + Len(P[1])
    BY <2>2, <2>3
  <2>5. Len(P[1]) \in Nat
    BY <1>5, <2>1
  <2>6. at(0) = Len(P[1])
    BY <2>4, <2>5, <2>1
  <2> QED
    BY <1>3, <2>1, <2>4, <2>5, <2>6
<1>10. ASSUME NEW k \in 0 .. n - 2, k \in S, NEW j \in 2 .. n, j = k + 2
       PROVE  /\ t[k] <= end[b[j - 1]] /\ end[b[j - 1]] \in Nat /\ t[k] \in Nat
              /\ Occurs(s, end[b[j - 1]], P[j])
              /\ end[b[j] - 1] = end[b[j - 1]] + Len(P[j])
  <2> DEFINE i == j - 1
  <2>1. i \in 1 .. n /\ j \in 1 .. n /\ i < n /\ i = k + 1
    BY <1>2, <1>10
  <2>2. t[k] \in Nat /\ t[k] <= end[b[i] - 1]
    BY <1>4, <1>10, <2>1
  <2>3. end[b[i] - 1] \in Nat /\ end[b[i] - 1] <= end[b[i]]
    BY <1>8, <2>1
  <2>4. /\ end[b[i]] \in Nat
        /\ Occurs(s, end[b[i]], P[j])
        /\ end[b[j] - 1] = end[b[i]] + Len(P[j])
    BY <1>8, <2>1
  <2> HIDE DEF i
  <2>5. t[k] <= end[b[i]]
    <3>1. \A x, y, z \in Nat : x <= y /\ y <= z => x <= z
      OBVIOUS
    <3> QED
      BY <2>2, <2>3, <2>4, <3>1, Zenon
  <2> QED
    BY <2>2, <2>4, <2>5 DEF i
<1>11. ASSUME NEW k \in 0 .. (n - 2) - 1, k \in S PROVE k + 1 \in S
  <2> DEFINE j == k + 2
             o == end[b[j - 1]]
  <2>1. k \in 0 .. n - 2 /\ j \in 2 .. n /\ j \in 1 .. n /\ k + 1 \in 1 .. n - 2 /\ k + 1 \in 0 .. n - 2
        /\ (k + 1) + 1 = j /\ (k + 1) - 1 = k
    BY <1>2
  <2>2. t[k] <= o /\ o \in Nat /\ t[k] \in Nat /\ Occurs(s, o, P[j]) /\ end[b[j] - 1] = o + Len(P[j])
    BY <1>10, <1>11, <2>1
  <2>3. t[k + 1] = EndOf(s, t[k], P[j])
    <3>1. t[k + 1] = EndOf(s, t[(k + 1) - 1], P[(k + 1) + 1])
      BY <1>3, <2>1
    <3> QED
      BY <2>1, <3>1
  <2>4. P[j] \in Seq(A)
    BY <1>5, <2>1
  <2> HIDE DEF j, o
  <2>5. EndOf(s, t[k], P[j]) <= o + Len(P[j])
    BY <2>2, <2>4, EndOfFirst
  <2> QED
    BY <2>1, <2>2, <2>3, <2>5
<1>12. 0 .. n - 2 \subseteq S
  <2> DEFINE x == n - 2
  <2>1. x \in Nat /\ \A k \in 0 .. x - 1 : k \in S => k + 1 \in S
    BY <1>2, <1>11
  <2>2. 0 \in S
    BY <1>9
  <2> HIDE DEF S, x
  <2>3. 0 .. x \subseteq S
    BY <2>1, <2>2, UpTo
  <2> QED
    BY <2>3 DEF x
<1> DEFINE k == n - 2
           o == end[b[n - 1]]
           l == Len(P[n])
<1>13. k \in 0 .. n - 2 /\ n \in 2 .. n /\ n \in 1 .. n /\ n = k + 2
  BY <1>2
<1>14. t[k] <= o /\ o \in Nat /\ t[k] \in Nat /\ Occurs(s, o, P[n]) /\ end[b[n] - 1] = o + l
  BY <1>10, <1>12, <1>13
<1>15. end[b[n] - 1] = m /\ l \in Nat
  <2>1. b[n] - 1 = Len(p)
    BY <1>2, <1>6
  <2> QED
    BY <1>1, <1>5, <1>13, <2>1
<1>16. t[k] + l <= m /\ o = m - l
  <2> HIDE DEF k, o, l
  <2> QED
    BY <1>2, <1>14, <1>15
<1> QED
  BY <1>9, <1>14, <1>16 DEF Ends, n, m

\* matchGlob decides what a glob means: for every pattern and every tag it says
\* yes exactly if the pattern matches the tag.  (labels.go: matchGlob)
THEOREM MatchGlobCorrect ==
    ASSUME NEW A, NEW pattern \in Seq(A), NEW s \in Seq(A)
    PROVE  matchGlob(pattern, s) <=> GlobMatches(pattern, s)
<1> DEFINE P == Split(pattern, "*")
           n == Len(pattern)
<1>1. P \in Seq(Seq(A)) /\ P # <<>>
  BY SplitCuts
<1>2. PICK b : Cuts(pattern, "*", P, b, n)
  BY SplitCuts
<1>3. GlobMatches(pattern, s) <=> Reach(pattern, s, n, Len(s))
  BY GlobAligned
<1>4. Len(P) \in Nat /\ (Len(P) = 1 \/ Len(P) >= 2)
  <2> HIDE DEF P
  <2>1. Len(P) \in Nat /\ Len(P) # 0
    BY <1>1
  <2> DEFINE l == Len(P)
  <2> HIDE DEF l
  <2>2. l \in Nat /\ l # 0
    BY <2>1 DEF l
  <2>3. l = 1 \/ l >= 2
    BY <2>2
  <2> QED
    BY <2>1, <2>3 DEF l
<1>5. CASE Len(P) >= 2
  <2> DEFINE Q == P
  <2>1. Q \in Seq(Seq(A)) /\ Split(pattern, "*") = Q /\ Len(Q) >= 2 /\ Cuts(pattern, "*", Q, b, Len(pattern))
    BY <1>1, <1>2, <1>5
  <2> HIDE DEF P, Q, n
  <2>2. PICK t \in [0 .. Len(Q) - 2 -> Nat] : GlobSteps(pattern, s, Q, t)
    BY <2>1, GlobComputes
  <2>3. Takes(s, Q, t) /\ (matchGlob(pattern, s) <=> Ends(s, Q, t))
    BY <2>2 DEF GlobSteps
  <2>4. Ends(s, Q, t) => Reach(pattern, s, Len(pattern), Len(s))
    BY <2>1, <2>3, GlobSound
  <2>5. Reach(pattern, s, Len(pattern), Len(s)) => Ends(s, Q, t)
    BY <2>1, <2>3, GlobComplete
  <2> QED
    BY <1>3, <2>3, <2>4, <2>5 DEF n
<1>6. CASE Len(P) = 1
  <2> DEFINE q == P[1]
  <2>1. matchGlob(pattern, s) <=> pattern = s
    BY <1>6 DEF matchGlob
  <2> HIDE DEF P
  <2>2. n \in Nat /\ 1 \in 1 .. Len(P) /\ b[1] = n + 1 /\ b[0] = 0 /\ b[1 - 1] = 0
    BY <1>2, <1>6 DEF Cuts
  <2>3. IsPiece(A, pattern, P, b, 1)
    BY <1>1, <1>2, <2>2, CutsPieces
  <2>4. q \in Seq(A) /\ Len(q) = n /\ Literal(pattern, q, 0)
    <3>1. q \in Seq(A) /\ Len(q) \in Nat /\ 0 + Len(q) = b[1] - 1 /\ Literal(pattern, q, 0)
      BY <2>2, <2>3 DEF IsPiece
    <3> QED
      BY <2>2, <3>1
  <2>5. q = pattern
    <3>1. \A x \in 1 .. n : pattern[0 + x] = q[x]
      BY <2>4 DEF Literal
    <3>2. \A x \in 1 .. n : q[x] = pattern[x]
      <4>1. \A x \in 1 .. n : 0 + x = x
        BY <2>2
      <4> QED
        BY <3>1, <4>1
    <3> HIDE DEF q
    <3> QED
      BY <2>4, <3>2, SeqEqual
  <2>6. ASSUME pattern = s PROVE Reach(pattern, s, n, Len(s))
    <3>1. Occurs(s, 0, P[1])
      <4>1. Len(s) \in Nat /\ P[1] = s
        BY <2>5, <2>6
      <4> QED
        BY <4>1 DEF Occurs
    <3>2. Reach(pattern, s, b[1] - 1, Len(P[1]))
      BY <1>1, <1>2, <3>1, ReachFirst
    <3>3. b[1] - 1 = n /\ Len(P[1]) = Len(s)
      BY <2>2, <2>5, <2>6
    <3> QED
      BY <3>2, <3>3
  <2>7. ASSUME Reach(pattern, s, n, Len(s)) PROVE pattern = s
    <3>1. PICK end : Aligned(pattern, s, end, n) /\ end[n] = Len(s)
      BY <2>7 DEF Reach
    <3>2. end[0] = 0
      BY <3>1 DEF Aligned
    <3>3. 0 + Len(q) <= n /\ 0 + Len(q) = n
      BY <2>2, <2>4
    <3> HIDE DEF q
    <3>4. end[0 + Len(q)] = end[0] + Len(q) /\ Occurs(s, end[0], q)
      BY <2>2, <2>4, <3>1, <3>3, AlignedLiteral
    <3>5. Len(s) = n /\ Occurs(s, 0, q)
      BY <2>2, <2>4, <3>1, <3>2, <3>3, <3>4
    <3>6. \A x \in 1 .. n : s[x] = q[x]
      <4>1. \A x \in 1 .. n : 0 + x = x
        BY <2>2
      <4>2. \A x \in 1 .. n : s[0 + x] = q[x]
        BY <2>4, <3>5 DEF Occurs
      <4> QED
        BY <4>1, <4>2
    <3>7. s = q
      BY <2>4, <3>5, <3>6, SeqEqual
    <3> QED
      BY <2>5, <3>7
  <2> QED
    BY <1>3, <2>1, <2>6, <2>7
<1> QED
  BY <1>4, <1>5, <1>6
-----------------------------------------------------------------------------
(* Trim *)

\* A set of places of a text has a last one.
LEMMA GreatestPlace ==
    ASSUME NEW n \in Nat, NEW T \in SUBSET (1 .. n), T # {}
    PROVE  \E x \in T : \A y \in T : y <= x
<1> DEFINE U == {n - i : i \in T}
<1>1. U \in SUBSET Nat /\ U # {}
  <2>1. ASSUME NEW i \in T PROVE n - i \in Nat
    OBVIOUS
  <2>2. PICK i \in T : TRUE
    OBVIOUS
  <2>3. n - i \in U
    BY <2>2
  <2> QED
    BY <2>1, <2>3
<1>2. PICK u \in U : \A v \in U : u <= v
  <2> HIDE DEF U
  <2> QED
    BY <1>1, LeastNat
<1>3. PICK x \in T : u = n - x
  BY <1>2
<1>4. ASSUME NEW y \in T PROVE y <= x
  <2>1. u <= n - y
    BY <1>2
  <2> QED
    BY <1>3, <2>1
<1> QED
  BY <1>4

\* The places of a trimmed text in the text, and its ends, which are not blank.
TrimAt(text, o) == LET r == Trim(text) IN
    /\ o + Len(r) <= Len(text)
    /\ \A x \in 1 .. Len(r) : r[x] = text[o + x]
    /\ r # <<>> => r[1] # Blank /\ r[Len(r)] # Blank

\* Trim takes a run of the text that begins and ends with a symbol.
LEMMA TrimRun ==
    ASSUME NEW A, NEW text \in Seq(A)
    PROVE  Trim(text) \in Seq(A) /\ \E o \in Nat : TrimAt(text, o)
<1> DEFINE n == Len(text)
           solid == {i \in DOMAIN text : text[i] # Blank}
<1>1. Trim(text) = IF solid = {} THEN <<>> ELSE SubSeq(text, Min(solid), Max(solid))
  BY DEF Trim
<1>2. n \in Nat /\ solid \in SUBSET (1 .. n) /\ solid \in SUBSET Nat /\ \A i \in solid : text[i] # Blank
  <2>1. n \in Nat /\ DOMAIN text = 1 .. n
    OBVIOUS
  <2> HIDE DEF n
  <2> QED
    BY <2>1
<1> HIDE DEF solid
<1>3. CASE solid = {}
  <2>1. Trim(text) = <<>> /\ <<>> \in Seq(A) /\ Len(<<>>) = 0
    BY <1>1, <1>3
  <2>2. TrimAt(text, 0)
    BY <1>2, <2>1 DEF TrimAt
  <2> QED
    BY <2>1, <2>2
<1>4. CASE solid # {}
  <2> HIDE DEF n
  <2>1. \E x \in solid : \A y \in solid : x <= y
    BY <1>2, <1>4, LeastNat
  <2>2. \E x \in solid : \A y \in solid : y <= x
    BY <1>2, <1>4, GreatestPlace
  <2>3. Min(solid) \in solid /\ \A y \in solid : Min(solid) <= y
    BY <2>1 DEF Min
  <2>4. Max(solid) \in solid /\ \A y \in solid : Max(solid) >= y
    <3>1. \E x \in solid : \A y \in solid : x >= y
      BY <1>2, <2>2
    <3> QED
      BY <3>1 DEF Max
  <2> DEFINE a == Min(solid)
             z == Max(solid)
             r == SubSeq(text, a, z)
             o == a - 1
  <2>5. a \in 1 .. n /\ z \in 1 .. n /\ text[a] # Blank /\ text[z] # Blank /\ Trim(text) = r
    BY <1>1, <1>2, <1>4, <2>3, <2>4
  <2>6. a <= z
    BY <1>2, <2>3, <2>4
  <2> HIDE DEF a, z
  <2>7. \A i \in a .. z : i \in 1 .. n
    BY <1>2, <2>5
  <2>8. \A i \in a .. z : text[i] \in A
    BY <2>7 DEF n
  <2>9. /\ r \in Seq(A) /\ Len(r) = (z - a) + 1
        /\ \A x \in 1 .. (z - a) + 1 : r[x] = text[(a + x) - 1]
    <3>1. a \in Int /\ z \in Int
      BY <1>2, <2>5
    <3> HIDE DEF n
    <3> QED
      BY <2>6, <2>8, <3>1, SubSeqProperties
  <2> HIDE DEF r
  <2>10. o \in Nat /\ o + Len(r) <= n /\ Len(r) \in Nat /\ Len(r) >= 1
    BY <1>2, <2>5, <2>6, <2>9
  <2>11. ASSUME NEW x \in 1 .. Len(r) PROVE r[x] = text[o + x]
    <3>1. (a + x) - 1 = o + x
      BY <1>2, <2>5, <2>9
    <3> QED
      BY <2>9, <3>1
  <2>12. r[1] # Blank /\ r[Len(r)] # Blank
    <3>1. 1 \in 1 .. Len(r) /\ Len(r) \in 1 .. Len(r) /\ o + 1 = a /\ o + Len(r) = z
      BY <1>2, <2>5, <2>6, <2>9
    <3>2. r[1] = text[o + 1] /\ r[Len(r)] = text[o + Len(r)]
      BY <2>11, <3>1
    <3> HIDE DEF o
    <3> QED
      BY <2>5, <3>1, <3>2
  <2> HIDE DEF o
  <2>13. TrimAt(text, o)
    BY <2>5, <2>10, <2>11, <2>12 DEF TrimAt, n
  <2> QED
    BY <2>5, <2>9, <2>10, <2>13
<1> QED
  BY <1>3, <1>4

\* A text without blank ends is left as it is.
LEMMA TrimSolid ==
    ASSUME NEW A, NEW text \in Seq(A), text # <<>>, text[1] # Blank, text[Len(text)] # Blank
    PROVE  Trim(text) = text
<1> DEFINE n == Len(text)
           solid == {i \in DOMAIN text : text[i] # Blank}
           a == Min(solid)
           z == Max(solid)
<1>1. n \in Nat /\ n >= 1 /\ DOMAIN text = 1 .. n
  OBVIOUS
<1>2. Trim(text) = IF solid = {} THEN <<>> ELSE SubSeq(text, Min(solid), Max(solid))
  BY DEF Trim
<1>3. 1 \in solid /\ n \in solid /\ solid \subseteq 1 .. n
  <2>1. 1 \in 1 .. n /\ n \in 1 .. n /\ text[n] # Blank
    BY <1>1
  <2> HIDE DEF n
  <2> QED
    BY <1>1, <2>1
<1> HIDE DEF solid, n
<1>4. a = 1
  <2>1. 1 \in solid /\ \A y \in solid : 1 <= y
    BY <1>1, <1>3
  <2>2. a \in solid /\ \A y \in solid : a <= y
    BY <2>1 DEF Min
  <2> HIDE DEF a
  <2>3. a \in Nat /\ a <= 1 /\ 1 <= a
    BY <1>1, <1>3, <2>1, <2>2
  <2> QED
    BY <2>3
<1>5. z = n
  <2>1. n \in solid /\ \A y \in solid : n >= y
    BY <1>1, <1>3
  <2>2. z \in solid /\ \A y \in solid : z >= y
    BY <2>1 DEF Max
  <2> HIDE DEF z
  <2>3. z \in Nat /\ z <= n /\ n <= z
    BY <1>1, <1>3, <2>1, <2>2
  <2> QED
    BY <1>1, <2>3
<1>6. Trim(text) = SubSeq(text, 1, n)
  BY <1>2, <1>3, <1>4, <1>5
<1>7. SubSeq(text, 0 + 1, 0 + Len(text)) = text
  <2>1. Occurs(text, 0, text) /\ 0 + Len(text) <= Len(text)
    BY <1>1 DEF Occurs, n
  <2> QED
    BY <2>1, SubSeqOccurs
<1>8. 0 + 1 = 1 /\ 0 + Len(text) = n
  BY <1>1 DEF n
<1> QED
  BY <1>6, <1>7, <1>8
-----------------------------------------------------------------------------
(* Lists of targets *)

\* No piece has a separator in it.
LEMMA SplitPieces ==
    ASSUME NEW A, NEW text \in Seq(A), NEW sep, NEW P \in Seq(Seq(A)), Split(text, sep) = P
    PROVE  \A k \in 1 .. Len(P) : \A x \in 1 .. Len(P[k]) : P[k][x] # sep
<1>1. PICK b : Cuts(text, sep, P, b, Len(text))
  BY SplitCuts
<1> SUFFICES ASSUME NEW k \in 1 .. Len(P) PROVE \A x \in 1 .. Len(P[k]) : P[k][x] # sep
  OBVIOUS
<1>2. PieceAt(text, sep, P[k], b[k - 1], b[k])
  BY <1>1 DEF Cuts
<1> QED
  BY <1>2 DEF PieceAt

\* A text without separators is the only piece.
LEMMA SplitWhole ==
    ASSUME NEW A, NEW text \in Seq(A), NEW sep, \A x \in 1 .. Len(text) : text[x] # sep
    PROVE  Split(text, sep) = <<text>>
<1> DEFINE P == Split(text, sep)
           n == Len(text)
           l == Len(P)
<1>1. P \in Seq(Seq(A)) /\ P # <<>>
  BY SplitCuts
<1>2. PICK b : Cuts(text, sep, P, b, n)
  BY SplitCuts
<1> HIDE DEF P
<1>3. n \in Nat /\ l \in Nat /\ l # 0
  BY <1>1
<1>4. /\ b \in [0 .. l -> 0 .. n + 1] /\ b[0] = 0 /\ b[l] = n + 1
      /\ \A k \in 1 .. l : PieceAt(text, sep, P[k], b[k - 1], b[k]) /\ (k < l => text[b[k]] = sep)
  BY <1>2 DEF Cuts
<1> HIDE DEF l
<1>5. l = 1
  <2> SUFFICES ASSUME l >= 2 PROVE FALSE
    BY <1>3
  <2>1. /\ 1 \in 1 .. l /\ 2 \in 1 .. l /\ 1 - 1 = 0 /\ 2 - 1 = 1 /\ 1 < l
        /\ 0 \in 0 .. l /\ 1 \in 0 .. l /\ 2 \in 0 .. l
    BY <1>3
  <2>2. /\ PieceAt(text, sep, P[1], b[1 - 1], b[1]) /\ PieceAt(text, sep, P[2], b[2 - 1], b[2])
        /\ text[b[1]] = sep
    BY <1>4, <2>1
  <2>3. b[0] < b[1] /\ b[1] < b[2]
    BY <2>1, <2>2 DEF PieceAt
  <2>4. b[1] \in 0 .. n + 1 /\ b[2] \in 0 .. n + 1
    BY <1>4, <2>1
  <2>5. b[1] \in 1 .. n
    BY <1>3, <1>4, <2>3, <2>4
  <2> QED
    BY <2>2, <2>5
<1>6. P[1] \in Seq(A) /\ Len(P[1]) = n /\ \A x \in 1 .. n : P[1][x] = text[x]
  <2>1. 1 \in 1 .. l /\ 1 - 1 = 0 /\ 1 \in 1 .. Len(P)
    BY <1>3, <1>5 DEF l
  <2>2. PieceAt(text, sep, P[1], 0, n + 1)
    <3>1. PieceAt(text, sep, P[1], b[1 - 1], b[1])
      BY <1>4, <2>1
    <3>2. b[1 - 1] = 0 /\ b[1] = n + 1
      BY <1>4, <1>5, <2>1
    <3> QED
      BY <3>1, <3>2
  <2> DEFINE q == P[1]
  <2>3. q \in Seq(A)
    BY <1>1, <2>1
  <2> HIDE DEF q
  <2>4. Len(q) = (n + 1) - 0 - 1 /\ \A x \in 1 .. Len(q) : q[x] = text[0 + x]
    BY <2>2 DEF PieceAt, q
  <2>5. Len(q) = n /\ \A x \in 1 .. n : 0 + x = x
    BY <1>3, <2>4
  <2> QED
    BY <2>3, <2>4, <2>5 DEF q
<1>7. P[1] = text
  <2> DEFINE q == P[1]
  <2> HIDE DEF q
  <2>1. q \in Seq(A) /\ Len(q) = Len(text) /\ \A x \in 1 .. Len(q) : q[x] = text[x]
    BY <1>6 DEF q
  <2>2. q = text
    BY <2>1, SeqEqual
  <2> QED
    BY <2>2 DEF q
<1>8. P = <<text>>
  <2> DEFINE Q == <<text>>
  <2>1. Q \in Seq(Seq(A)) /\ Len(Q) = 1 /\ Q[1] = text
    OBVIOUS
  <2> HIDE DEF Q
  <2>2. Len(P) = 1
    BY <1>5 DEF l
  <2>3. \A x \in 1 .. Len(P) : P[x] = Q[x]
    <3>1. \A x \in 1 .. 1 : x = 1
      OBVIOUS
    <3> QED
      BY <1>7, <2>1, <2>2, <3>1
  <2>4. P = Q
    BY <1>1, <2>1, <2>2, <2>3, SeqEqual
  <2> QED
    BY <2>4 DEF Q
<1> QED
  BY <1>8 DEF P
-----------------------------------------------------------------------------
(* Numbers *)

\* Every digit is one of ten symbols.
LEMMA DigitSymbols ==
    \A i \in 1 .. 10 : Digits[i] \in {"0", "1", "2", "3", "4", "5", "6", "7", "8", "9"}
  BY DEF Digits

\* There are ten digits, and no two are the same.
LEMMA TenDigits ==
    /\ Len(Digits) = 10 /\ DOMAIN Digits = 1 .. 10
    /\ \A i, j \in 1 .. 10 : Digits[i] = Digits[j] => i = j
  BY DEF Digits

\* None of them is a separator.
LEMMA DigitsSolid == \A i \in 1 .. 10 : Digits[i] \notin {Comma, Blank, ":"}
<1>1. \A x \in {"0", "1", "2", "3", "4", "5", "6", "7", "8", "9"} : x \notin {Comma, Blank, ":"}
  BY Zenon DEF Comma, Blank
<1> QED
  BY <1>1, DigitSymbols, Zenon

\* Each digit has its value.
LEMMA DigitValue == \A d \in 0 .. 9 : DigitOf(Digits[d + 1]) = d
<1> SUFFICES ASSUME NEW d \in 0 .. 9 PROVE DigitOf(Digits[d + 1]) = d
  OBVIOUS
<1> DEFINE v == CHOOSE e \in 0 .. 9 : Digits[e + 1] = Digits[d + 1]
<1>1. v \in 0 .. 9 /\ Digits[v + 1] = Digits[d + 1]
  OBVIOUS
<1>2. DigitOf(Digits[d + 1]) = v
  BY DEF DigitOf
<1> HIDE DEF v
<1>3. v + 1 \in 1 .. 10 /\ d + 1 \in 1 .. 10
  BY <1>1
<1>4. v + 1 = d + 1
  BY <1>1, <1>3, TenDigits
<1> QED
  BY <1>1, <1>2, <1>4

\* A text of digits.
Numeric(text) == \A i \in 1 .. Len(text) : text[i] \in ToSet(Digits)

\* What it is a text of.
LEMMA DigitType ==
    ASSUME NEW c \in ToSet(Digits)
    PROVE  DigitOf(c) \in 0 .. 9 /\ c \notin {Comma, Blank, ":"}
<1>1. PICK i \in 1 .. 10 : c = Digits[i]
  BY TenDigits DEF ToSet
<1>2. i - 1 \in 0 .. 9 /\ (i - 1) + 1 = i
  OBVIOUS
<1>3. DigitOf(c) = i - 1
  BY <1>1, <1>2, DigitValue
<1>4. c \notin {Comma, Blank, ":"}
  BY <1>1, DigitsSolid, Zenon
<1> QED
  BY <1>2, <1>3, <1>4

\* Number goes through the text digit by digit.
NumberEqs(text, f) ==
    f = [i \in 0 .. Len(text) |-> IF i = 0 THEN 0 ELSE 10 * f[i - 1] + DigitOf(text[i])]
NumberSteps(text, f) ==
    /\ f[0] = 0
    /\ \A i \in 1 .. Len(text) : f[i] = 10 * f[i - 1] + DigitOf(text[i])
    /\ Number(text) = f[Len(text)]

\* The sums on the way form a function.
LEMMA NumberComputes ==
    ASSUME NEW text, Len(text) \in Nat, Numeric(text)
    PROVE  \E f \in [0 .. Len(text) -> Nat] : NumberSteps(text, f)
<1> DEFINE n == Len(text)
           sum == CHOOSE f : NumberEqs(text, f)
<1>1. Number(text) = sum[Len(text)]
  BY DEF Number, NumberEqs
<1>2. n \in Nat
  OBVIOUS
<1>3. ASSUME NEW i \in 1 .. n, NEW v \in Nat PROVE 10 * v + DigitOf(text[i]) \in Nat
  <2>1. DigitOf(text[i]) \in 0 .. 9
    BY DigitType DEF Numeric
  <2> QED
    BY <2>1
<1>4. \E f : NumberEqs(text, f)
  <2> DEFINE F == [i \in 1 .. n |-> [v \in Nat |-> 10 * v + DigitOf(text[i])]]
             pre == [i \in 1 .. n |-> i - 1]
  <2> HIDE DEF n
  <2>1. F \in [1 .. n -> [Nat -> Nat]]
    BY <1>3
  <2>2. Earlier(pre, n)
    BY <1>2 DEF Earlier
  <2>3. PICK f \in [0 .. n -> Nat] : Solves(f, n, 0, pre, F)
    <3> HIDE DEF F, pre
    <3> QED
      BY <1>2, <2>1, <2>2, Recursion
  <2>4. ASSUME NEW i \in 1 .. n PROVE f[i] = 10 * f[i - 1] + DigitOf(text[i])
    <3>1. f[i - 1] \in Nat /\ pre[i] = i - 1
      BY <1>2
    <3> QED
      BY <2>3, <3>1 DEF Solves
  <2>5. NumberEqs(text, f)
    BY <1>2, <2>3, <2>4 DEF Solves, NumberEqs, n
  <2> QED
    BY <2>5
<1>5. NumberEqs(text, sum)
  <2> HIDE DEF n
  <2> QED
    BY <1>4
<1> HIDE DEF sum
<1>6. /\ sum[0] = 0
      /\ \A i \in 1 .. n : sum[i] = 10 * sum[i - 1] + DigitOf(text[i])
      /\ sum = [i \in 0 .. n |-> sum[i]]
  <2> DEFINE R(i) == IF i = 0 THEN 0 ELSE 10 * sum[i - 1] + DigitOf(text[i])
  <2>1. sum = [i \in 0 .. n |-> R(i)]
    BY <1>5 DEF NumberEqs
  <2> HIDE DEF n
  <2>2. \A i \in 0 .. n : sum[i] = R(i)
    BY <2>1
  <2>3. sum = [i \in 0 .. n |-> sum[i]]
    <3> HIDE DEF R
    <3> QED
      BY <2>1
  <2>4. 0 \in 0 .. n /\ \A i \in 1 .. n : i \in 0 .. n /\ i # 0
    BY <1>2
  <2> QED
    BY <2>2, <2>3, <2>4
<1>7. sum \in [0 .. n -> Nat]
  <2> DEFINE S == {i \in 0 .. n : sum[i] \in Nat}
  <2> HIDE DEF n
  <2>1. 0 \in S
    BY <1>2, <1>6
  <2>2. ASSUME NEW i \in 0 .. n - 1, i \in S PROVE i + 1 \in S
    <3>1. sum[i] \in Nat /\ i + 1 \in 1 .. n /\ (i + 1) - 1 = i
      BY <1>2, <2>2
    <3>2. sum[i + 1] = 10 * sum[i] + DigitOf(text[i + 1])
      BY <1>6, <3>1
    <3> QED
      BY <1>2, <1>3, <3>1, <3>2
  <2>3. 0 .. n \subseteq S
    <3> HIDE DEF S
    <3>1. \A i \in 0 .. n - 1 : i \in S => i + 1 \in S
      BY <2>2
    <3> QED
      BY <1>2, <2>1, <3>1, UpTo
  <2> QED
    BY <1>6, <2>3
<1> QED
  BY <1>1, <1>6, <1>7 DEF NumberSteps

\* One more digit.
LEMMA NumberAppend ==
    ASSUME NEW A, ToSet(Digits) \subseteq A, NEW text \in Seq(A), Numeric(text), NEW d \in 0 .. 9
    PROVE  Number(Append(text, Digits[d + 1])) = 10 * Number(text) + d
<1> DEFINE c == Digits[d + 1]
           n == Len(text)
           longer == Append(text, c)
<1>1. n \in Nat /\ c \in ToSet(Digits) /\ c \in A /\ DigitOf(c) = d
  <2>1. d + 1 \in 1 .. 10
    OBVIOUS
  <2>2. c \in ToSet(Digits)
    BY <2>1, TenDigits DEF ToSet
  <2> QED
    BY <2>2, DigitType, DigitValue
<1> HIDE DEF c
<1>2. /\ Len(longer) = n + 1 /\ longer[n + 1] = c
      /\ \A i \in 1 .. n : longer[i] = text[i]
  BY <1>1, AppendProperties DEF n
<1> HIDE DEF longer
<1>3. Numeric(longer)
  <2> HIDE DEF n
  <2>1. ASSUME NEW i \in 1 .. n + 1 PROVE longer[i] \in ToSet(Digits)
    <3>1. i \in 1 .. n \/ i = n + 1
      BY <1>1
    <3> QED
      BY <1>1, <1>2, <3>1 DEF Numeric, n
  <2> QED
    BY <1>2, <2>1 DEF Numeric
<1>4. PICK f \in [0 .. n -> Nat] : NumberSteps(text, f)
  BY <1>1, NumberComputes
<1>5. PICK g \in [0 .. Len(longer) -> Nat] : NumberSteps(longer, g)
  <2>1. Len(longer) \in Nat
    BY <1>1, <1>2
  <2> QED
    BY <1>3, <2>1, NumberComputes
<1> HIDE DEF n
<1>6. /\ f[0] = 0 /\ g[0] = 0
      /\ \A i \in 1 .. n : f[i] = 10 * f[i - 1] + DigitOf(text[i])
      /\ \A i \in 1 .. n + 1 : g[i] = 10 * g[i - 1] + DigitOf(longer[i])
      /\ Number(text) = f[n] /\ Number(longer) = g[n + 1]
  BY <1>2, <1>4, <1>5 DEF NumberSteps, n
<1> DEFINE S == {i \in 0 .. n : f[i] = g[i]}
<1>7. 0 \in S
  BY <1>1, <1>6
<1>8. ASSUME NEW i \in 0 .. n - 1, i \in S PROVE i + 1 \in S
  <2>1. i + 1 \in 1 .. n /\ i + 1 \in 1 .. n + 1 /\ (i + 1) - 1 = i /\ i + 1 \in 0 .. n
    BY <1>1
  <2>2. f[i] = g[i] /\ longer[i + 1] = text[i + 1]
    BY <1>2, <1>8, <2>1
  <2>3. f[i + 1] = 10 * f[i] + DigitOf(text[i + 1]) /\ g[i + 1] = 10 * g[i] + DigitOf(longer[i + 1])
    BY <1>6, <2>1
  <2>4. f[i + 1] = g[i + 1]
    BY <2>2, <2>3
  <2> QED
    BY <2>1, <2>4
<1>9. n \in S
  <2> HIDE DEF S
  <2>1. \A i \in 0 .. n - 1 : i \in S => i + 1 \in S
    BY <1>8
  <2>2. 0 .. n \subseteq S
    BY <1>1, <1>7, <2>1, UpTo
  <2> QED
    BY <1>1, <2>2
<1>10. f[n] = g[n] /\ n + 1 \in 1 .. n + 1 /\ (n + 1) - 1 = n
  BY <1>1, <1>9
<1>11. g[n + 1] = 10 * g[n] + DigitOf(longer[n + 1])
  BY <1>6, <1>10
<1> QED
  BY <1>1, <1>2, <1>6, <1>10, <1>11 DEF longer, c

\* A port that is taken is a port.
LEMMA ParsePortType ==
    ASSUME NEW A, NEW text \in Seq(A), ~ (ParsePort(text) <= 0)
    PROVE  ParsePort(text) \in 1 .. MaxPort
<1>1. CASE text # <<>> /\ ToSet(text) \subseteq ToSet(Digits) /\ Number(text) <= MaxPort
  <2>1. Len(text) \in Nat /\ Numeric(text)
    <3>1. Len(text) \in Nat /\ \A i \in 1 .. Len(text) : text[i] \in ToSet(text)
      BY DEF ToSet
    <3> QED
      BY <1>1, <3>1 DEF Numeric
  <2>2. PICK f \in [0 .. Len(text) -> Nat] : NumberSteps(text, f)
    BY <2>1, NumberComputes
  <2>3. Number(text) \in Nat
    BY <2>1, <2>2 DEF NumberSteps
  <2>4. ParsePort(text) = Number(text)
    BY <1>1 DEF ParsePort
  <2> QED
    BY <1>1, <2>3, <2>4, MaxPortAssumption
<1>2. CASE ~ (text # <<>> /\ ToSet(text) \subseteq ToSet(Digits) /\ Number(text) <= MaxPort)
  <2>1. ParsePort(text) = -1
    BY <1>2 DEF ParsePort
  <2> QED
    BY <2>1
<1> QED
  BY <1>1, <1>2

\* The digits of a port are read as that port.
LEMMA ParsePortNumber ==
    ASSUME NEW A, NEW text \in Seq(A), text # <<>>, Numeric(text),
           NEW p \in 1 .. MaxPort, Number(text) = p
    PROVE  ParsePort(text) = p
<1>1. ToSet(text) \subseteq ToSet(Digits)
  BY DEF Numeric, ToSet
<1>2. p <= MaxPort
  BY MaxPortAssumption
<1> QED
  BY <1>1, <1>2 DEF ParsePort

\* What Cut leaves of a host, and the targets that a list may have.
IsHost(h) == /\ h # <<>> /\ h[1] # Blank /\ h[Len(h)] # Blank
             /\ \A x \in 1 .. Len(h) : h[x] # Comma /\ h[x] # ":"
TargetsOf(A) == {t \in [host : Seq(A), port : 1 .. MaxPort] : IsHost(t.host)}

\* Cut takes what is before the first colon.
LEMMA CutHost ==
    ASSUME NEW A, NEW text \in Seq(A), \A x \in 1 .. Len(text) : text[x] # Comma,
           Cut(text).found, Cut(text).host # <<>>
    PROVE  /\ Cut(text).host \in Seq(A) /\ IsHost(Cut(text).host)
           /\ Cut(text).port \in Seq(A)
<1> DEFINE n == Len(text)
           colons == {i \in DOMAIN text : text[i] = ":"}
           a == Min(colons)
           before == SubSeq(text, 1, a - 1)
           behind == Drop(text, a)
           h == Trim(before)
<1>1. n \in Nat /\ colons \in SUBSET Nat /\ colons \subseteq 1 .. n
      /\ \A i \in 1 .. n : text[i] = ":" => i \in colons
  <2>1. n \in Nat /\ DOMAIN text = 1 .. n
    OBVIOUS
  <2> HIDE DEF n
  <2> QED
    BY <2>1
<1>2. /\ colons # {}
      /\ Cut(text).host = h /\ Cut(text).port = Trim(behind)
  BY DEF Cut
<1> HIDE DEF colons
<1>3. a \in 1 .. n /\ \A y \in colons : a <= y
  <2>1. \E x \in colons : \A y \in colons : x <= y
    BY <1>1, <1>2, LeastNat
  <2>2. a \in colons /\ \A y \in colons : a <= y
    BY <2>1 DEF Min
  <2> QED
    BY <1>1, <2>2
<1> HIDE DEF a
<1>4. before \in Seq(A) /\ Len(before) = a - 1 /\ \A x \in 1 .. a - 1 : before[x] = text[x]
  <2>1. \A i \in 1 .. a - 1 : i \in 1 .. n
    BY <1>1, <1>3
  <2>2. \A i \in 1 .. a - 1 : text[i] \in A
    BY <2>1
  <2>3. 1 \in Int /\ a - 1 \in Int /\ (a - 1 - 1) + 1 = a - 1
    BY <1>1, <1>3
  <2>4. 1 <= a - 1 \/ a = 1
    BY <1>1, <1>3
  <2>5. ASSUME a = 1 PROVE before = <<>>
    BY <2>5
  <2> HIDE DEF n
  <2> QED
    BY <1>1, <1>3, <2>2, <2>3, <2>4, <2>5, SubSeqProperties
<1>5. behind \in Seq(A)
  BY <1>1, <1>3, SubSeqProperties DEF Drop
<1> HIDE DEF before, behind
<1>6. Trim(behind) \in Seq(A) /\ h \in Seq(A)
  BY <1>4, <1>5, TrimRun
<1>7. PICK o \in Nat : TrimAt(before, o)
  BY <1>4, TrimRun
<1>8. /\ h # <<>> /\ o + Len(h) <= a - 1 /\ h[1] # Blank /\ h[Len(h)] # Blank
      /\ \A x \in 1 .. Len(h) : h[x] = before[o + x]
  BY <1>2, <1>4, <1>7 DEF TrimAt
<1> HIDE DEF h
<1>9. ASSUME NEW x \in 1 .. Len(h) PROVE h[x] # Comma /\ h[x] # ":"
  <2>1. Len(h) \in Nat
    BY <1>6, LenProperties, Zenon
  <2>2. o + x \in 1 .. a - 1 /\ o + x \in 1 .. n /\ ~ (a <= o + x)
    BY <1>1, <1>3, <1>8, <2>1
  <2>3. h[x] = text[o + x]
    BY <1>4, <1>8, <2>2
  <2>4. o + x \notin colons
    BY <1>3, <2>2
  <2> QED
    BY <1>1, <2>2, <2>3, <2>4
<1> QED
  BY <1>2, <1>6, <1>8, <1>9 DEF IsHost

\* The state of the parse: whether all is well, and what there is so far.
Accs(A) == [ok : BOOLEAN, seen : SUBSET Seq(A), out : Seq(TargetsOf(A))]
NoEntries == [ok |-> TRUE, seen |-> {}, out |-> <<>>]

\* One more entry.
LEMMA AddEntryType ==
    ASSUME NEW A, NEW raw \in Seq(A), \A x \in 1 .. Len(raw) : raw[x] # Comma, NEW acc \in Accs(A)
    PROVE  AddEntry(acc, raw) \in Accs(A)
<1> DEFINE entry == Trim(raw)
           cut   == Cut(entry)
           t     == [host |-> cut.host, port |-> ParsePort(cut.port)]
           bad   == ~cut.found \/ cut.host = <<>> \/ ParsePort(cut.port) <= 0
           T     == TargetsOf(A)
<1>1. entry \in Seq(A) /\ \A x \in 1 .. Len(entry) : entry[x] # Comma
  <2>1. entry \in Seq(A)
    BY TrimRun
  <2>2. PICK o \in Nat : TrimAt(raw, o)
    BY TrimRun
  <2>3. o + Len(entry) <= Len(raw) /\ \A x \in 1 .. Len(entry) : entry[x] = raw[o + x]
    BY <2>2 DEF TrimAt
  <2> HIDE DEF entry
  <2>4. Len(entry) \in Nat /\ Len(raw) \in Nat
    BY <2>1, LenProperties, Zenon
  <2>5. ASSUME NEW x \in 1 .. Len(entry) PROVE entry[x] # Comma
    <3>1. o + x \in 1 .. Len(raw)
      BY <2>3, <2>4
    <3> QED
      BY <2>3, <3>1
  <2> QED
    BY <2>1, <2>5
<1>2. AddEntry(acc, raw) = IF entry = <<>> \/ ~acc.ok THEN acc
                           ELSE IF bad THEN [acc EXCEPT !.ok = FALSE]
                           ELSE IF entry \in acc.seen THEN acc
                           ELSE [acc EXCEPT !.seen = @ \cup {entry}, !.out = Append(@, t)]
  BY DEF AddEntry
<1> HIDE DEF entry
<1>3. ASSUME ~bad PROVE t \in T
  <2>1. cut.found /\ cut.host # <<>> /\ ~ (ParsePort(cut.port) <= 0)
    BY <1>3
  <2>2. cut.host \in Seq(A) /\ IsHost(cut.host) /\ cut.port \in Seq(A)
    BY <1>1, <2>1, CutHost
  <2>3. ParsePort(cut.port) \in 1 .. MaxPort
    BY <2>1, <2>2, ParsePortType
  <2> DEFINE h == cut.host
             p == ParsePort(cut.port)
  <2> HIDE DEF h, p, cut
  <2>4. h \in Seq(A) /\ IsHost(h) /\ p \in 1 .. MaxPort
    BY <2>2, <2>3 DEF h, p
  <2>5. [host |-> h, port |-> p] \in TargetsOf(A)
    BY <2>4 DEF TargetsOf
  <2> QED
    BY <2>5 DEF h, p
<1> HIDE DEF t, bad, T
<1>4. ASSUME ~bad PROVE Append(acc.out, t) \in Seq(T)
  <2>1. acc.out \in Seq(T)
    BY DEF Accs, T
  <2> QED
    BY <1>3, <1>4, <2>1, AppendProperties
<1> QED
  BY <1>1, <1>2, <1>4 DEF Accs, T

\* parseEgressTargets goes through the entries one by one.
ParseEqs(P, f) == f = [i \in 0 .. Len(P) |-> IF i = 0 THEN NoEntries ELSE AddEntry(f[i - 1], P[i])]
ParseSteps(raw, P, f) ==
    /\ f[0] = NoEntries
    /\ \A i \in 1 .. Len(P) : f[i] = AddEntry(f[i - 1], P[i])
    /\ parseEgressTargets(raw) = f[Len(P)]

\* The states on the way form a function.
LEMMA ParseComputes ==
    ASSUME NEW A, NEW raw \in Seq(A), NEW P \in Seq(Seq(A)), CommaList(raw) = P
    PROVE  \E f \in [0 .. Len(P) -> Accs(A)] : ParseSteps(raw, P, f)
<1> DEFINE V == Accs(A)
           n == Len(P)
           acc == CHOOSE f : ParseEqs(P, f)
<1>1. parseEgressTargets(raw) = acc[Len(P)]
  BY DEF parseEgressTargets, ParseEqs, NoEntries
<1>2. n \in Nat /\ NoEntries \in V
  <2>1. <<>> \in Seq(TargetsOf(A))
    OBVIOUS
  <2>2. NoEntries \in V
    BY <2>1 DEF NoEntries, Accs
  <2> QED
    BY <2>2, LenProperties, Zenon
<1>3. ASSUME NEW i \in 1 .. n, NEW v \in V PROVE AddEntry(v, P[i]) \in V
  <2>1. P[i] \in Seq(A)
    BY ElementOfSeq, Zenon
  <2>2. Split(raw, Comma) = P
    BY DEF CommaList
  <2>3. \A x \in 1 .. Len(P[i]) : P[i][x] # Comma
    BY <2>2, SplitPieces, Zenon
  <2> QED
    BY <2>1, <2>3, AddEntryType, Zenon
<1>4. \E f : ParseEqs(P, f)
  <2> DEFINE F == [i \in 1 .. n |-> [v \in V |-> AddEntry(v, P[i])]]
             pre == [i \in 1 .. n |-> i - 1]
  <2> HIDE DEF n, V
  <2>1. F \in [1 .. n -> [V -> V]]
    BY <1>3
  <2>2. Earlier(pre, n)
    BY <1>2 DEF Earlier
  <2>3. PICK f \in [0 .. n -> V] : Solves(f, n, NoEntries, pre, F)
    <3> HIDE DEF F, pre
    <3> QED
      BY <1>2, <2>1, <2>2, Recursion
  <2>4. ASSUME NEW i \in 1 .. n PROVE f[i] = AddEntry(f[i - 1], P[i])
    <3>1. f[i - 1] \in V /\ pre[i] = i - 1
      BY <1>2
    <3> QED
      BY <2>3, <3>1 DEF Solves
  <2>5. ParseEqs(P, f)
    BY <1>2, <2>3, <2>4 DEF Solves, ParseEqs, n
  <2> QED
    BY <2>5
<1>5. ParseEqs(P, acc)
  <2> HIDE DEF n, V
  <2> QED
    BY <1>4
<1> HIDE DEF acc
<1>6. /\ acc[0] = NoEntries
      /\ \A i \in 1 .. n : acc[i] = AddEntry(acc[i - 1], P[i])
      /\ acc = [i \in 0 .. n |-> acc[i]]
  <2> DEFINE R(i) == IF i = 0 THEN NoEntries ELSE AddEntry(acc[i - 1], P[i])
  <2>1. acc = [i \in 0 .. n |-> R(i)]
    BY <1>5 DEF ParseEqs
  <2> HIDE DEF n
  <2>2. \A i \in 0 .. n : acc[i] = R(i)
    BY <2>1
  <2>3. acc = [i \in 0 .. n |-> acc[i]]
    <3> HIDE DEF R
    <3> QED
      BY <2>1
  <2>4. 0 \in 0 .. n /\ \A i \in 1 .. n : i \in 0 .. n /\ i # 0
    BY <1>2
  <2> QED
    BY <2>2, <2>3, <2>4
<1>7. acc \in [0 .. n -> V]
  <2> DEFINE S == {i \in 0 .. n : acc[i] \in V}
  <2> HIDE DEF n, V
  <2>1. 0 \in S
    BY <1>2, <1>6
  <2>2. ASSUME NEW i \in 0 .. n - 1, i \in S PROVE i + 1 \in S
    <3>1. acc[i] \in V /\ i + 1 \in 1 .. n /\ (i + 1) - 1 = i
      BY <1>2, <2>2
    <3>2. acc[i + 1] = AddEntry(acc[i], P[i + 1])
      BY <1>6, <3>1
    <3> QED
      BY <1>2, <1>3, <3>1, <3>2
  <2>3. 0 .. n \subseteq S
    <3> HIDE DEF S
    <3>1. \A i \in 0 .. n - 1 : i \in S => i + 1 \in S
      BY <2>2
    <3> QED
      BY <1>2, <2>1, <3>1, UpTo
  <2> QED
    BY <1>6, <2>3
<1> QED
  BY <1>1, <1>6, <1>7 DEF ParseSteps

\* The targets of a label are hosts and ports, whatever the label is.
LEMMA ParsedTargets ==
    ASSUME NEW A, NEW raw \in Seq(A)
    PROVE  parseEgressTargets(raw).out \in Seq(TargetsOf(A))
<1> DEFINE P == CommaList(raw)
<1>1. P \in Seq(Seq(A))
  BY SplitCuts DEF CommaList
<1>2. PICK f \in [0 .. Len(P) -> Accs(A)] : ParseSteps(raw, P, f)
  <2> HIDE DEF P
  <2>1. CommaList(raw) = P
    BY DEF P
  <2> QED
    BY <1>1, <2>1, ParseComputes
<1> HIDE DEF P
<1>3. parseEgressTargets(raw) \in Accs(A)
  <2>1. Len(P) \in Nat
    BY <1>1, LenProperties, Zenon
  <2>2. Len(P) \in 0 .. Len(P)
    BY <2>1
  <2> QED
    BY <1>2, <2>2 DEF ParseSteps
<1> QED
  BY <1>3 DEF Accs

\* Two texts with a symbol between them.
Joined(text, h, c, d) ==
    /\ Len(text) = Len(h) + 1 + Len(d)
    /\ \A x \in 1 .. Len(h) : text[x] = h[x]
    /\ text[Len(h) + 1] = c
    /\ \A x \in 1 .. Len(d) : text[Len(h) + 1 + x] = d[x]

\* They are where they were put.
LEMMA JoinedPlaces ==
    ASSUME NEW A, NEW h \in Seq(A), NEW d \in Seq(A), NEW c \in A
    PROVE  h \o <<c>> \o d \in Seq(A) /\ Joined(h \o <<c>> \o d, h, c, d)
<1> DEFINE front == h \o <<c>>
           text == front \o d
<1>1. h \o <<c>> \o d = text
  OBVIOUS
<1>2. Len(h) \in Nat /\ Len(d) \in Nat /\ <<c>> \in Seq(A) /\ Len(<<c>>) = 1 /\ <<c>>[1] = c
  OBVIOUS
<1>3. /\ front \in Seq(A) /\ Len(front) = Len(h) + 1 /\ front[Len(h) + 1] = c
      /\ \A x \in 1 .. Len(h) : front[x] = h[x]
  BY <1>2
<1> HIDE DEF front
<1>4. /\ text \in Seq(A) /\ Len(text) = Len(front) + Len(d)
      /\ \A x \in 1 .. Len(front) : text[x] = front[x]
      /\ \A x \in 1 .. Len(d) : text[Len(front) + x] = d[x]
  BY <1>3
<1> HIDE DEF text
<1>5. \A x \in 1 .. Len(h) : x \in 1 .. Len(front)
  BY <1>2, <1>3
<1>6. Len(h) + 1 \in 1 .. Len(front)
  BY <1>2, <1>3
<1>7. Joined(text, h, c, d)
  BY <1>2, <1>3, <1>4, <1>5, <1>6 DEF Joined
<1> QED
  BY <1>1, <1>4, <1>7

\* Cut takes them apart.
LEMMA CutJoined ==
    ASSUME NEW A, NEW h \in Seq(A), NEW d \in Seq(A), IsHost(h), Numeric(d), d # <<>>,
           NEW text \in Seq(A), Joined(text, h, ":", d)
    PROVE  Cut(text) = [found |-> TRUE, host |-> h, port |-> d]
<1> DEFINE n == Len(text)
           l == Len(h)
           k == Len(d)
           colons == {i \in DOMAIN text : text[i] = ":"}
           a == Min(colons)
<1>1. n \in Nat /\ l \in Nat /\ k \in Nat /\ l >= 1 /\ k >= 1 /\ n = l + 1 + k /\ DOMAIN text = 1 .. n
  <2>1. h # <<>>
    BY DEF IsHost
  <2>2. l \in Nat /\ l >= 1
    BY <2>1
  <2>3. k \in Nat /\ k >= 1
    OBVIOUS
  <2>4. n \in Nat /\ DOMAIN text = 1 .. n
    OBVIOUS
  <2>5. n = l + 1 + k
    BY DEF Joined
  <2> QED
    BY <2>2, <2>3, <2>4, <2>5
<1>2. /\ \A x \in 1 .. l : text[x] = h[x] /\ h[x] # ":"
      /\ text[l + 1] = ":"
      /\ \A x \in 1 .. k : text[l + 1 + x] = d[x]
  BY DEF Joined, IsHost
<1>3. /\ Cut(text) = IF colons = {} THEN [found |-> FALSE, host |-> Trim(text), port |-> <<>>]
                     ELSE [found |-> TRUE,
                           host  |-> Trim(SubSeq(text, 1, a - 1)),
                           port  |-> Trim(Drop(text, a))]
      /\ Drop(text, a) = SubSeq(text, a + 1, n)
  BY DEF Cut, Drop
<1> HIDE DEF n, l, k
<1>4. l + 1 \in colons /\ colons \subseteq 1 .. n /\ \A y \in colons : y \notin 1 .. l
  <2>1. l + 1 \in 1 .. n /\ \A x \in 1 .. l : x \in 1 .. n
    BY <1>1
  <2> QED
    BY <1>1, <1>2, <2>1
<1> HIDE DEF colons
<1>5. a = l + 1
  <2>1. l + 1 \in colons /\ \A y \in colons : l + 1 <= y
    BY <1>1, <1>4
  <2>2. a \in colons /\ \A y \in colons : a <= y
    BY <2>1 DEF Min
  <2> HIDE DEF a
  <2>3. a \in Nat /\ a <= l + 1 /\ l + 1 <= a
    BY <1>1, <1>4, <2>1, <2>2
  <2> QED
    BY <1>1, <2>3
<1>6. SubSeq(text, 0 + 1, 0 + Len(h)) = h
  <2>1. Occurs(text, 0, h) /\ 0 + Len(h) <= Len(text)
    BY <1>1, <1>2 DEF Occurs, n, l, k
  <2> QED
    BY <2>1, SubSeqOccurs
<1>7. SubSeq(text, a + 1, a + Len(d)) = d
  <2>1. Occurs(text, l + 1, d) /\ (l + 1) + Len(d) <= Len(text) /\ l + 1 \in Nat
    BY <1>1, <1>2 DEF Occurs, n, l, k
  <2>2. SubSeq(text, (l + 1) + 1, (l + 1) + Len(d)) = d
    BY <2>1, SubSeqOccurs
  <2> QED
    BY <1>5, <2>2
<1>8. 0 + 1 = 1 /\ 0 + Len(h) = a - 1 /\ a + Len(d) = n
  BY <1>1, <1>5 DEF l, k
<1>9. Trim(h) = h
  BY TrimSolid DEF IsHost
<1>10. Trim(d) = d
  <2>1. 1 \in 1 .. Len(d) /\ Len(d) \in 1 .. Len(d)
    BY <1>1 DEF k
  <2>2. d[1] \in ToSet(Digits) /\ d[Len(d)] \in ToSet(Digits)
    BY <2>1 DEF Numeric
  <2>3. d[1] # Blank /\ d[Len(d)] # Blank
    BY <2>2, DigitType, Zenon
  <2> QED
    BY <2>3, TrimSolid
<1>11. SubSeq(text, 1, a - 1) = h /\ SubSeq(text, a + 1, n) = d
  BY <1>6, <1>7, <1>8
<1> HIDE DEF a
<1> QED
  BY <1>3, <1>4, <1>9, <1>10, <1>11

\* The list of one target is read back as that target.
LEMMA ReadBack ==
    ASSUME NEW A, NEW h \in Seq(A), NEW d \in Seq(A), IsHost(h), Numeric(d), d # <<>>,
           NEW p \in 1 .. MaxPort, Number(d) = p, NEW text \in Seq(A), Joined(text, h, ":", d)
    PROVE  /\ parseEgressTargets(text).ok
           /\ parseEgressTargets(text).out = <<[host |-> h, port |-> p]>>
<1> DEFINE n == Len(text)
           l == Len(h)
           k == Len(d)
           t == [host |-> h, port |-> p]
<1>1. n \in Nat /\ l \in Nat /\ k \in Nat /\ l >= 1 /\ k >= 1 /\ n = l + 1 + k
  <2>1. h # <<>>
    BY DEF IsHost
  <2>2. l \in Nat /\ l >= 1
    BY <2>1
  <2>3. k \in Nat /\ k >= 1
    OBVIOUS
  <2>4. n \in Nat
    OBVIOUS
  <2>5. n = l + 1 + k
    BY DEF Joined
  <2> QED
    BY <2>2, <2>3, <2>4, <2>5
<1>2. /\ \A x \in 1 .. l : text[x] = h[x]
      /\ text[l + 1] = ":"
      /\ \A x \in 1 .. k : text[l + 1 + x] = d[x]
  BY DEF Joined
<1>3. ":" # Comma
  BY Zenon DEF Comma
<1>4. ASSUME NEW x \in 1 .. Len(text) PROVE text[x] # Comma
  <2>1. CASE x \in 1 .. l
    BY <1>2, <2>1 DEF IsHost
  <2>2. CASE x = l + 1
    BY <1>2, <1>3, <2>2, Zenon
  <2>3. CASE x \notin 1 .. l /\ x # l + 1
    <3>1. x - (l + 1) \in 1 .. k /\ l + 1 + (x - (l + 1)) = x
      BY <1>1, <2>3
    <3>2. text[x] \in ToSet(Digits)
      BY <1>2, <3>1 DEF Numeric
    <3> QED
      BY <3>2, DigitType, Zenon
  <2> QED
    BY <2>1, <2>2, <2>3
<1>5. CommaList(text) = <<text>>
  BY <1>4, SplitWhole DEF CommaList
<1>6. Trim(text) = text /\ text # <<>>
  <2>1. 1 \in 1 .. l /\ k \in 1 .. k /\ text[1] = h[1] /\ text[n] = d[k]
    BY <1>1, <1>2
  <2>2. text[1] # Blank
    BY <2>1 DEF IsHost
  <2>3. text[n] # Blank
    <3>1. d[k] \in ToSet(Digits)
      BY <2>1 DEF Numeric
    <3> QED
      BY <2>1, <3>1, DigitType, Zenon
  <2>4. text # <<>>
    BY <1>1
  <2> QED
    BY <2>2, <2>3, <2>4, TrimSolid
<1>7. Cut(text) = [found |-> TRUE, host |-> h, port |-> d]
  BY CutJoined
<1>8. ParsePort(d) = p
  BY ParsePortNumber
<1>9. h # <<>>
  BY DEF IsHost
<1>10. /\ AddEntry(NoEntries, text).ok
       /\ AddEntry(NoEntries, text).out = <<t>>
  <2>1. ~ (p <= 0)
    BY MaxPortAssumption
  <2> DEFINE cut == Cut(text)
  <2>2. cut.found /\ cut.host = h /\ cut.port = d
    BY <1>7
  <2>3. AddEntry(NoEntries, text) =
            [NoEntries EXCEPT !.seen = @ \cup {text},
                              !.out = Append(@, [host |-> cut.host, port |-> ParsePort(cut.port)])]
    <3>1. NoEntries.ok /\ text \notin NoEntries.seen
      BY DEF NoEntries
    <3> HIDE DEF cut
    <3> QED
      BY <1>6, <1>8, <1>9, <2>1, <2>2, <3>1 DEF AddEntry, cut
  <2> HIDE DEF cut
  <2>4. AddEntry(NoEntries, text).ok /\ AddEntry(NoEntries, text).out = Append(<<>>, t)
    BY <1>8, <2>2, <2>3 DEF NoEntries
  <2> QED
    BY <2>4
<1> DEFINE P == <<text>>
<1>11. P \in Seq(Seq(A)) /\ Len(P) = 1 /\ P[1] = text
  OBVIOUS
<1> HIDE DEF P, t
<1>12. PICK f \in [0 .. Len(P) -> Accs(A)] : ParseSteps(text, P, f)
  BY <1>5, <1>11, ParseComputes DEF P
<1>13. parseEgressTargets(text) = AddEntry(NoEntries, text)
  <2>1. 1 \in 1 .. Len(P) /\ 1 - 1 = 0
    BY <1>11
  <2>2. f[0] = NoEntries /\ f[1] = AddEntry(f[0], P[1]) /\ parseEgressTargets(text) = f[1]
    BY <1>11, <1>12, <2>1 DEF ParseSteps
  <2> QED
    BY <1>11, <2>2
<1> QED
  BY <1>10, <1>13 DEF t
=============================================================================
