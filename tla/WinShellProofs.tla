--------------------------- MODULE WinShellProofs ---------------------------
(***************************************************************************)
(* The shell whose statuses travel in its output keeps the promise of      *)
(* ShellSession, shows what the commands print and hides the rest, and     *)
(* dumps its environment: for commands of every kind, any number of calls, *)
(* a pipe of any capacity, and output that arrives in any pieces.          *)
(*                                                                         *)
(* The inductive invariant, IInv, says what the stream between the two     *)
(* holds (what is pending in venv, in the pipe, and still to be written):  *)
(* output, then a piece of the one status that is outstanding, or the rest *)
(* of the block of a dump; and which lines of the call the shell has not   *)
(* read.  The lemmas about texts say what is found in such a stream.       *)
(***************************************************************************)
EXTENDS WinShell, NaturalSets, SequenceTheorems

-----------------------------------------------------------------------------
(* Pieces of text                                                          *)

\* What passes through the pipe, and what is shown.
Text == Seq(Output \cup {"added"})

LEMMA Length ==
  ASSUME NEW s \in Text
  PROVE  Len(s) \in Nat
BY LenProperties DEF Text

LEMMA Domain ==
  ASSUME NEW s \in Text
  PROVE  DOMAIN s = 1 .. Len(s)
BY LenProperties DEF Text

LEMMA NoText ==
  ASSUME NEW s \in Text
  PROVE  s = <<>> <=> Len(s) = 0
BY LenProperties, EmptySeq DEF Text

LEMMA NilIsText == <<>> \in Text /\ Len(<<>>) = 0
BY EmptySeq DEF Text

LEMMA SameText ==
  ASSUME NEW s \in Text, NEW t \in Text, Len(s) = Len(t), \A i \in 1 .. Len(s) : s[i] = t[i]
  PROVE  s = t
BY SeqEqual DEF Text

LEMMA CatText ==
  ASSUME NEW a \in Text, NEW b \in Text
  PROVE  a \o b \in Text
BY ConcatProperties DEF Text

LEMMA CatLength ==
  ASSUME NEW a \in Text, NEW b \in Text
  PROVE  Len(a \o b) = Len(a) + Len(b)
BY ConcatProperties DEF Text

LEMMA CatFirst ==
  ASSUME NEW a \in Text, NEW b \in Text, NEW i \in 1 .. Len(a)
  PROVE  (a \o b)[i] = a[i]
<1>1. Len(a) \in Nat /\ Len(b) \in Nat
  BY Length
<1>2. (a \o b)[i] = IF i <= Len(a) THEN a[i] ELSE b[i - Len(a)]
  <2>1. i \in 1 .. Len(a) + Len(b)
    BY <1>1
  <2>2. QED
    BY <2>1, ConcatProperties DEF Text
<1>3. QED
  BY <1>1, <1>2

LEMMA CatSecond ==
  ASSUME NEW a \in Text, NEW b \in Text, NEW i \in 1 .. Len(b)
  PROVE  (a \o b)[Len(a) + i] = b[i]
<1>1. Len(a) \in Nat /\ Len(b) \in Nat
  BY Length
<1>2. /\ Len(a) + i \in 1 .. Len(a) + Len(b) /\ ~(Len(a) + i <= Len(a))
      /\ Len(a) + i - Len(a) = i
  BY <1>1
<1>3. (a \o b)[Len(a) + i]
        = IF Len(a) + i <= Len(a) THEN a[Len(a) + i] ELSE b[Len(a) + i - Len(a)]
  BY <1>2, ConcatProperties DEF Text
<1>4. QED
  BY <1>2, <1>3

LEMMA Assoc ==
  ASSUME NEW a \in Text, NEW b \in Text, NEW c \in Text
  PROVE  (a \o b) \o c = a \o (b \o c)
BY ConcatAssociative DEF Text

LEMMA CatNil ==
  ASSUME NEW a \in Text
  PROVE  a \o <<>> = a
BY ConcatEmptySeq DEF Text

LEMMA NilCat ==
  ASSUME NEW a \in Text
  PROVE  <<>> \o a = a
BY ConcatEmptySeq DEF Text

LEMMA CancelLeft ==
  ASSUME NEW a \in Text, NEW b \in Text, NEW c \in Text, a \o b = a \o c
  PROVE  b = c
BY ConcatSimplifications DEF Text

\* The first k tokens.
LEMMA UptoShape ==
  ASSUME NEW s \in Text, NEW k \in 0 .. Len(s)
  PROVE  /\ Upto(s, k) \in Text /\ Len(Upto(s, k)) = k
         /\ \A i \in 1 .. k : Upto(s, k)[i] = s[i]
<1>1. Len(s) \in Nat /\ k \in Nat /\ k <= Len(s)
  BY Length
<1>2. \A i \in 1 .. Len(s) : s[i] \in Output \cup {"added"}
  BY ElementOfSeq DEF Text
<1>3. \A i \in 1 .. k : s[i] \in Output \cup {"added"}
  BY <1>1, <1>2
<1>4. /\ Upto(s, k) \in Text /\ Len(Upto(s, k)) = IF 1 <= k THEN k - 1 + 1 ELSE 0
      /\ \A i \in 1 .. k - 1 + 1 : Upto(s, k)[i] = s[1 + i - 1]
  BY <1>1, <1>3, SubSeqProperties DEF Upto, Text
<1>5. ASSUME NEW i \in 1 .. k PROVE Upto(s, k)[i] = s[i]
  <2>1. i \in 1 .. k - 1 + 1 /\ 1 + i - 1 = i
    BY <1>1
  <2>2. QED
    BY <1>4, <2>1
<1>6. QED
  BY <1>1, <1>4, <1>5

LEMMA UptoText ==
  ASSUME NEW s \in Text, NEW k \in 0 .. Len(s)
  PROVE  Upto(s, k) \in Text
BY UptoShape

LEMMA UptoLength ==
  ASSUME NEW s \in Text, NEW k \in 0 .. Len(s)
  PROVE  Len(Upto(s, k)) = k
BY UptoShape

LEMMA UptoAt ==
  ASSUME NEW s \in Text, NEW k \in 0 .. Len(s), NEW i \in 1 .. k
  PROVE  Upto(s, k)[i] = s[i]
BY UptoShape

\* The others.
LEMMA PastShape ==
  ASSUME NEW s \in Text, NEW k \in 0 .. Len(s)
  PROVE  /\ Past(s, k) \in Text /\ Len(Past(s, k)) = Len(s) - k
         /\ \A i \in 1 .. Len(s) - k : Past(s, k)[i] = s[k + i]
<1>1. Len(s) \in Nat /\ k \in Nat /\ k <= Len(s)
  BY Length
<1>2. \A i \in 1 .. Len(s) : s[i] \in Output \cup {"added"}
  BY ElementOfSeq DEF Text
<1>3. \A i \in k + 1 .. Len(s) : s[i] \in Output \cup {"added"}
  BY <1>1, <1>2
<1>4. /\ Past(s, k) \in Text
      /\ Len(Past(s, k)) = IF k + 1 <= Len(s) THEN Len(s) - (k + 1) + 1 ELSE 0
      /\ \A i \in 1 .. Len(s) - (k + 1) + 1 : Past(s, k)[i] = s[k + 1 + i - 1]
  BY <1>1, <1>3, SubSeqProperties DEF Past, Text
<1>5. ASSUME NEW i \in 1 .. Len(s) - k PROVE Past(s, k)[i] = s[k + i]
  <2>1. i \in 1 .. Len(s) - (k + 1) + 1 /\ k + 1 + i - 1 = k + i
    BY <1>1
  <2>2. QED
    BY <1>4, <2>1
<1>6. QED
  BY <1>1, <1>4, <1>5

LEMMA PastText ==
  ASSUME NEW s \in Text, NEW k \in 0 .. Len(s)
  PROVE  Past(s, k) \in Text
BY PastShape

LEMMA PastLength ==
  ASSUME NEW s \in Text, NEW k \in 0 .. Len(s)
  PROVE  Len(Past(s, k)) = Len(s) - k
BY PastShape

LEMMA PastAt ==
  ASSUME NEW s \in Text, NEW k \in 0 .. Len(s), NEW i \in 1 .. Len(s) - k
  PROVE  Past(s, k)[i] = s[k + i]
BY PastShape

LEMMA Joined ==
  ASSUME NEW s \in Text, NEW k \in 0 .. Len(s)
  PROVE  Upto(s, k) \o Past(s, k) = s
<1> DEFINE a == Upto(s, k)
           b == Past(s, k)
<1>1. Len(s) \in Nat /\ k \in Nat /\ k <= Len(s)
  BY Length
<1>2. a \in Text /\ Len(a) = k /\ \A i \in 1 .. k : a[i] = s[i]
  BY UptoShape
<1>3. b \in Text /\ Len(b) = Len(s) - k /\ \A i \in 1 .. Len(s) - k : b[i] = s[k + i]
  BY PastShape
<1> HIDE DEF a, b
<1>4. a \o b \in Text
  BY <1>2, <1>3, CatText
<1>5. Len(a \o b) = Len(s)
  BY <1>1, <1>2, <1>3, CatLength
<1>6. ASSUME NEW i \in 1 .. Len(s) PROVE (a \o b)[i] = s[i]
  <2>1. CASE i <= k
    <3>1. i \in 1 .. k /\ i \in 1 .. Len(a)
      BY <1>1, <1>2, <2>1
    <3>2. QED
      BY <1>2, <1>3, <3>1, CatFirst
  <2>2. CASE i > k
    <3>1. i - k \in 1 .. Len(s) - k /\ k + (i - k) = i
      BY <1>1, <2>2
    <3>2. (a \o b)[Len(a) + (i - k)] = b[i - k]
      BY <1>2, <1>3, <3>1, CatSecond
    <3>3. QED
      BY <1>2, <1>3, <3>1, <3>2
  <2>3. i \in Nat
    BY <1>1
  <2>4. i <= k \/ i > k
    BY <1>1, <2>3
  <2>5. QED
    BY <2>1, <2>2, <2>4, Zenon
<1>7. a \o b = s
  BY <1>4, <1>5, <1>6, SameText
<1>8. QED
  BY <1>7 DEF a, b

\* When a text is cut in two ways, once after a and once after c.
LEMMA OverlapFront ==
  ASSUME NEW a \in Text, NEW b \in Text, NEW c \in Text, NEW d \in Text,
         a \o b = c \o d, Len(a) <= Len(c)
  PROVE  a = Upto(c, Len(a))
<1>1. Len(a) \in Nat /\ Len(c) \in Nat /\ Len(a) \in 0 .. Len(c)
  BY Length
<1> DEFINE u == Upto(c, Len(a))
<1>2. u \in Text /\ Len(u) = Len(a) /\ \A i \in 1 .. Len(a) : u[i] = c[i]
  BY <1>1, UptoShape
<1> HIDE DEF u
<1>3. \A i \in 1 .. Len(a) : (a \o b)[i] = a[i]
  BY CatFirst
<1>4. \A i \in 1 .. Len(c) : (c \o d)[i] = c[i]
  BY CatFirst
<1>5. \A i \in 1 .. Len(a) : a[i] = u[i]
  BY <1>1, <1>2, <1>3, <1>4
<1>6. a = u
  BY <1>2, <1>5, SameText
<1>7. QED
  BY <1>6 DEF u

LEMMA OverlapRest ==
  ASSUME NEW a \in Text, NEW b \in Text, NEW c \in Text, NEW d \in Text,
         a \o b = c \o d, Len(a) <= Len(c)
  PROVE  b = Past(c, Len(a)) \o d
<1>1. Len(a) \in 0 .. Len(c)
  BY Length
<1> DEFINE p == Past(c, Len(a))
<1>2. p \in Text
  BY <1>1, PastText
<1>3. Upto(c, Len(a)) \o p = c
  BY <1>1, Joined
<1>4. a = Upto(c, Len(a))
  BY OverlapFront
<1> HIDE DEF p
<1>5. a \o p = c
  BY <1>3, <1>4
<1>6. (a \o p) \o d = a \o (p \o d)
  BY <1>2, Assoc
<1>7. a \o b = a \o (p \o d)
  BY <1>5, <1>6
<1>8. p \o d \in Text
  BY <1>2, CatText
<1>9. b = p \o d
  BY <1>7, <1>8, CancelLeft
<1>10. QED
  BY <1>9 DEF p

\* What is cut off the first of two.
LEMMA UptoCat ==
  ASSUME NEW a \in Text, NEW b \in Text, NEW k \in 0 .. Len(a)
  PROVE  Upto(a \o b, k) = Upto(a, k)
<1>1. a \o b \in Text /\ k \in 0 .. Len(a \o b)
  BY CatText, CatLength, Length
<1> DEFINE u == Upto(a \o b, k)
           p == Past(a \o b, k)
<1>2. u \in Text /\ p \in Text /\ Len(u) = k /\ u \o p = a \o b
  BY <1>1, UptoText, PastText, UptoLength, Joined
<1> HIDE DEF u, p
<1>3. Len(u) <= Len(a)
  BY <1>2, Length
<1>4. u = Upto(a, Len(u))
  BY <1>2, <1>3, OverlapFront
<1>5. QED
  BY <1>2, <1>4 DEF u

LEMMA PastCat ==
  ASSUME NEW a \in Text, NEW b \in Text, NEW k \in 0 .. Len(a)
  PROVE  Past(a \o b, k) = Past(a, k) \o b
<1>1. /\ Len(a) \in Nat /\ Len(b) \in Nat /\ Len(a \o b) = Len(a) + Len(b)
      /\ a \o b \in Text /\ k \in 0 .. Len(a \o b)
  BY CatText, CatLength, Length
<1> DEFINE p == Past(a \o b, k)
           q == Past(a, k)
<1>2. /\ p \in Text /\ Len(p) = Len(a) + Len(b) - k
      /\ \A m \in 1 .. Len(a) + Len(b) - k : p[m] = (a \o b)[k + m]
  <2>1. PICK w \in Text : w = a \o b
    BY <1>1
  <2>2. /\ Past(w, k) \in Text /\ Len(Past(w, k)) = Len(w) - k
        /\ \A m \in 1 .. Len(w) - k : Past(w, k)[m] = w[k + m]
    BY <1>1, <2>1, PastShape
  <2>3. QED
    BY <1>1, <2>1, <2>2
<1>3. q \in Text /\ Len(q) = Len(a) - k /\ \A m \in 1 .. Len(a) - k : q[m] = a[k + m]
  BY <1>1, PastShape
<1> HIDE DEF p, q
<1>4. q \o b \in Text /\ Len(q \o b) = Len(p)
  <2>1. q \o b \in Text
    BY <1>3, CatText
  <2>2. Len(q \o b) = Len(q) + Len(b)
    BY <1>3, CatLength
  <2>3. QED
    BY <1>1, <1>2, <1>3, <2>1, <2>2
<1>5. ASSUME NEW m \in 1 .. Len(p) PROVE p[m] = (q \o b)[m]
  <2>1. m \in Nat /\ m \in 1 .. Len(a) + Len(b) - k
    BY <1>1, <1>2
  <2>2. CASE m <= Len(q)
    <3>1. m \in 1 .. Len(q) /\ k + m \in 1 .. Len(a) /\ m \in 1 .. Len(a) - k
      BY <1>1, <1>3, <2>1, <2>2
    <3>2. (q \o b)[m] = q[m]
      BY <1>3, <3>1, CatFirst
    <3>3. (a \o b)[k + m] = a[k + m]
      BY <3>1, CatFirst
    <3>4. QED
      BY <1>2, <1>3, <2>1, <3>1, <3>2, <3>3
  <2>3. CASE m > Len(q)
    <3>1. /\ m - Len(q) \in 1 .. Len(b) /\ Len(q) + (m - Len(q)) = m
          /\ Len(a) + (m - Len(q)) = k + m
      BY <1>1, <1>3, <2>1, <2>3
    <3>2. (q \o b)[Len(q) + (m - Len(q))] = b[m - Len(q)]
      BY <1>3, <3>1, CatSecond
    <3>3. (a \o b)[Len(a) + (m - Len(q))] = b[m - Len(q)]
      BY <3>1, CatSecond
    <3>4. QED
      BY <1>2, <2>1, <3>1, <3>2, <3>3
  <2>4. Len(q) \in Nat
    BY <1>3, Length
  <2>5. m <= Len(q) \/ m > Len(q)
    BY <2>1, <2>4
  <2>6. QED
    BY <2>2, <2>3, <2>5, Zenon
<1>6. p = q \o b
  BY <1>2, <1>4, <1>5, SameText
<1>7. QED
  BY <1>6 DEF p, q

LEMMA PastPast ==
  ASSUME NEW s \in Text, NEW i \in Nat, NEW j \in Nat, i + j <= Len(s)
  PROVE  Past(Past(s, i), j) = Past(s, i + j)
<1>1. Len(s) \in Nat /\ i \in 0 .. Len(s) /\ i + j \in 0 .. Len(s)
  BY Length
<1> DEFINE p == Past(s, i)
           q == Past(s, i + j)
<1>2. p \in Text /\ Len(p) = Len(s) - i /\ \A m \in 1 .. Len(s) - i : p[m] = s[i + m]
  BY <1>1, PastShape
<1>3. /\ q \in Text /\ Len(q) = Len(s) - (i + j)
      /\ \A m \in 1 .. Len(s) - (i + j) : q[m] = s[i + j + m]
  BY <1>1, PastShape
<1> HIDE DEF p, q
<1>4. j \in 0 .. Len(p)
  BY <1>1, <1>2
<1>5. /\ Past(p, j) \in Text /\ Len(Past(p, j)) = Len(p) - j
      /\ \A m \in 1 .. Len(p) - j : Past(p, j)[m] = p[j + m]
  BY <1>2, <1>4, PastShape
<1>6. Len(Past(p, j)) = Len(q)
  BY <1>1, <1>2, <1>3, <1>5
<1>7. ASSUME NEW m \in 1 .. Len(Past(p, j)) PROVE Past(p, j)[m] = q[m]
  <2>1. m \in 1 .. Len(p) - j /\ m \in 1 .. Len(s) - (i + j) /\ j + m \in 1 .. Len(s) - i
        /\ i + (j + m) = i + j + m
    BY <1>1, <1>2, <1>5
  <2>2. QED
    BY <1>2, <1>3, <1>5, <2>1
<1>8. Past(p, j) = q
  BY <1>3, <1>5, <1>6, <1>7, SameText
<1>9. QED
  BY <1>8 DEF p, q

\* Nothing, or everything, is cut off.
LEMMA CutNone ==
  ASSUME NEW s \in Text
  PROVE  Upto(s, 0) = <<>> /\ Past(s, 0) = s
<1>1. Past(s, 0) = s
  BY SubSeqFull DEF Past, Text
<1>2. Upto(s, 0) = <<>>
  BY SubSeqEmpty DEF Upto
<1>3. QED
  BY <1>1, <1>2

LEMMA CutAll ==
  ASSUME NEW s \in Text
  PROVE  Upto(s, Len(s)) = s /\ Past(s, Len(s)) = <<>>
<1>1. Len(s) \in Nat
  BY Length
<1>2. Upto(s, Len(s)) = s
  BY SubSeqFull DEF Upto, Text
<1>3. Past(s, Len(s)) = <<>>
  BY <1>1, SubSeqEmpty DEF Past
<1>4. QED
  BY <1>2, <1>3

-----------------------------------------------------------------------------
(* What is shown                                                           *)

\* The definition of Shown, up to the token n.
IsShown(t, n, f) ==
  f = [i \in 0 .. n |-> IF i = 0 THEN <<>>
                        ELSE IF t[i] \in Output THEN Append(f[i - 1], t[i]) ELSE f[i - 1]]

LEMMA ShownExists ==
  ASSUME NEW t \in Text, NEW n \in Nat
  PROVE  \E f : IsShown(t, n, f)
<1> DEFINE Bad == {m \in Nat : ~\E f : IsShown(t, m, f)}
<1>1. SUFFICES ASSUME Bad # {} PROVE FALSE
  BY <1>1
<1>2. PICK m \in Bad : \A k \in Bad : m <= k
  BY <1>1, LeastExists
<1>3. m \in Nat /\ ~\E f : IsShown(t, m, f)
  BY <1>2
<1>4. CASE m = 0
  <2> DEFINE f == [i \in 0 .. 0 |-> <<>>]
  <2>1. IsShown(t, 0, f)
    <3>1. \A i \in 0 .. 0 : i = 0
      OBVIOUS
    <3>2. QED
      BY <3>1 DEF IsShown
  <2>2. QED
    BY <1>3, <1>4, <2>1
<1>5. CASE m # 0
  <2>1. m - 1 \in Nat /\ ~(m <= m - 1)
    BY <1>3, <1>5
  <2>2. m - 1 \notin Bad
    BY <1>2, <2>1
  <2>3. PICK f : IsShown(t, m - 1, f)
    BY <2>1, <2>2
  <2> DEFINE g == [i \in 0 .. m |-> IF i = m THEN IF t[m] \in Output THEN Append(f[m - 1], t[m]) ELSE f[m - 1]
                                    ELSE f[i]]
  <2>4. \A i \in 0 .. m : g[i] = IF i = 0 THEN <<>>
                        ELSE IF t[i] \in Output THEN Append(g[i - 1], t[i]) ELSE g[i - 1]
    <3>1. TAKE i \in 0 .. m
    <3>2. CASE i = 0
      <4>1. i # m /\ i \in 0 .. m - 1
        BY <1>3, <1>5, <3>2
      <4>2. QED
        BY <2>3, <3>2, <4>1 DEF IsShown
    <3>3. CASE i # 0 /\ i = m
      <4>1. i - 1 \in 0 .. m /\ i - 1 # m
        BY <1>3, <1>5, <3>3
      <4>2. QED
        BY <3>3, <4>1
    <3>4. CASE i # 0 /\ i # m
      <4>1. i \in 0 .. m - 1 /\ i - 1 \in 0 .. m /\ i - 1 # m
        BY <1>3, <1>5, <3>4
      <4>2. f[i] = IF t[i] \in Output THEN Append(f[i - 1], t[i]) ELSE f[i - 1]
        BY <2>3, <3>4, <4>1 DEF IsShown
      <4>3. g[i] = f[i] /\ g[i - 1] = f[i - 1]
        BY <3>4, <4>1
      <4>4. QED
        BY <3>4, <4>2, <4>3
    <3>5. QED
      BY <3>2, <3>3, <3>4
  <2>5. g = [i \in 0 .. m |-> g[i]]
    OBVIOUS
  <2> HIDE DEF g
  <2>6. IsShown(t, m, g)
    BY <2>4, <2>5 DEF IsShown
  <2>7. QED
    BY <1>3, <2>6
<1>6. QED
  BY <1>4, <1>5

LEMMA ShownStep ==
  ASSUME NEW t \in Text, NEW n \in Nat, NEW f, IsShown(t, n, f), NEW i \in 1 .. n
  PROVE  f[i] = IF t[i] \in Output THEN Append(f[i - 1], t[i]) ELSE f[i - 1]
<1>1. i \in 0 .. n /\ i # 0
  OBVIOUS
<1>2. QED
  BY <1>1 DEF IsShown

LEMMA ShownType ==
  ASSUME NEW t \in Text, NEW n \in Nat, NEW f, IsShown(t, n, f), NEW i \in 0 .. n
  PROVE  f[i] \in Seq(Output)
<1> DEFINE Bad == {j \in 0 .. n : f[j] \notin Seq(Output)}
<1>1. SUFFICES ASSUME Bad # {} PROVE FALSE
  BY <1>1
<1>2. PICK j \in Bad : \A k \in Bad : j <= k
  <2>1. Bad \in SUBSET Nat
    OBVIOUS
  <2>2. QED
    BY <1>1, <2>1, LeastExists
<1>3. j \in 0 .. n /\ f[j] \notin Seq(Output)
  BY <1>2
<1>4. f[0] = <<>> /\ <<>> \in Seq(Output)
  BY EmptySeq DEF IsShown
<1>5. j # 0
  BY <1>3, <1>4
<1>6. j \in 1 .. n /\ j - 1 \in 0 .. n /\ ~(j <= j - 1)
  BY <1>3, <1>5
<1>7. f[j - 1] \in Seq(Output)
  BY <1>2, <1>6
<1>8. f[j] = IF t[j] \in Output THEN Append(f[j - 1], t[j]) ELSE f[j - 1]
  BY <1>6, ShownStep
<1>9. QED
  BY <1>3, <1>7, <1>8

\* It depends on the tokens before alone.
LEMMA ShownSame ==
  ASSUME NEW t \in Text, NEW n \in Nat, NEW f, IsShown(t, n, f),
         NEW u \in Text, NEW m \in Nat, NEW g, IsShown(u, m, g),
         n <= m, \A i \in 1 .. n : t[i] = u[i],
         NEW i \in 0 .. n
  PROVE  f[i] = g[i]
<1> DEFINE Bad == {j \in 0 .. n : f[j] # g[j]}
<1>1. SUFFICES ASSUME Bad # {} PROVE FALSE
  BY <1>1
<1>2. PICK j \in Bad : \A k \in Bad : j <= k
  <2>1. Bad \in SUBSET Nat
    OBVIOUS
  <2>2. QED
    BY <1>1, <2>1, LeastExists
<1>3. j \in 0 .. n /\ f[j] # g[j]
  BY <1>2
<1>4. f[0] = <<>> /\ g[0] = <<>>
  BY DEF IsShown
<1>5. j # 0
  BY <1>3, <1>4
<1>6. j \in 1 .. n /\ j \in 1 .. m /\ j - 1 \in 0 .. n /\ ~(j <= j - 1)
  BY <1>3, <1>5
<1>7. f[j - 1] = g[j - 1]
  BY <1>2, <1>6
<1>8. f[j] = IF t[j] \in Output THEN Append(f[j - 1], t[j]) ELSE f[j - 1]
  BY <1>6, ShownStep
<1>9. g[j] = IF u[j] \in Output THEN Append(g[j - 1], u[j]) ELSE g[j - 1]
  BY <1>6, ShownStep
<1>10. t[j] = u[j]
  BY <1>6
<1>11. QED
  BY <1>3, <1>7, <1>8, <1>9, <1>10

LEMMA ShownOf ==
  ASSUME NEW t \in Text
  PROVE  \E f : IsShown(t, Len(t), f) /\ Shown(t) = f[Len(t)]
<1> DEFINE f == CHOOSE g : IsShown(t, Len(t), g)
<1>1. IsShown(t, Len(t), f)
  BY ShownExists, Length
<1>2. Shown(t) = f[Len(t)]
  BY DEF Shown, IsShown
<1>3. QED
  BY <1>1, <1>2

LEMMA ShownIs ==
  ASSUME NEW t \in Text, NEW f, IsShown(t, Len(t), f)
  PROVE  Shown(t) = f[Len(t)]
<1>1. PICK g : IsShown(t, Len(t), g) /\ Shown(t) = g[Len(t)]
  BY ShownOf
<1>2. Len(t) \in Nat /\ Len(t) \in 0 .. Len(t)
  BY Length
<1>3. \A i \in 1 .. Len(t) : t[i] = t[i]
  OBVIOUS
<1>4. f[Len(t)] = g[Len(t)]
  BY <1>1, <1>2, <1>3, ShownSame
<1>5. QED
  BY <1>1, <1>4

LEMMA ShownText ==
  ASSUME NEW t \in Text
  PROVE  Shown(t) \in Seq(Output)
<1>1. PICK f : IsShown(t, Len(t), f) /\ Shown(t) = f[Len(t)]
  BY ShownOf
<1>2. Len(t) \in Nat /\ Len(t) \in 0 .. Len(t)
  BY Length
<1>3. QED
  BY <1>1, <1>2, ShownType

LEMMA ShownNil == Shown(<<>>) = <<>>
<1>1. <<>> \in Text /\ Len(<<>>) = 0
  BY NilIsText
<1>2. PICK f : IsShown(<<>>, Len(<<>>), f) /\ Shown(<<>>) = f[Len(<<>>)]
  BY <1>1, ShownOf
<1>3. f[0] = <<>>
  BY <1>1, <1>2 DEF IsShown
<1>4. QED
  BY <1>1, <1>2, <1>3

LEMMA OutputText ==
  ASSUME NEW s \in Seq(Output)
  PROVE  s \in Text
<1>1. \A i \in 1 .. Len(s) : s[i] \in Output \cup {"added"}
  BY ElementOfSeq
<1>2. QED
  BY <1>1, LenProperties, SeqDef DEF Text

LEMMA OutputAt ==
  ASSUME NEW s \in Seq(Output), NEW i \in 1 .. Len(s)
  PROVE  s[i] \in Output
BY ElementOfSeq

LEMMA TextIsOutput ==
  ASSUME NEW s \in Text, \A i \in 1 .. Len(s) : s[i] \in Output
  PROVE  s \in Seq(Output)
BY LenProperties, SeqDef DEF Text

LEMMA AppendText ==
  ASSUME NEW s \in Text, NEW e \in Output \cup {"added"}
  PROVE  Append(s, e) \in Text
BY AppendProperties DEF Text

LEMMA AppendLength ==
  ASSUME NEW s \in Text, NEW e \in Output \cup {"added"}
  PROVE  Len(Append(s, e)) = Len(s) + 1
BY AppendProperties DEF Text

LEMMA AppendAt ==
  ASSUME NEW s \in Text, NEW e \in Output \cup {"added"}, NEW i \in 1 .. Len(s)
  PROVE  Append(s, e)[i] = s[i]
BY AppendProperties DEF Text

LEMMA AppendLast ==
  ASSUME NEW s \in Text, NEW e \in Output \cup {"added"}
  PROVE  Append(s, e)[Len(s) + 1] = e
BY AppendProperties DEF Text

LEMMA UptoNext ==
  ASSUME NEW s \in Text, NEW k \in 1 .. Len(s)
  PROVE  Upto(s, k) = Append(Upto(s, k - 1), s[k])
<1>1. Len(s) \in Nat /\ k \in 0 .. Len(s) /\ k - 1 \in 0 .. Len(s) /\ k - 1 + 1 = k
  BY Length
<1> DEFINE u == Upto(s, k)
           p == Upto(s, k - 1)
<1>2. u \in Text /\ Len(u) = k /\ \A i \in 1 .. k : u[i] = s[i]
  BY <1>1, UptoShape
<1>3. p \in Text /\ Len(p) = k - 1 /\ \A i \in 1 .. k - 1 : p[i] = s[i]
  BY <1>1, UptoShape
<1> HIDE DEF u, p
<1>4. s[k] \in Output \cup {"added"}
  BY ElementOfSeq DEF Text
<1>5. /\ Append(p, s[k]) \in Text /\ Len(Append(p, s[k])) = k
      /\ \A i \in 1 .. k - 1 : Append(p, s[k])[i] = p[i]
      /\ Append(p, s[k])[k] = s[k]
  <2>1. Append(p, s[k]) \in Text /\ Len(Append(p, s[k])) = Len(p) + 1
    BY <1>3, <1>4, AppendText, AppendLength
  <2>2. \A i \in 1 .. Len(p) : Append(p, s[k])[i] = p[i]
    BY <1>3, <1>4, AppendAt
  <2>3. Append(p, s[k])[Len(p) + 1] = s[k]
    BY <1>3, <1>4, AppendLast
  <2>4. QED
    BY <1>1, <1>3, <2>1, <2>2, <2>3
<1>6. ASSUME NEW i \in 1 .. k PROVE u[i] = Append(p, s[k])[i]
  <2>1. i \in 1 .. k - 1 \/ i = k
    BY <1>1
  <2>2. QED
    BY <1>2, <1>3, <1>5, <2>1
<1>7. u = Append(p, s[k])
  BY <1>2, <1>5, <1>6, SameText
<1>8. QED
  BY <1>7 DEF u, p

LEMMA ShownCat ==
  ASSUME NEW a \in Text, NEW b \in Seq(Output)
  PROVE  Shown(a \o b) = Shown(a) \o b
<1>1. b \in Text
  BY OutputText
<1>2. Len(a) \in Nat /\ Len(b) \in Nat
  BY <1>1, Length
<1>3. PICK w \in Text : w = a \o b
  BY <1>1, CatText
<1>4. Len(w) = Len(a) + Len(b) /\ Len(w) \in Nat
  BY <1>1, <1>2, <1>3, CatLength
<1>5. \A i \in 1 .. Len(a) : a[i] = w[i]
  BY <1>1, <1>3, CatFirst
<1>6. \A i \in 1 .. Len(b) : w[Len(a) + i] = b[i]
  BY <1>1, <1>3, CatSecond
<1>7. PICK g : IsShown(a, Len(a), g) /\ Shown(a) = g[Len(a)]
  BY ShownOf
<1>8. PICK f : IsShown(w, Len(w), f) /\ Shown(w) = f[Len(w)]
  BY ShownOf
<1>9. f[Len(a)] = Shown(a)
  <2>1. Len(a) \in 0 .. Len(a) /\ Len(a) <= Len(w)
    BY <1>2, <1>4
  <2>2. g[Len(a)] = f[Len(a)]
    BY <1>2, <1>4, <1>5, <1>7, <1>8, <2>1, ShownSame
  <2>3. QED
    BY <1>7, <2>2
<1> DEFINE G == Shown(a)
<1>10. G \in Seq(Output) /\ G \in Text /\ Len(G) \in Nat
  BY ShownText, OutputText, Length
<1> HIDE DEF G
<1>11. PICK r \in Text : r = G \o b
  BY <1>1, <1>10, CatText
<1>12. Len(r) = Len(G) + Len(b)
  BY <1>1, <1>10, <1>11, CatLength
<1>13. Upto(r, Len(G)) = G
  <2>1. Len(G) \in 0 .. Len(G)
    BY <1>10
  <2>2. Upto(G \o b, Len(G)) = Upto(G, Len(G))
    BY <1>1, <1>10, <2>1, UptoCat
  <2>3. Upto(G, Len(G)) = G
    BY <1>10, CutAll
  <2>4. QED
    BY <1>11, <2>2, <2>3
<1> DEFINE Bad == {k \in 0 .. Len(b) : f[Len(a) + k] # Upto(r, Len(G) + k)}
<1>14. Bad = {}
  <2>1. SUFFICES ASSUME Bad # {} PROVE FALSE
    BY <2>1
  <2>2. PICK k \in Bad : \A j \in Bad : k <= j
    <3>1. Bad \in SUBSET Nat
      BY <1>2
    <3>2. QED
      BY <2>1, <3>1, LeastExists
  <2>3. k \in 0 .. Len(b) /\ f[Len(a) + k] # Upto(r, Len(G) + k)
    BY <2>2
  <2>4. k # 0
    <3>1. Len(a) + 0 = Len(a) /\ Len(G) + 0 = Len(G)
      BY <1>2, <1>10
    <3>2. QED
      BY <1>9, <1>13, <2>3, <3>1 DEF G
  <2>5. /\ k \in 1 .. Len(b) /\ k - 1 \in 0 .. Len(b) /\ ~(k <= k - 1)
        /\ Len(a) + k \in 1 .. Len(w) /\ Len(a) + k - 1 = Len(a) + (k - 1)
        /\ Len(G) + k \in 1 .. Len(r) /\ Len(G) + k - 1 = Len(G) + (k - 1)
    BY <1>2, <1>4, <1>10, <1>12, <2>3, <2>4
  <2>6. f[Len(a) + (k - 1)] = Upto(r, Len(G) + (k - 1))
    BY <2>2, <2>5
  <2> HIDE DEF Bad
  <2>7. w[Len(a) + k] = b[k] /\ b[k] \in Output
    BY <1>6, <2>5, OutputAt
  <2>8. \A i \in 1 .. Len(w) : w[i] \in Output => f[i] = Append(f[i - 1], w[i])
    BY <1>4, <1>8, ShownStep
  <2>12. f[Len(a) + k] = Append(f[Len(a) + k - 1], w[Len(a) + k])
    BY <2>5, <2>7, <2>8
  <2>9. r[Len(G) + k] = b[k]
    BY <1>1, <1>10, <1>11, <2>5, CatSecond
  <2>10. Upto(r, Len(G) + k) = Append(Upto(r, Len(G) + k - 1), r[Len(G) + k])
    BY <2>5, UptoNext
  <2>11. QED
    BY <2>3, <2>5, <2>6, <2>7, <2>9, <2>10, <2>12
<1>15. f[Len(a) + Len(b)] = Upto(r, Len(G) + Len(b))
  <2>1. Len(b) \in 0 .. Len(b)
    BY <1>2
  <2>2. QED
    BY <1>14, <2>1
<1>16. Upto(r, Len(r)) = r
  BY CutAll
<1>17. QED
  BY <1>3, <1>4, <1>8, <1>11, <1>12, <1>15, <1>16 DEF G

\* The end of line that venv adds is not shown.
LEMMA ShownEndLine ==
  ASSUME NEW t \in Text
  PROVE  EndLine(t) \in Text /\ Shown(EndLine(t)) = Shown(t)
<1>1. CASE EndLine(t) = t
  BY <1>1
<1>2. CASE EndLine(t) = Append(t, "added")
  <2>1. PICK u \in Text : u = Append(t, "added")
    BY AppendText
  <2>2. Len(u) = Len(t) + 1 /\ Len(t) \in Nat /\ Len(u) \in 1 .. Len(u) /\ Len(u) - 1 = Len(t)
    BY <2>1, AppendLength, Length
  <2>3. u[Len(u)] \notin Output
    <3>1. u[Len(u)] = "added"
      BY <2>1, <2>2, AppendLast
    <3>2. QED
      BY <3>1, ValuesAssumption DEF Output, Words, Digit
  <2>4. PICK f : IsShown(u, Len(u), f) /\ Shown(u) = f[Len(u)]
    BY ShownOf
  <2>5. PICK g : IsShown(t, Len(t), g) /\ Shown(t) = g[Len(t)]
    BY ShownOf
  <2>6. f[Len(u)] = f[Len(t)]
    BY <2>2, <2>3, <2>4, ShownStep
  <2>7. \A i \in 1 .. Len(t) : t[i] = u[i]
    BY <2>1, AppendAt
  <2>8. g[Len(t)] = f[Len(t)]
    <3>1. Len(t) \in 0 .. Len(t) /\ Len(t) <= Len(u) /\ Len(u) \in Nat
      BY <2>2
    <3>2. QED
      BY <2>2, <2>4, <2>5, <2>7, <3>1, ShownSame
  <2>9. QED
    BY <1>2, <2>1, <2>4, <2>5, <2>6, <2>8
<1>3. QED
  BY <1>1, <1>2 DEF EndLine

-----------------------------------------------------------------------------
(* The invariant                                                           *)

Input == [op : {"cmd", "off", "probe", "begin", "set", "end"}, n : Nat,
          kind : Kinds \cup Values \cup {""}]

CallType == [op : {"none", "open", "run", "dump", "close"}, left : Seq(Input), got : Seq(Output),
             inBlock : BOOLEAN, code : Nat, ok : BOOLEAN]
HandleType == [open : BOOLEAN, dead : BOOLEAN, in : BOOLEAN, pending : Seq(Output)]
ShType == [state : {"none", "runs", "swallows", "gone"}, last : 0 .. 99, code : Nat,
           echo : BOOLEAN, ate : BOOLEAN, noisy : BOOLEAN, hidden : Nat, env : Values,
           writing : Seq(Output)]

TypeOK ==
  /\ at \in {"config", "write", "status", "dump", "drain", "return"}
  /\ call \in CallType
  /\ handle \in HandleType
  /\ sh \in ShType
  /\ stdin \in Seq(Input) /\ out \in Seq(Output) /\ daemon \in BOOLEAN
  /\ term \in Text
  /\ calls \in Nat /\ wrote \in Seq(Output) /\ asked \in Nat /\ ran \in Seq(Nat)
  /\ answers \in Seq(Nat)

\* A call that waits for a status, or for a dump.
Probing == call.op \in {"open", "run"} /\ at \in {"write", "status"}
Dumping == call.op = "dump" /\ at \in {"write", "dump"}

Handles ==
  /\ at = "config" <=> call.op = "none"
  /\ at = "drain" => call.op = "close"
  /\ at \in {"write", "status", "dump"} => (Probing \/ Dumping) /\ call.ok /\ ~handle.dead
  /\ at = "write" => call.left # <<>>
  /\ at \notin {"write", "return"} => call.left = <<>>
  /\ call.op \in {"open", "run", "dump"} \/ at = "drain" => handle.open
  /\ at = "return" /\ call.op = "close" => ~handle.open
  /\ handle.open => sh.state # "none" /\ (call.op # "close" => handle.in)
  /\ ~handle.open => daemon = FALSE /\ out = <<>> /\ handle.pending = <<>> /\ ~Alive
  /\ handle.dead => handle.open /\ ~Alive /\ daemon = FALSE
  /\ ~Alive => sh.writing = <<>>

\* The command that is called has run.
HasRun == \E i \in DOMAIN ran : ran[i] = asked

Counted ==
  /\ \A i \in DOMAIN ran : ran[i] <= asked
  /\ Len(answers) = IF call.op = "run" THEN asked - 1 ELSE asked
  /\ call.op = "run" => asked > 0

\* The lines that the shell has not read yet.
Sent == stdin \o call.left
Cmd(kind) == [op |-> "cmd", n |-> asked, kind |-> kind]

Lines ==
  Alive =>
    /\ Probing /\ call.op = "open" =>
         Sent \in {<<Line("off"), Line("probe")>>, <<Line("probe")>>, <<>>}
    /\ Probing /\ call.op = "run" =>
         \/ /\ \E kind \in Kinds \cup Values : Sent = <<Cmd(kind), Line("probe")>>
            /\ ~HasRun /\ sh.state = "runs"
         \/ Sent \in {<<Line("probe")>>, <<>>} /\ HasRun /\ sh.last = Own(asked)
    /\ Dumping => Sent \in {<<Line("begin"), Line("set"), Line("end")>>,
                            <<Line("set"), Line("end")>>, <<Line("end")>>, <<>>}
    /\ ~Probing /\ ~Dumping => Sent = <<>>
    /\ sh.state = "swallows" => Probing /\ call.op = "run" /\ Sent = <<Line("probe")>>

\* What the shell has written and venv has not dealt with.
Unread == handle.pending \o out
Stream == Unread \o sh.writing

\* Neither a digit nor the start of a dump.
Calm == Output \ (Digit \cup {"BEGIN"})
Quiet(s, k) == \A i \in 1 .. k : s[i] \in Calm
\* From there on, s is the start of t.
Spells(s, k, t) == Len(s) - k <= Len(t) /\ \A i \in k + 1 .. Len(s) : s[i] = t[i - k]

Status(code) == Marker \o Decimal(code) \o EndOfLine

StatusAfter(k) ==
  /\ at = "status"
  /\ Quiet(Stream, k)
  /\ Spells(Stream, k, Status(sh.last))
  /\ IF Alive THEN Len(Stream) = k + Len(Status(sh.last)) /\ Sent = <<>>
     ELSE sh.code = KILLED /\ sh.noisy
  /\ call.op = "run" => HasRun /\ sh.last = Own(asked)

Echoed == <<"text", "BEGIN", "nl", "BEGIN", "cr", "nl", "text", "nl", sh.env, "cr", "nl",
            "text", "END", "nl", "END", "cr", "nl">>
Plain == <<"BEGIN", "cr", "nl", sh.env, "cr", "nl", "END", "cr", "nl">>
Block == IF sh.echo THEN Echoed ELSE Plain
EndAt == IF sh.echo THEN 13 ELSE 7
\* How much of it the shell has said.
Said == CASE Len(Sent) = 3 -> 0
          [] Len(Sent) = 2 -> IF sh.echo THEN 6 ELSE 3
          [] Len(Sent) = 1 -> IF sh.echo THEN 11 ELSE 6
          [] OTHER -> IF sh.echo THEN 17 ELSE 9

DumpAfter(k) ==
  /\ call.got = <<>>
  /\ Quiet(Stream, k)
  /\ Spells(Stream, k, Block)
  /\ Alive => Len(Stream) = k + Said

InDump ==
  LET g == 3 + Len(call.got)
  IN /\ \A i \in DOMAIN call.got : call.got[i] = Block[3 + i]
     /\ \A i \in 1 .. Len(Stream) : Stream[i] = Block[g + i]
     /\ g < EndAt /\ g + Len(Stream) <= Len(Block)
     /\ Alive => g + Len(Stream) = Said

Streams ==
  ~handle.dead =>
    /\ Dumping => IF call.inBlock THEN InDump ELSE \E k \in 0 .. Len(Stream) : DumpAfter(k)
    /\ Probing => Quiet(Stream, Len(Stream)) \/ \E k \in 0 .. Len(Stream) : StatusAfter(k)
    /\ ~Dumping /\ ~Probing => Quiet(Stream, Len(Stream))

Ended ==
  /\ sh.state = "gone" /\ handle.open /\ ~handle.dead /\ call.op # "close" =>
        \/ sh.code = KILLED /\ sh.noisy
        \/ Probing /\ call.op = "run" /\ sh.code = Own(asked) /\ HasRun
  /\ at = "return" /\ call.op = "run" =>
        IF call.ok THEN (call.code = Own(asked) /\ HasRun) \/ (call.code = KILLED /\ ~Alive)
        ELSE ~Alive
  /\ DumpIsLive

Least(a, b) == IF a < b THEN a ELSE b

\* While the stream is output, while a status is outstanding, and during a dump.
ShowingOutput ==
  /\ Quiet(Stream, Len(Stream)) /\ Shown(term) \o Unread = wrote
  /\ sh.writing # <<>> => sh.hidden = 0
ShowingStatus(k) ==
  /\ StatusAfter(k) /\ sh.hidden = Len(Status(sh.last))
  /\ Shown(term) \o Upto(Unread, Least(k, Len(Unread))) = wrote
ShowingDump ==
  /\ Shown(term) = wrote /\ sh.hidden >= Len(sh.writing)
  /\ Len(Sent) < 3 => ~sh.echo
  /\ call.inBlock \/ DumpAfter(0)

Showing ==
  ~sh.noisy =>
    /\ ~Dumping /\ ~Probing => Stream = <<>> /\ Shown(term) = wrote
    /\ sh.state = "gone" => Stream = <<>>
    /\ Probing /\ call.op = "run" /\ ~HasRun => Stream = <<>>
    /\ Probing => ShowingOutput \/ \E k \in 0 .. Len(Stream) : ShowingStatus(k)
    /\ Dumping => ShowingDump

IInv == TypeOK /\ Handles /\ Counted /\ Lines /\ Streams /\ Ended /\ Showing

-----------------------------------------------------------------------------
(* Statuses                                                                *)

LEMMA FirstIn ==
  ASSUME NEW S \in SUBSET Nat, S # {}
  PROVE  First(S) \in S /\ \A j \in S : First(S) <= j
<1>1. \E i \in S : \A j \in S : i <= j
  BY LeastExists
<1>2. QED
  BY <1>1 DEF First

LEMMA FirstIs ==
  ASSUME NEW S \in SUBSET Nat, NEW m \in S, \A j \in S : m <= j
  PROVE  First(S) = m
<1>1. First(S) \in S /\ First(S) <= m
  BY FirstIn
<1>2. m <= First(S) /\ First(S) \in Nat /\ m \in Nat
  BY <1>1
<1>3. QED
  BY <1>1, <1>2

\* Where the number after a marker at i ends.
LEMMA NumberEndIn ==
  ASSUME NEW s \in Text, NEW i \in Nat, i < Len(s)
  PROVE  /\ NumberEnd(s, i) \in i + 2 .. Len(s) + 1
         /\ \A j \in i + 2 .. Len(s) : j < NumberEnd(s, i) => s[j] \in Digit
         /\ NumberEnd(s, i) <= Len(s) => s[NumberEnd(s, i)] \notin Digit
<1> DEFINE P == {j \in i + 2 .. Len(s) : s[j] \notin Digit} \cup {Len(s) + 1}
<1>1. Len(s) \in Nat
  BY Length
<1>2. P \in SUBSET Nat /\ P # {} /\ P \subseteq i + 2 .. Len(s) + 1
  BY <1>1
<1>3. NumberEnd(s, i) = First(P)
  BY DEF NumberEnd, First
<1>4. First(P) \in P /\ \A j \in P : First(P) <= j
  BY <1>2, FirstIn
<1>5. First(P) \in i + 2 .. Len(s) + 1
  BY <1>2, <1>4
<1>6. ASSUME NEW j \in i + 2 .. Len(s), j < First(P) PROVE s[j] \in Digit
  <2>1. ~(First(P) <= j)
    BY <1>1, <1>5, <1>6
  <2>2. j \notin P
    BY <1>4, <2>1
  <2>3. QED
    BY <2>2
<1>7. ASSUME First(P) <= Len(s) PROVE s[First(P)] \notin Digit
  <2>1. First(P) # Len(s) + 1
    BY <1>1, <1>5, <1>7
  <2>2. QED
    BY <1>4, <2>1
<1>8. QED
  BY <1>3, <1>5, <1>6, <1>7

LEMMA NumberEndIs ==
  ASSUME NEW s \in Text, NEW i \in Nat, i < Len(s), NEW e \in i + 2 .. Len(s) + 1,
         \A j \in i + 2 .. Len(s) : j < e => s[j] \in Digit,
         e <= Len(s) => s[e] \notin Digit
  PROVE  NumberEnd(s, i) = e
<1>1. Len(s) \in Nat
  BY Length
<1>2. PICK n \in i + 2 .. Len(s) + 1 : n = NumberEnd(s, i)
  BY NumberEndIn
<1>3. /\ \A j \in i + 2 .. Len(s) : j < n => s[j] \in Digit
      /\ n <= Len(s) => s[n] \notin Digit
  BY <1>2, NumberEndIn
<1>4. ~(n < e)
  <2>1. SUFFICES ASSUME n < e PROVE FALSE
    OBVIOUS
  <2>2. n \in i + 2 .. Len(s) /\ n <= Len(s)
    BY <1>1, <2>1
  <2>3. QED
    BY <1>3, <2>1, <2>2
<1>5. ~(e < n)
  <2>1. SUFFICES ASSUME e < n PROVE FALSE
    OBVIOUS
  <2>2. e \in i + 2 .. Len(s) /\ e <= Len(s)
    BY <1>1, <2>1
  <2>3. QED
    BY <1>3, <2>1, <2>2
<1>6. QED
  BY <1>1, <1>2, <1>4, <1>5

Width(v) == IF v < 10 THEN 1 ELSE 2

LEMMA DigitValueOf ==
  ASSUME NEW d \in 0 .. 9
  PROVE  DigitValue(Digits[d + 1]) = d
<1>1. \A v \in 0 .. 9 : Digits[v + 1] = Digits[d + 1] => v = d
  BY DEF Digits
<1>2. QED
  BY <1>1 DEF DigitValue

LEMMA DigitsDigit ==
  ASSUME NEW d \in 0 .. 9
  PROVE  Digits[d + 1] \in Digit
BY DEF Digits, Digit

LEMMA StatusLength ==
  ASSUME NEW v \in 0 .. 99
  PROVE  Len(Status(v)) = 4 + Width(v)
BY DEF Status, Marker, Decimal, EndOfLine, Width

LEMMA StatusAt1 ==
  ASSUME NEW v \in 0 .. 99
  PROVE  Status(v)[1] = "M1" /\ Status(v)[2] = "M2"
BY DEF Status, Marker, Decimal, EndOfLine

LEMMA StatusEnd ==
  ASSUME NEW v \in 0 .. 99
  PROVE  Status(v)[3 + Width(v)] = "cr" /\ Status(v)[4 + Width(v)] = "nl"
BY DEF Status, Marker, Decimal, EndOfLine, Width

LEMMA StatusDigits ==
  ASSUME NEW v \in 0 .. 99
  PROVE  IF v < 10 THEN Status(v)[3] = Digits[v + 1]
         ELSE Status(v)[3] = Digits[(v \div 10) + 1] /\ Status(v)[4] = Digits[(v % 10) + 1]
BY DEF Status, Marker, Decimal, EndOfLine

\* The tokens of s are no digits, and then the start of a status.
Begins(s, k, v) ==
  /\ k \in Nat /\ v \in 0 .. 99
  /\ Len(s) <= k + Len(Status(v))
  /\ \A i \in 1 .. Len(s) : i <= k => s[i] \notin Digit
  /\ \A i \in 1 .. Len(s) : i > k => s[i] = Status(v)[i - k]

LEMMA CodeIsNat ==
  ASSUME NEW v \in 0 .. 99
  PROVE  v \in Nat
OBVIOUS

LEMMA OneDigit ==
  ASSUME NEW v \in 0 .. 99, v < 10
  PROVE  v \in 0 .. 9
OBVIOUS

LEMMA WidthIs ==
  ASSUME NEW v \in 0 .. 99
  PROVE  Width(v) \in {1, 2}
BY DEF Width

LEMMA BeginsBounds ==
  ASSUME NEW s \in Text, NEW k, NEW v, Begins(s, k, v)
  PROVE  /\ Len(s) \in Nat /\ k \in Nat /\ v \in 0 .. 99 /\ Len(s) <= k + 4 + Width(v)
         /\ Width(v) \in {1, 2} /\ Len(Status(v)) = 4 + Width(v)
<1>1. k \in Nat /\ v \in 0 .. 99 /\ Len(s) <= k + Len(Status(v))
  BY DEF Begins
<1>2. Len(s) \in Nat
  BY Length
<1>3. Width(v) \in {1, 2} /\ Len(Status(v)) = 4 + Width(v)
  BY <1>1, StatusLength, WidthIs
<1>4. QED
  BY <1>1, <1>2, <1>3

LEMMA BeginsAt ==
  ASSUME NEW s \in Text, NEW k, NEW v, Begins(s, k, v), NEW j \in Nat \ {0}, k + j <= Len(s)
  PROVE  s[k + j] = Status(v)[j]
<1>1. PICK i \in Nat : i = k + j
  BY BeginsBounds
<1>2. i \in 1 .. Len(s) /\ i > k /\ i - k = j
  BY <1>1, BeginsBounds
<1>3. s[i] = Status(v)[i - k]
  BY <1>2 DEF Begins
<1>4. QED
  BY <1>1, <1>2, <1>3

LEMMA StatusTokens ==
  ASSUME NEW v \in 0 .. 99, NEW i \in 1 .. 4 + Width(v)
  PROVE  /\ Status(v)[i] = "M1" <=> i = 1
         /\ Status(v)[i] = "nl" <=> i = 4 + Width(v)
         /\ Status(v)[i] \in Digit <=> i \in 3 .. 2 + Width(v)
<1>1. Status(v)[1] = "M1" /\ Status(v)[2] = "M2"
  BY StatusAt1
<1>2. Status(v)[3 + Width(v)] = "cr" /\ Status(v)[4 + Width(v)] = "nl"
  BY StatusEnd
<1>3. CASE v < 10
  <2>1. Width(v) = 1
    BY <1>3 DEF Width
  <2>2. Status(v)[3] \in Digit
    BY <1>3, StatusDigits, DigitsDigit
  <2>3. i \in {1, 2, 3, 4, 5}
    BY <2>1
  <2>4. QED
    BY <1>1, <1>2, <2>1, <2>2, <2>3 DEF Digit
<1>4. CASE v >= 10
  <2>1. Width(v) = 2
    BY <1>4 DEF Width
  <2>2. Status(v)[3] \in Digit /\ Status(v)[4] \in Digit
    <3>1. v \div 10 \in 0 .. 9 /\ v % 10 \in 0 .. 9
      OBVIOUS
    <3>2. QED
      BY <1>4, <3>1, StatusDigits, DigitsDigit
  <2>3. i \in {1, 2, 3, 4, 5, 6}
    BY <2>1
  <2>4. QED
    BY <1>1, <1>2, <2>1, <2>2, <2>3 DEF Digit
<1>5. QED
  BY <1>3, <1>4

\* A number after a marker.
LEMMA NumberBegins ==
  ASSUME NEW s \in Text, NEW i \in 1 .. Len(s), StatusAt(s, i)
  PROVE  i + 2 \in 1 .. Len(s) /\ s[i] = "M1" /\ s[i + 2] \in Digit
<1>1. Len(s) \in Nat /\ i \in Nat
  BY Length
<1>2. i < Len(s) /\ s[i] = "M1" /\ NumberEnd(s, i) > i + 2
  BY DEF StatusAt, MarkerAt
<1>3. PICK n \in i + 2 .. Len(s) + 1 : n = NumberEnd(s, i)
  BY <1>1, <1>2, NumberEndIn
<1>4. \A j \in i + 2 .. Len(s) : j < n => s[j] \in Digit
  BY <1>1, <1>2, <1>3, NumberEndIn
<1>5. i + 2 \in i + 2 .. Len(s) /\ i + 2 < n
  BY <1>1, <1>2, <1>3
<1>6. QED
  BY <1>1, <1>2, <1>4, <1>5

LEMMA NoStatus ==
  ASSUME NEW s \in Text, \A i \in 1 .. Len(s) : s[i] \notin Digit
  PROVE  FindStatus(s) = 0
<1>1. {i \in DOMAIN s : StatusAt(s, i)} = {}
  BY NumberBegins, Domain
<1>2. QED
  BY <1>1 DEF FindStatus

\* There is one place for a status.
LEMMA StatusPlace ==
  ASSUME NEW s \in Text, NEW k, NEW v, Begins(s, k, v), NEW i \in 1 .. Len(s), StatusAt(s, i)
  PROVE  i = k + 1 /\ k + 3 <= Len(s)
<1>1. /\ Len(s) \in Nat /\ k \in Nat /\ v \in 0 .. 99 /\ Len(s) <= k + 4 + Width(v)
      /\ Width(v) \in {1, 2}
  BY BeginsBounds
<1>2. i + 2 \in 1 .. Len(s) /\ s[i] = "M1" /\ s[i + 2] \in Digit
  BY NumberBegins
<1>3. i + 2 > k
  BY <1>1, <1>2 DEF Begins
<1>4. i + 2 - k \in 1 .. 4 + Width(v)
  BY <1>1, <1>2, <1>3
<1>5. Status(v)[i + 2 - k] \in Digit
  BY <1>2, <1>3 DEF Begins
<1>6. i + 2 - k \in 3 .. 2 + Width(v)
  BY <1>1, <1>4, <1>5, StatusTokens
<1>7. i > k /\ i - k \in 1 .. 4 + Width(v)
  BY <1>1, <1>6
<1>8. Status(v)[i - k] = "M1"
  BY <1>2, <1>7 DEF Begins
<1>9. i - k = 1
  BY <1>1, <1>7, <1>8, StatusTokens
<1>10. QED
  BY <1>1, <1>2, <1>9

\* There the number ends before the end of the line, or where s does.
LEMMA StatusNumber ==
  ASSUME NEW s \in Text, NEW k, NEW v, Begins(s, k, v), k + 3 <= Len(s)
  PROVE  NumberEnd(s, k + 1) = IF k + 3 + Width(v) <= Len(s) THEN k + 3 + Width(v) ELSE Len(s) + 1
<1>1. /\ Len(s) \in Nat /\ k \in Nat /\ v \in 0 .. 99 /\ Len(s) <= k + 4 + Width(v)
      /\ Width(v) \in {1, 2}
  BY BeginsBounds
<1> DEFINE e == IF k + 3 + Width(v) <= Len(s) THEN k + 3 + Width(v) ELSE Len(s) + 1
<1>2. k + 1 \in Nat /\ k + 1 < Len(s) /\ e \in k + 1 + 2 .. Len(s) + 1
  BY <1>1
<1>3. ASSUME NEW j \in k + 1 + 2 .. Len(s), j < e PROVE s[j] \in Digit
  <2>1. j \in 1 .. Len(s) /\ j > k /\ j - k \in 1 .. 4 + Width(v) /\ j - k \in 3 .. 2 + Width(v)
    BY <1>1, <1>3
  <2>2. s[j] = Status(v)[j - k]
    BY <2>1 DEF Begins
  <2>3. QED
    BY <1>1, <2>1, <2>2, StatusTokens
<1>4. ASSUME e <= Len(s) PROVE s[e] \notin Digit
  <2>1. e = k + 3 + Width(v)
    BY <1>1, <1>4
  <2>2. e \in 1 .. Len(s) /\ e > k /\ e - k = 3 + Width(v)
    BY <1>1, <1>4, <2>1
  <2>3. s[e] = Status(v)[3 + Width(v)]
    BY <2>2 DEF Begins
  <2>4. QED
    BY <1>1, <2>3, StatusEnd DEF Digit
<1> HIDE DEF e
<1>5. NumberEnd(s, k + 1) = e
  BY <1>2, <1>3, <1>4, NumberEndIs
<1>6. QED
  BY <1>5 DEF e

LEMMA StatusLineEnd ==
  ASSUME NEW s \in Text, NEW k, NEW v, Begins(s, k, v), k + 3 <= Len(s)
  PROVE  LineEnd(s, k + 1) = IF k + 3 + Width(v) <= Len(s) THEN k + 4 + Width(v) ELSE Len(s) + 1
<1>1. /\ Len(s) \in Nat /\ k \in Nat /\ v \in 0 .. 99 /\ Len(s) <= k + 4 + Width(v)
      /\ Width(v) \in {1, 2}
  BY BeginsBounds
<1>2. NumberEnd(s, k + 1) = IF k + 3 + Width(v) <= Len(s) THEN k + 3 + Width(v) ELSE Len(s) + 1
  BY StatusNumber
<1>3. CASE k + 3 + Width(v) <= Len(s)
  <2> DEFINE e == k + 3 + Width(v)
  <2>1. e \in 1 .. Len(s) /\ e > k /\ e - k = 3 + Width(v) /\ e + 1 = k + 4 + Width(v)
    BY <1>1, <1>3
  <2>2. s[e] = Status(v)[3 + Width(v)]
    BY <2>1 DEF Begins
  <2>3. s[e] = "cr"
    BY <1>1, <2>2, StatusEnd
  <2>4. NumberEnd(s, k + 1) = e /\ e <= Len(s)
    BY <1>2, <1>3
  <2> HIDE DEF e
  <2>5. LineEnd(s, k + 1) = e + 1
    BY <2>3, <2>4 DEF LineEnd
  <2>6. QED
    BY <1>3, <2>1, <2>5
<1>4. CASE ~(k + 3 + Width(v) <= Len(s))
  <2>1. NumberEnd(s, k + 1) = Len(s) + 1 /\ ~(Len(s) + 1 <= Len(s))
    BY <1>1, <1>2, <1>4
  <2>2. QED
    BY <1>4, <2>1 DEF LineEnd
<1>5. QED
  BY <1>3, <1>4

\* It is found when it is complete, and not before.
LEMMA StatusFound ==
  ASSUME NEW s \in Text, NEW k, NEW v, Begins(s, k, v), FindStatus(s) # 0
  PROVE  /\ FindStatus(s) = k + 1 /\ Len(s) = k + Len(Status(v))
         /\ LineEnd(s, k + 1) = Len(s)
<1>1. /\ Len(s) \in Nat /\ k \in Nat /\ v \in 0 .. 99 /\ Len(s) <= k + 4 + Width(v)
      /\ Width(v) \in {1, 2} /\ Len(Status(v)) = 4 + Width(v)
  BY BeginsBounds
<1> DEFINE S == {i \in DOMAIN s : StatusAt(s, i)}
<1>2. S # {} /\ ~(LineEnd(s, First(S)) > Len(s)) /\ FindStatus(s) = First(S)
  BY DEF FindStatus
<1>3. S \in SUBSET Nat /\ \A i \in S : i \in 1 .. Len(s) /\ StatusAt(s, i)
  BY <1>1, Domain
<1>4. First(S) \in S
  BY <1>2, <1>3, FirstIn
<1> HIDE DEF S
<1>5. First(S) = k + 1 /\ k + 3 <= Len(s)
  BY <1>3, <1>4, StatusPlace
<1>6. LineEnd(s, k + 1) = IF k + 3 + Width(v) <= Len(s) THEN k + 4 + Width(v) ELSE Len(s) + 1
  BY <1>5, StatusLineEnd
<1>7. ~(LineEnd(s, k + 1) > Len(s))
  BY <1>2, <1>5
<1>8. Len(s) = k + 4 + Width(v) /\ LineEnd(s, k + 1) = Len(s)
  BY <1>1, <1>6, <1>7
<1>9. QED
  BY <1>1, <1>2, <1>5, <1>8

LEMMA StatusComplete ==
  ASSUME NEW s \in Text, NEW k, NEW v, Begins(s, k, v), Len(s) = k + Len(Status(v))
  PROVE  FindStatus(s) # 0
<1>1. /\ Len(s) \in Nat /\ k \in Nat /\ v \in 0 .. 99 /\ Len(s) = k + 4 + Width(v)
      /\ Width(v) \in {1, 2} /\ Len(Status(v)) = 4 + Width(v)
  BY BeginsBounds
<1> DEFINE S == {i \in DOMAIN s : StatusAt(s, i)}
<1>2. LineEnd(s, k + 1) = k + 4 + Width(v) /\ NumberEnd(s, k + 1) = k + 3 + Width(v)
  BY <1>1, StatusLineEnd, StatusNumber
<1>3. MarkerAt(s, k + 1)
  <2>1. /\ k + 1 \in 1 .. Len(s) /\ k + 1 > k /\ k + 1 - k = 1
        /\ k + 1 + 1 \in 1 .. Len(s) /\ k + 1 + 1 > k /\ k + 1 + 1 - k = 2 /\ k + 1 < Len(s)
    BY <1>1
  <2>2. s[k + 1] = Status(v)[1] /\ s[k + 1 + 1] = Status(v)[2]
    <3>1. k + 1 <= Len(s) /\ k + 2 <= Len(s) /\ k + 1 + 1 = k + 2
      BY <1>1
    <3>2. s[k + 1] = Status(v)[1]
      BY <3>1, BeginsAt
    <3>3. s[k + 2] = Status(v)[2]
      BY <3>1, BeginsAt
    <3>4. QED
      BY <3>1, <3>2, <3>3
  <2>3. QED
    BY <1>1, <2>1, <2>2, StatusAt1 DEF MarkerAt
<1>4. s[k + 4 + Width(v)] = "nl"
  <2>1. /\ 4 + Width(v) \in Nat \ {0} /\ k + (4 + Width(v)) <= Len(s)
        /\ k + (4 + Width(v)) = k + 4 + Width(v)
    BY <1>1
  <2>4. s[k + (4 + Width(v))] = Status(v)[4 + Width(v)]
    BY <2>1, BeginsAt
  <2>2. s[k + 4 + Width(v)] = Status(v)[4 + Width(v)]
    BY <2>1, <2>4
  <2>3. QED
    BY <1>1, <2>2, StatusEnd
<1>5. StatusAt(s, k + 1)
  <2>1. k + 3 + Width(v) > k + 1 + 2
    BY <1>1
  <2>2. QED
    BY <1>2, <1>3, <1>4, <2>1 DEF StatusAt
<1>6. k + 1 \in S
  <2>1. k + 1 \in DOMAIN s
    BY <1>1, Domain
  <2>2. QED
    BY <1>5, <2>1
<1>7. S \in SUBSET Nat /\ \A i \in S : i \in 1 .. Len(s) /\ StatusAt(s, i)
  BY <1>1, Domain
<1> HIDE DEF S
<1>8. First(S) \in S
  BY <1>6, <1>7, FirstIn
<1>9. First(S) = k + 1
  BY <1>7, <1>8, StatusPlace
<1>10. ~(LineEnd(s, First(S)) > Len(s)) /\ First(S) # 0
  BY <1>1, <1>2, <1>9
<1>11. QED
  BY <1>6, <1>10 DEF FindStatus, S

LEMMA StatusValue ==
  ASSUME NEW s \in Text, NEW k, NEW v, Begins(s, k, v), Len(s) = k + Len(Status(v))
  PROVE  ValueOf(SubSeq(s, k + 1 + 2, NumberEnd(s, k + 1) - 1)) = v
<1>1. /\ Len(s) \in Nat /\ k \in Nat /\ v \in 0 .. 99 /\ Len(s) = k + 4 + Width(v)
      /\ Width(v) \in {1, 2} /\ Len(Status(v)) = 4 + Width(v)
  BY BeginsBounds
<1>2. NumberEnd(s, k + 1) = k + 3 + Width(v)
  BY <1>1, StatusNumber
<1> DEFINE m == k + 3
           n == k + 2 + Width(v)
           d == SubSeq(s, m, n)
<1>3. m = k + 3 /\ n = k + 2 + Width(v) /\ m \in Nat /\ n \in Nat
  BY <1>1
<1>31. k + 1 + 2 = m /\ NumberEnd(s, k + 1) - 1 = n
  BY <1>1, <1>2
<1>32. d = SubSeq(s, k + 1 + 2, NumberEnd(s, k + 1) - 1)
  BY <1>31
<1> HIDE DEF m, n
<1>33. n - m + 1 = Width(v) /\ m <= n /\ 1 <= m /\ n <= Len(s)
  BY <1>1, <1>3
<1>4. /\ Len(d) = IF m <= n THEN n - m + 1 ELSE 0
      /\ \A i \in 1 .. n - m + 1 : d[i] = s[m + i - 1]
  <2>1. \A i \in m .. n : s[i] \in Output \cup {"added"}
    <3>1. \A i \in 1 .. Len(s) : s[i] \in Output \cup {"added"}
      BY ElementOfSeq DEF Text
    <3>2. QED
      <4>1. PICK l \in Nat : l = Len(s)
        BY <1>1
      <4>2. m \in Nat /\ n \in Nat /\ 1 <= m /\ n <= l
        BY <1>3, <1>33, <4>1
      <4>3. \A i \in m .. n : i \in 1 .. l
        BY <4>2
      <4>4. QED
        BY <3>1, <4>1, <4>3
  <2>2. m \in Int /\ n \in Int
    BY <1>3
  <2>3. QED
    BY <2>1, <2>2, SubSeqProperties
<1>5. Len(d) = Width(v)
  BY <1>33, <1>4
<1>6. d[1] = Status(v)[3]
  <2>5. 1 \in 1 .. n - m + 1
    BY <1>1, <1>33
  <2>1. 1 \in 1 .. n - m + 1 /\ m + 1 - 1 = k + 3 /\ k + 3 <= Len(s)
    BY <1>1, <1>3, <2>5
  <2>2. d[1] = s[m + 1 - 1]
    BY <1>4, <2>1
  <2>3. s[k + 3] = Status(v)[3]
    BY <2>1, BeginsAt
  <2>4. QED
    BY <2>1, <2>2, <2>3
<1>7. v >= 10 => d[2] = Status(v)[4]
  <2>1. SUFFICES ASSUME v >= 10 PROVE d[2] = Status(v)[4]
    OBVIOUS
  <2>2. Width(v) = 2
    BY <1>1, <2>1 DEF Width
  <2>3. 2 \in 1 .. n - m + 1 /\ m + 2 - 1 = k + 4 /\ k + 4 <= Len(s)
    BY <1>1, <1>3, <1>33, <2>2
  <2>4. d[2] = s[m + 2 - 1]
    BY <1>4, <2>3
  <2>5. s[k + 4] = Status(v)[4]
    BY <2>3, BeginsAt
  <2>6. QED
    BY <2>3, <2>4, <2>5
<1> HIDE DEF d
<1>8. ValueOf(d) = v
  <2>1. CASE v < 10
    <3>1. Len(d) = 1 /\ d[1] = Digits[v + 1]
      BY <1>1, <1>5, <1>6, <2>1, StatusDigits DEF Width
    <3>2. v \in 0 .. 9
      BY <1>1, <2>1, OneDigit
    <3>3. DigitValue(Digits[v + 1]) = v
      BY <3>2, DigitValueOf
    <3>4. QED
      BY <3>1, <3>3 DEF ValueOf
  <2>2. CASE v >= 10
    <3>1. v \div 10 \in 0 .. 9 /\ v % 10 \in 0 .. 9
      BY <1>1
    <3>5. 10 * (v \div 10) + (v % 10) = v
      BY <1>1
    <3>6. ~(v < 10)
      BY <1>1, <2>2
    <3>2. Len(d) = 2 /\ d[1] = Digits[(v \div 10) + 1] /\ d[2] = Digits[(v % 10) + 1]
      <4>1. Len(d) = 2
        BY <1>5, <3>6 DEF Width
      <4>2. Status(v)[3] = Digits[(v \div 10) + 1] /\ Status(v)[4] = Digits[(v % 10) + 1]
        BY <1>1, <3>6, StatusDigits
      <4>3. QED
        BY <1>6, <1>7, <2>2, <4>1, <4>2
    <3>3. /\ DigitValue(Digits[(v \div 10) + 1]) = v \div 10
          /\ DigitValue(Digits[(v % 10) + 1]) = v % 10
      BY <3>1, DigitValueOf
    <3>4. QED
      BY <3>2, <3>3, <3>5 DEF ValueOf
  <2>3. QED
    BY <1>1, <2>1, <2>2
<1>9. QED
  BY <1>32, <1>8

LEMMA LastNewlineIn ==
  ASSUME NEW s \in Text
  PROVE  /\ LastNewline(s) \in 0 .. Len(s)
         /\ LastNewline(s) # 0 => s[LastNewline(s)] = "nl"
<1> DEFINE N == {i \in DOMAIN s : s[i] = "nl"}
<1>1. Len(s) \in Nat /\ N \subseteq 1 .. Len(s)
  BY Length, Domain
<1>2. CASE N = {}
  <2>1. LastNewline(s) = 0
    BY <1>2 DEF LastNewline
  <2>2. QED
    BY <1>1, <2>1
<1>3. CASE N # {}
  <2> DEFINE B == {b \in Nat : \E i \in N : b = Len(s) - i}
  <2>1. B # {} /\ B \in SUBSET Nat
    <3>1. PICK i \in N : TRUE
      BY <1>3
    <3>2. i \in 1 .. Len(s) /\ Len(s) - i \in Nat
      BY <1>1, <3>1
    <3>3. Len(s) - i \in B
      BY <3>1, <3>2
    <3>4. QED
      BY <3>3
  <2>2. PICK b \in B : \A c \in B : b <= c
    BY <2>1, LeastExists
  <2>3. PICK i \in N : b = Len(s) - i
    BY <2>2
  <2>4. ASSUME NEW j \in N PROVE j <= i
    <3>1. j \in 1 .. Len(s) /\ i \in 1 .. Len(s)
      BY <1>1, <2>3, <2>4
    <3>2. Len(s) - j \in B
      BY <1>1, <3>1, <2>4
    <3>3. Len(s) - i <= Len(s) - j
      BY <2>2, <2>3, <3>2
    <3>4. QED
      BY <1>1, <3>1, <3>3
  <2>5. LastNewline(s) \in N
    BY <1>3, <2>3, <2>4 DEF LastNewline
  <2>6. QED
    BY <1>1, <2>5
<1>4. QED
  BY <1>2, <1>3

\* While it is incomplete, the lines that are complete come before it.
LEMMA StatusPending ==
  ASSUME NEW s \in Text, NEW k, NEW v, Begins(s, k, v), FindStatus(s) = 0
  PROVE  LastNewline(s) <= k
<1>1. /\ Len(s) \in Nat /\ k \in Nat /\ v \in 0 .. 99 /\ Len(s) <= k + 4 + Width(v)
      /\ Width(v) \in {1, 2} /\ Len(Status(v)) = 4 + Width(v)
  BY BeginsBounds
<1>2. PICK n \in 0 .. Len(s) : n = LastNewline(s) /\ (n # 0 => s[n] = "nl")
  BY LastNewlineIn
<1>3. SUFFICES ASSUME n > k PROVE FALSE
  BY <1>1, <1>2
<1>4. n \in 1 .. Len(s) /\ n - k \in 1 .. 4 + Width(v) /\ n # 0
  BY <1>1, <1>2, <1>3
<1>5. Status(v)[n - k] = "nl"
  BY <1>2, <1>3, <1>4 DEF Begins
<1>6. n - k = 4 + Width(v)
  BY <1>1, <1>4, <1>5, StatusTokens
<1>7. Len(s) = k + Len(Status(v))
  BY <1>1, <1>4, <1>6
<1>8. QED
  BY <1>7, StatusComplete

LEMMA MarkerLineEndIn ==
  ASSUME NEW s \in Text, NEW m, MarkerLineEnd(s, m) # 0
  PROVE  /\ MarkerLineEnd(s, m) \in 1 .. Len(s) /\ s[MarkerLineEnd(s, m)] = "nl"
         /\ \E i \in 1 .. Len(s) : s[i] = m /\ i < MarkerLineEnd(s, m)
         /\ \A j \in 1 .. Len(s) : s[j] = "nl" /\ (\E i \in 1 .. Len(s) : s[i] = m /\ i < j) => MarkerLineEnd(s, m) <= j
<1> DEFINE M == {i \in DOMAIN s : s[i] = m}
           N == {i \in DOMAIN s : s[i] = "nl" /\ \E n \in M : n < i}
<1>1. N # {} /\ MarkerLineEnd(s, m) = First(N)
  BY DEF MarkerLineEnd
<1>2. DOMAIN s = 1 .. Len(s) /\ Len(s) \in Nat
  BY Domain, Length
<1>3. N \in SUBSET Nat
  BY <1>2
<1>4. First(N) \in N /\ \A j \in N : First(N) <= j
  BY <1>1, <1>3, FirstIn
<1>5. QED
  BY <1>1, <1>2, <1>4

LEMMA MarkerLineEndZero ==
  ASSUME NEW s \in Text, NEW m, MarkerLineEnd(s, m) = 0,
         NEW j \in 1 .. Len(s), s[j] = "nl", NEW i \in 1 .. Len(s), i < j
  PROVE  s[i] # m
<1> DEFINE M == {n \in DOMAIN s : s[n] = m}
           N == {n \in DOMAIN s : s[n] = "nl" /\ \E h \in M : h < n}
<1>1. SUFFICES ASSUME s[i] = m PROVE FALSE
  OBVIOUS
<1>2. DOMAIN s = 1 .. Len(s) /\ Len(s) \in Nat
  BY Domain, Length
<1>3. j \in N
  BY <1>1, <1>2
<1>4. N \in SUBSET (1 .. Len(s)) /\ N \in SUBSET Nat
  BY <1>2
<1>5. First(N) \in N
  BY <1>3, <1>4, FirstIn
<1>6. First(N) # 0
  BY <1>2, <1>4, <1>5
<1>7. MarkerLineEnd(s, m) = First(N)
  BY <1>3 DEF MarkerLineEnd
<1>8. QED
  BY <1>6, <1>7

LEMMA FirstMark ==
  ASSUME NEW s \in Text, NEW m, NEW i \in 1 .. Len(s), s[i] = m,
         \A j \in 1 .. Len(s) : s[j] = m => i <= j
  PROVE  First({j \in DOMAIN s : s[j] = m}) = i
<1> DEFINE M == {j \in DOMAIN s : s[j] = m}
<1>1. DOMAIN s = 1 .. Len(s) /\ Len(s) \in Nat
  BY Domain, Length
<1>2. M \in SUBSET Nat /\ i \in M /\ \A j \in M : i <= j
  BY <1>1
<1> HIDE DEF M
<1>3. First(M) = i
  BY <1>2, FirstIs
<1>4. QED
  BY <1>3 DEF M

-----------------------------------------------------------------------------
(* Types                                                                   *)

LEMMA OwnIs ==
  ASSUME NEW n \in Nat
  PROVE  Own(n) \in 10 .. 99
BY DEF Own

LEMMA LineInput ==
  ASSUME NEW op \in {"off", "probe", "begin", "set", "end"}
  PROVE  Line(op) \in Input
BY DEF Line, Input

LEMMA IdleType ==
  Idle \in CallType
BY EmptySeq DEF Idle, CallType

LEMMA NoShellType ==
  NoShell \in ShType
<1>1. (CHOOSE v \in Values : TRUE) \in Values
  BY ValuesAssumption
<1>2. QED
  BY <1>1, EmptySeq DEF NoShell, ShType

LEMMA NoHandleType ==
  NoHandle \in HandleType
BY EmptySeq DEF NoHandle, HandleType

LEMMA InitType ==
  ASSUME Init
  PROVE  TypeOK
<1>1. <<>> \in Seq(Input) /\ <<>> \in Seq(Output) /\ <<>> \in Text /\ <<>> \in Seq(Nat)
  BY EmptySeq DEF Text
<1>2. QED
  BY <1>1, IdleType, NoShellType, NoHandleType, CallsAssumption DEF Init, TypeOK

LEMMA OpenType ==
  ASSUME TypeOK, Open
  PROVE  TypeOK'
<1>1. PICK echo \in BOOLEAN :
        sh' = [NoShell EXCEPT !.state = "runs", !.echo = echo, !.noisy = sh.noisy,
                             !.writing = <<"text">>]
  BY DEF Open
<1>2. <<"text">> \in Seq(Output)
  BY DEF Output, Words
<1>3. sh' \in ShType
  BY <1>1, <1>2, NoShellType DEF TypeOK, ShType
<1>4. <<Line("off"), Line("probe")>> \in Seq(Input)
  BY LineInput
<1>5. call' \in CallType
  BY <1>4, IdleType DEF Open, CallType
<1>6. handle' \in HandleType
  BY NoHandleType DEF Open, HandleType
<1>7. calls' \in Nat
  BY DEF Open, TypeOK
<1>8. QED
  BY <1>3, <1>5, <1>6, <1>7, EmptySeq DEF Open, TypeOK

LEMMA SendType ==
  ASSUME TypeOK, NEW op \in {"run", "dump"}, NEW lines \in Seq(Input), Send(op, lines)
  PROVE  /\ call' \in CallType
         /\ at' \in {"return", "write"}
<1>1. CASE handle.dead
  BY <1>1, IdleType DEF Send, CallType
<1>2. CASE ~handle.dead
  BY <1>2, IdleType DEF Send, CallType
<1>3. QED
  BY <1>1, <1>2

LEMMA RunType ==
  ASSUME TypeOK, NEW kind \in Kinds \cup Values, Run(kind)
  PROVE  TypeOK'
<1>1. asked + 1 \in Nat /\ calls - 1 \in Nat
  BY DEF Run, TypeOK
<1> DEFINE line == [op |-> "cmd", n |-> asked + 1, kind |-> kind]
<1>2. line \in Input /\ Line("probe") \in Input
  BY <1>1, LineInput DEF Input
<1>3. Send("run", <<line, Line("probe")>>)
  BY DEF Run
<1> HIDE DEF line
<1>4. <<line, Line("probe")>> \in Seq(Input)
  BY <1>2
<1>5. /\ call' \in CallType
      /\ at' \in {"return", "write"}
  BY <1>3, <1>4, SendType
<1>6. QED
  BY <1>1, <1>5 DEF Run, TypeOK

LEMMA DumpEnvType ==
  ASSUME TypeOK, DumpEnv
  PROVE  TypeOK'
<1>1. calls - 1 \in Nat
  BY DEF DumpEnv, TypeOK
<1>2. Line("begin") \in Input /\ Line("set") \in Input /\ Line("end") \in Input
  BY LineInput
<1>3. <<Line("begin"), Line("set"), Line("end")>> \in Seq(Input)
  BY <1>2
<1>4. Send("dump", <<Line("begin"), Line("set"), Line("end")>>)
  BY DEF DumpEnv
<1>5. /\ call' \in CallType
      /\ at' \in {"return", "write"}
  BY <1>3, <1>4, SendType
<1>6. QED
  BY <1>1, <1>5 DEF DumpEnv, TypeOK

LEMMA WriteType ==
  ASSUME TypeOK, Handles, Write
  PROVE  TypeOK'
<1>1. call.left \in Seq(Input) /\ call.left # <<>> /\ stdin \in Seq(Input)
  BY DEF TypeOK, Handles, Write, CallType
<1>2. Head(call.left) \in Input /\ Tail(call.left) \in Seq(Input)
  BY <1>1, HeadTailProperties
<1>3. CASE Alive \/ daemon
  <2>1. stdin' \in Seq(Input)
    BY <1>1, <1>2, <1>3, AppendProperties DEF Write
  <2>2. call' = [call EXCEPT !.left = Tail(call.left)]
    BY <1>3 DEF Write
  <2>3. call' \in CallType
    BY <1>2, <2>2 DEF TypeOK, CallType
  <2>4. at' \in {"write", "dump", "status"}
    BY <1>3 DEF Write
  <2>5. QED
    BY <1>3, <2>1, <2>3, <2>4 DEF Write, TypeOK, history
<1>4. CASE ~(Alive \/ daemon)
  <2>1. call' = [call EXCEPT !.ok = FALSE] /\ handle' = [handle EXCEPT !.dead = TRUE]
    BY <1>4 DEF Write
  <2>2. call' \in CallType /\ handle' \in HandleType
    BY <2>1 DEF TypeOK, CallType, HandleType
  <2>3. QED
    BY <1>4, <2>2 DEF Write, TypeOK, history
<1>5. QED
  BY <1>3, <1>4

-----------------------------------------------------------------------------
(* The stream                                                              *)

LEMMA UptoOutput ==
  ASSUME NEW s \in Seq(Output), NEW k \in 0 .. Len(s)
  PROVE  Upto(s, k) \in Seq(Output)
<1>1. s \in Text /\ Len(s) \in Nat
  BY OutputText, Length
<1>2. Upto(s, k) \in Text /\ Len(Upto(s, k)) = k
  BY <1>1, UptoText, UptoLength
<1>3. ASSUME NEW i \in 1 .. Len(Upto(s, k)) PROVE Upto(s, k)[i] \in Output
  <2>1. i \in 1 .. k /\ i \in 1 .. Len(s)
    BY <1>1, <1>2
  <2>2. Upto(s, k)[i] = s[i]
    BY <1>1, <2>1, UptoAt
  <2>3. QED
    BY <2>1, <2>2, OutputAt
<1>4. QED
  BY <1>2, <1>3, TextIsOutput

LEMMA PastOutput ==
  ASSUME NEW s \in Seq(Output), NEW k \in 0 .. Len(s)
  PROVE  Past(s, k) \in Seq(Output)
<1>1. s \in Text /\ Len(s) \in Nat
  BY OutputText, Length
<1>2. Past(s, k) \in Text /\ Len(Past(s, k)) = Len(s) - k
  BY <1>1, PastText, PastLength
<1>3. ASSUME NEW i \in 1 .. Len(Past(s, k)) PROVE Past(s, k)[i] \in Output
  <2>1. i \in 1 .. Len(s) - k /\ k + i \in 1 .. Len(s)
    BY <1>1, <1>2
  <2>2. Past(s, k)[i] = s[k + i]
    BY <1>1, <2>1, PastAt
  <2>3. QED
    BY <2>1, <2>2, OutputAt
<1>4. QED
  BY <1>2, <1>3, TextIsOutput

LEMMA CatOutput ==
  ASSUME NEW a \in Seq(Output), NEW b \in Seq(Output)
  PROVE  a \o b \in Seq(Output)
BY ConcatProperties

\* Three pieces: what is pending, what is in the pipe, what is still to be written.
LEMMA FrontAt ==
  ASSUME NEW p \in Text, NEW o \in Text, NEW w \in Text, NEW i \in 1 .. Len(p)
  PROVE  ((p \o o) \o w)[i] = p[i]
<1>1. p \o o \in Text /\ Len(p \o o) = Len(p) + Len(o) /\ Len(o) \in Nat /\ Len(p) \in Nat
  BY CatText, CatLength, Length
<1>2. i \in 1 .. Len(p \o o)
  BY <1>1
<1>3. ((p \o o) \o w)[i] = (p \o o)[i]
  <2>1. PICK q \in Text : q = p \o o
    BY <1>1
  <2>2. i \in 1 .. Len(q)
    BY <1>2, <2>1
  <2>3. (q \o w)[i] = q[i]
    BY <2>2, CatFirst
  <2>4. QED
    BY <2>1, <2>3
<1>4. (p \o o)[i] = p[i]
  BY CatFirst
<1>5. QED
  BY <1>3, <1>4

LEMMA FlowLength ==
  ASSUME NEW p \in Text, NEW o \in Text, NEW w \in Text
  PROVE  /\ Len((p \o o) \o w) = Len(p) + Len(o) + Len(w)
         /\ (p \o o) \o w \in Text
<1>1. PICK q \in Text : q = p \o o /\ Len(q) = Len(p) + Len(o)
  BY CatText, CatLength
<1>2. Len(q \o w) = Len(q) + Len(w) /\ q \o w \in Text
  BY CatText, CatLength
<1>3. QED
  BY <1>1, <1>2

LEMMA FlowPast ==
  ASSUME NEW p \in Text, NEW o \in Text, NEW w \in Text, NEW d \in 0 .. Len(p)
  PROVE  (Past(p, d) \o o) \o w = Past((p \o o) \o w, d)
<1>1. PICK q \in Text : q = p \o o /\ Len(q) = Len(p) + Len(o)
  BY CatText, CatLength
<1>2. d \in 0 .. Len(q)
  BY <1>1, Length
<1>3. Past(p \o o, d) = Past(p, d) \o o
  BY PastCat
<1>4. Past(q \o w, d) = Past(q, d) \o w
  BY <1>2, PastCat
<1>5. QED
  BY <1>1, <1>3, <1>4

LEMMA FlowFill ==
  ASSUME NEW p \in Text, NEW o \in Text, NEW d \in 0 .. Len(p)
  PROVE  (Past(p, d) \o o) \o <<>> = Past(p \o o, d)
<1>1. Past(p \o o, d) = Past(p, d) \o o
  BY PastCat
<1>2. Past(p, d) \o o \in Text
  BY PastText, CatText
<1>3. QED
  BY <1>1, <1>2, CatNil

LEMMA HeadTail ==
  ASSUME NEW w \in Text, w # <<>>
  PROVE  /\ Head(w) \in Output \cup {"added"} /\ Tail(w) \in Text
         /\ Len(Tail(w)) = Len(w) - 1 /\ <<Head(w)>> \o Tail(w) = w
<1>1. Head(w) \in Output \cup {"added"} /\ Tail(w) \in Text /\ Len(Tail(w)) = Len(w) - 1
  BY HeadTailProperties DEF Text
<1>2. w = <<Head(w)>> \o Tail(w)
  <2>1. <<Head(w)>> \in Text /\ Len(<<Head(w)>>) = 1
    BY <1>1 DEF Text
  <2>2. Len(w) \in Nat /\ Len(w) # 0
    BY Length, NoText
  <2> DEFINE h == <<Head(w)>>
             t == Tail(w)
  <2>3. Len(h \o t) = Len(w) /\ h \o t \in Text
    BY <1>1, <2>1, <2>2, CatLength, CatText
  <2>4. ASSUME NEW i \in 1 .. Len(w) PROVE w[i] = (h \o t)[i]
    <3>1. CASE i = 1
      <4>1. 1 \in 1 .. Len(h)
        BY <2>1
      <4>2. (h \o t)[1] = h[1]
        BY <1>1, <2>1, <4>1, CatFirst
      <4>3. QED
        BY <3>1, <4>2
    <3>2. CASE i # 1
      <4>1. i - 1 \in 1 .. Len(t) /\ Len(h) + (i - 1) = i
        BY <1>1, <2>1, <2>2, <3>2
      <4>2. (h \o t)[Len(h) + (i - 1)] = t[i - 1]
        BY <1>1, <2>1, <4>1, CatSecond
      <4>3. t[i - 1] = w[i]
        BY <4>1, <2>2, HeadTailProperties DEF Text
      <4>4. QED
        BY <4>1, <4>2, <4>3
    <3>3. QED
      BY <3>1, <3>2
  <2> HIDE DEF h, t
  <2>5. w = h \o t
    BY <2>3, <2>4, SameText
  <2>6. QED
    BY <2>5 DEF h, t
<1>3. QED
  BY <1>1, <1>2

LEMMA AppendIsCat ==
  ASSUME NEW o \in Text, NEW e \in Output \cup {"added"}
  PROVE  Append(o, e) = o \o <<e>>
BY AppendIsConcat DEF Text

\* A token that is written goes from the end to the middle.
LEMMA FlowWrite ==
  ASSUME NEW q \in Text, NEW w \in Text, w # <<>>
  PROVE  (q \o <<Head(w)>>) \o Tail(w) = q \o w
<1>1. <<Head(w)>> \in Text /\ Tail(w) \in Text /\ <<Head(w)>> \o Tail(w) = w
  BY HeadTail DEF Text
<1>2. (q \o <<Head(w)>>) \o Tail(w) = q \o (<<Head(w)>> \o Tail(w))
  BY <1>1, Assoc
<1>3. QED
  BY <1>1, <1>2

LEMMA Pieces ==
  ASSUME TypeOK
  PROVE  /\ handle.pending \in Seq(Output) /\ out \in Seq(Output) /\ sh.writing \in Seq(Output)
         /\ handle.pending \in Text /\ out \in Text /\ sh.writing \in Text
         /\ Unread \in Text /\ Stream \in Text
         /\ Len(Unread) = Len(handle.pending) + Len(out)
         /\ Len(Stream) = Len(Unread) + Len(sh.writing)
         /\ Len(handle.pending) \in Nat /\ Len(out) \in Nat /\ Len(sh.writing) \in Nat
<1>1. handle.pending \in Seq(Output) /\ out \in Seq(Output) /\ sh.writing \in Seq(Output)
  BY DEF TypeOK, HandleType, ShType
<1>2. handle.pending \in Text /\ out \in Text /\ sh.writing \in Text
  BY <1>1, OutputText
<1>3. Unread \in Text /\ Len(Unread) = Len(handle.pending) + Len(out)
  BY <1>2, CatText, CatLength DEF Unread
<1>4. Stream \in Text /\ Len(Stream) = Len(Unread) + Len(sh.writing)
  BY <1>2, <1>3, CatText, CatLength DEF Stream
<1>5. QED
  BY <1>1, <1>2, <1>3, <1>4, Length

LEMMA PendingAt ==
  ASSUME TypeOK, NEW i \in 1 .. Len(handle.pending)
  PROVE  i \in 1 .. Len(Stream) /\ Stream[i] = handle.pending[i]
<1>1. handle.pending \in Text /\ out \in Text /\ sh.writing \in Text
  BY Pieces
<1>2. Stream[i] = handle.pending[i]
  BY <1>1, FrontAt DEF Stream, Unread
<1>3. i \in 1 .. Len(Stream)
  BY Pieces
<1>4. QED
  BY <1>2, <1>3

LEMMA PendingBegins ==
  ASSUME TypeOK, NEW k \in 0 .. Len(Stream), StatusAfter(k)
  PROVE  Begins(handle.pending, k, sh.last)
<1>1. /\ Len(Stream) \in Nat /\ Len(handle.pending) \in Nat /\ k \in Nat
      /\ Len(handle.pending) <= Len(Stream)
  BY Pieces, Length
<1>2. sh.last \in 0 .. 99
  BY DEF TypeOK, ShType
<1>3. Quiet(Stream, k) /\ Spells(Stream, k, Status(sh.last))
  BY DEF StatusAfter
<1>4. Len(Status(sh.last)) \in Nat
  BY <1>2, StatusLength, WidthIs
<1>5. Len(handle.pending) <= k + Len(Status(sh.last))
  BY <1>1, <1>3, <1>4 DEF Spells
<1>6. ASSUME NEW i \in 1 .. Len(handle.pending), i <= k PROVE handle.pending[i] \notin Digit
  <2>1. Stream[i] = handle.pending[i]
    BY PendingAt
  <2>2. i \in 1 .. k
    BY <1>1, <1>6
  <2>3. Stream[i] \in Calm
    BY <1>3, <2>2 DEF Quiet
  <2>4. QED
    BY <2>1, <2>3 DEF Calm
<1>7. ASSUME NEW i \in 1 .. Len(handle.pending), i > k
      PROVE  handle.pending[i] = Status(sh.last)[i - k]
  <2>1. i \in 1 .. Len(Stream) /\ Stream[i] = handle.pending[i]
    BY PendingAt
  <2>2. i \in k + 1 .. Len(Stream)
    BY <1>1, <1>7, <2>1
  <2>3. Stream[i] = Status(sh.last)[i - k]
    BY <1>3, <2>2 DEF Spells
  <2>4. QED
    BY <2>1, <2>3
<1>8. QED
  BY <1>1, <1>2, <1>5, <1>6, <1>7 DEF Begins

LEMMA PendingQuiet ==
  ASSUME TypeOK, Quiet(Stream, Len(Stream))
  PROVE  FindStatus(handle.pending) = 0
<1>1. handle.pending \in Text
  BY Pieces
<1>2. \A i \in 1 .. Len(handle.pending) : handle.pending[i] \notin Digit
  BY PendingAt DEF Quiet, Calm
<1>3. QED
  BY <1>1, <1>2, NoStatus

\* A status that is found is the one of the probe.
LEMMA FoundStatus ==
  ASSUME TypeOK, Handles, Streams, at = "status", FindStatus(handle.pending) # 0
  PROVE  \E k \in 0 .. Len(Stream) :
           /\ StatusAfter(k)
           /\ Begins(handle.pending, k, sh.last)
           /\ FindStatus(handle.pending) = k + 1
           /\ Len(handle.pending) = k + Len(Status(sh.last))
           /\ LineEnd(handle.pending, k + 1) = Len(handle.pending)
           /\ ValueOf(SubSeq(handle.pending, k + 1 + 2, NumberEnd(handle.pending, k + 1) - 1)) = sh.last
<1>1. Probing /\ ~handle.dead
  BY DEF Handles, Probing, Dumping
<1>2. ~Quiet(Stream, Len(Stream))
  BY PendingQuiet
<1>3. PICK k \in 0 .. Len(Stream) : StatusAfter(k)
  BY <1>1, <1>2 DEF Streams
<1>4. Begins(handle.pending, k, sh.last) /\ handle.pending \in Text
  BY <1>3, PendingBegins, Pieces
<1>5. /\ FindStatus(handle.pending) = k + 1
      /\ Len(handle.pending) = k + Len(Status(sh.last))
      /\ LineEnd(handle.pending, k + 1) = Len(handle.pending)
  BY <1>4, StatusFound
<1>6. ValueOf(SubSeq(handle.pending, k + 1 + 2, NumberEnd(handle.pending, k + 1) - 1)) = sh.last
  BY <1>4, <1>5, StatusValue
<1>7. QED
  BY <1>3, <1>4, <1>5, <1>6

\* The steps of shell_wait_status().
Found(k) ==
  /\ StatusAfter(k) /\ Len(handle.pending) = k + Len(Status(sh.last))
  /\ term' = EndLine(term \o Upto(handle.pending, k))
  /\ handle' = [handle EXCEPT !.pending = <<>>]
  /\ call' = [call EXCEPT !.code = sh.last]
  /\ at' = "return"
  /\ UNCHANGED <<out, sh, stdin, daemon, history>>

NotFound ==
  /\ FindStatus(handle.pending) = 0
  /\ Fill(LastNewline(handle.pending))
  /\ term' = term \o Upto(handle.pending, LastNewline(handle.pending))
  /\ UNCHANGED <<at, call, sh, stdin, daemon, history>>

LEMMA WaitCases ==
  ASSUME TypeOK, Handles, Streams, WaitStatus
  PROVE  /\ at = "status"
         /\ \/ \E k \in 0 .. Len(Stream) : Found(k)
            \/ NotFound
            \/ ShellGone /\ UNCHANGED <<sh, stdin, daemon, history>>
<1>1. at = "status"
  BY DEF WaitStatus
<1>2. CASE FindStatus(handle.pending) # 0
  <2>1. PICK k \in 0 .. Len(Stream) :
           /\ StatusAfter(k)
           /\ FindStatus(handle.pending) = k + 1
           /\ Len(handle.pending) = k + Len(Status(sh.last))
           /\ LineEnd(handle.pending, k + 1) = Len(handle.pending)
           /\ ValueOf(SubSeq(handle.pending, k + 1 + 2, NumberEnd(handle.pending, k + 1) - 1)) = sh.last
    BY <1>1, <1>2, FoundStatus
  <2>2. k + 1 - 1 = k
    OBVIOUS
  <2>3. Past(handle.pending, Len(handle.pending)) = <<>>
    BY Pieces, CutAll
  <2>4. /\ term' = EndLine(term \o Upto(handle.pending, k))
        /\ handle' = [handle EXCEPT !.pending = <<>>]
        /\ call' = [call EXCEPT !.code = sh.last]
        /\ at' = "return"
        /\ UNCHANGED <<out, sh, stdin, daemon, history>>
    BY <1>2, <2>1, <2>2, <2>3 DEF WaitStatus
  <2>5. Found(k)
    BY <2>1, <2>4 DEF Found
  <2>6. QED
    BY <1>1, <2>5
<1>3. CASE FindStatus(handle.pending) = 0
  BY <1>1, <1>3 DEF WaitStatus, NotFound
<1>4. QED
  BY <1>2, <1>3

LEMMA TermCat ==
  ASSUME TypeOK, NEW k \in 0 .. Len(handle.pending)
  PROVE  /\ term \o Upto(handle.pending, k) \in Text
         /\ EndLine(term \o Upto(handle.pending, k)) \in Text
         /\ Shown(term \o Upto(handle.pending, k)) = Shown(term) \o Upto(handle.pending, k)
         /\ Shown(EndLine(term \o Upto(handle.pending, k))) = Shown(term) \o Upto(handle.pending, k)
<1>1. handle.pending \in Seq(Output) /\ term \in Text
  BY Pieces DEF TypeOK
<1>2. PICK u \in Seq(Output) : u = Upto(handle.pending, k)
  BY <1>1, UptoOutput
<1>3. u \in Text
  BY OutputText
<1>4. PICK t \in Text : t = term \o u
  BY <1>1, <1>3, CatText
<1>5. Shown(t) = Shown(term) \o u
  BY <1>1, <1>2, <1>4, ShownCat
<1>6. EndLine(t) \in Text /\ Shown(EndLine(t)) = Shown(t)
  BY ShownEndLine
<1>7. QED
  BY <1>2, <1>4, <1>5, <1>6

LEMMA FillType ==
  ASSUME TypeOK, NEW d \in 0 .. Len(handle.pending), Fill(d)
  PROVE  handle' \in HandleType /\ out' \in Seq(Output)
<1>1. Past(handle.pending, d) \in Seq(Output) /\ out \in Seq(Output)
  BY Pieces, PastOutput
<1>2. PICK q \in Seq(Output) : q = Past(handle.pending, d) \o out
  BY <1>1, CatOutput
<1>3. handle' = [handle EXCEPT !.pending = q] /\ out' = <<>>
  BY <1>2 DEF Fill
<1>4. QED
  BY <1>3, EmptySeq DEF TypeOK, HandleType

LEMMA GoneType ==
  ASSUME TypeOK, ShellGone
  PROVE  call' \in CallType /\ handle' \in HandleType /\ term' \in Text
<1>1. term \in Text /\ handle.pending \in Text
  BY Pieces DEF TypeOK
<1>2. PICK t \in Text : t = term \o handle.pending
  BY <1>1, CatText
<1>3. EndLine(t) \in Text
  BY ShownEndLine
<1>4. term' \in Text
  BY <1>2, <1>3 DEF ShellGone
<1>5. sh.code \in Nat
  BY DEF TypeOK, ShType
<1>6. call' \in CallType
  BY <1>5 DEF ShellGone, TypeOK, CallType
<1>7. handle' \in HandleType
  BY EmptySeq DEF ShellGone, TypeOK, HandleType
<1>8. QED
  BY <1>4, <1>6, <1>7

LEMMA WaitStatusType ==
  ASSUME TypeOK, Handles, Streams, WaitStatus
  PROVE  TypeOK'
<1>1. CASE \E k \in 0 .. Len(Stream) : Found(k)
  <2>1. PICK k \in 0 .. Len(Stream) : Found(k)
    BY <1>1
  <2>2. k \in 0 .. Len(handle.pending)
    <3>1. Len(handle.pending) = k + Len(Status(sh.last)) /\ sh.last \in 0 .. 99
      BY <2>1 DEF Found, TypeOK, ShType
    <3>2. Len(Status(sh.last)) \in Nat
      BY <3>1, StatusLength, WidthIs
    <3>3. QED
      BY <3>1, <3>2
  <2>3. term' \in Text
    BY <2>1, <2>2, TermCat DEF Found
  <2>4. call' \in CallType
    <3>1. sh.last \in 0 .. 99
      BY DEF TypeOK, ShType
    <3>2. sh.last \in Nat
      BY <3>1, CodeIsNat
    <3>3. call' = [call EXCEPT !.code = sh.last]
      BY <2>1 DEF Found
    <3>4. QED
      BY <3>2, <3>3 DEF TypeOK, CallType
  <2>5. handle' \in HandleType
    BY <2>1, EmptySeq DEF Found, TypeOK, HandleType
  <2>6. QED
    BY <2>1, <2>3, <2>4, <2>5 DEF Found, TypeOK, history
<1>2. CASE NotFound
  <2>1. LastNewline(handle.pending) \in 0 .. Len(handle.pending)
    BY Pieces, LastNewlineIn
  <2>2. handle' \in HandleType /\ out' \in Seq(Output)
    BY <1>2, <2>1, FillType DEF NotFound
  <2>3. term' \in Text
    BY <1>2, <2>1, TermCat DEF NotFound
  <2>4. QED
    BY <1>2, <2>2, <2>3 DEF NotFound, TypeOK, history
<1>3. CASE ShellGone /\ UNCHANGED <<sh, stdin, daemon, history>>
  <2>1. call' \in CallType /\ handle' \in HandleType /\ term' \in Text
    BY <1>3, GoneType
  <2>2. QED
    BY <1>3, <2>1 DEF ShellGone, TypeOK, history
<1>4. QED
  BY <1>1, <1>2, <1>3, WaitCases

LEMMA FindBlockType ==
  ASSUME TypeOK, FindBlock
  PROVE  TypeOK'
<1> DEFINE s == handle.pending
           e == MarkerLineEnd(s, "BEGIN")
           i == First({j \in DOMAIN s : s[j] = "BEGIN"})
<1>1. s \in Text /\ s \in Seq(Output) /\ Len(s) \in Nat
  BY Pieces
<1>2. CASE e # 0
  <2>1. e \in 1 .. Len(s) /\ \E m \in 1 .. Len(s) : s[m] = "BEGIN"
    BY <1>1, <1>2, MarkerLineEndIn
  <2>2. i \in 1 .. Len(s)
    <3>1. {j \in DOMAIN s : s[j] = "BEGIN"} # {} /\ {j \in DOMAIN s : s[j] = "BEGIN"} \in SUBSET Nat
      BY <1>1, <2>1, Domain
    <3>2. i \in {j \in DOMAIN s : s[j] = "BEGIN"}
      BY <3>1, FirstIn
    <3>3. QED
      BY <1>1, <3>2, Domain
  <2> HIDE DEF i
  <2>3. i - 1 \in 0 .. Len(s) /\ e \in 0 .. Len(s)
    BY <1>1, <2>1, <2>2
  <2>4. term' = term \o Upto(s, i - 1) /\ handle' = [handle EXCEPT !.pending = Past(s, e)]
        /\ call' = [call EXCEPT !.inBlock = TRUE] /\ UNCHANGED out
    BY <1>2 DEF FindBlock, i
  <2>5. term' \in Text
    BY <2>3, <2>4, TermCat
  <2>6. Past(s, e) \in Seq(Output)
    BY <1>1, <2>3, PastOutput
  <2>7. handle' \in HandleType
    BY <2>4, <2>6 DEF TypeOK, HandleType
  <2>8. call' \in CallType
    BY <2>4 DEF TypeOK, CallType
  <2>9. QED
    BY <2>4, <2>5, <2>7, <2>8 DEF FindBlock, TypeOK, history
<1>3. CASE e = 0
  <2>1. Fill(0) /\ UNCHANGED <<term, call>>
    BY <1>3 DEF FindBlock
  <2>2. 0 \in 0 .. Len(handle.pending)
    BY <1>1
  <2>3. handle' \in HandleType /\ out' \in Seq(Output)
    BY <2>1, <2>2, FillType
  <2>4. QED
    BY <2>1, <2>3 DEF FindBlock, TypeOK, history
<1>4. QED
  BY <1>2, <1>3

LEMMA ReadBlockType ==
  ASSUME TypeOK, ReadBlock
  PROVE  TypeOK'
<1> DEFINE s == handle.pending
           e == MarkerLineEnd(s, "END")
           i == First({j \in DOMAIN s : s[j] = "END"})
<1>1. s \in Text /\ s \in Seq(Output) /\ Len(s) \in Nat /\ call.got \in Seq(Output)
  BY Pieces DEF TypeOK, CallType
<1>2. CASE e # 0
  <2>1. e \in 1 .. Len(s) /\ \E m \in 1 .. Len(s) : s[m] = "END"
    BY <1>1, <1>2, MarkerLineEndIn
  <2>2. i \in 1 .. Len(s)
    <3>1. {j \in DOMAIN s : s[j] = "END"} # {} /\ {j \in DOMAIN s : s[j] = "END"} \in SUBSET Nat
      BY <1>1, <2>1, Domain
    <3>2. i \in {j \in DOMAIN s : s[j] = "END"}
      BY <3>1, FirstIn
    <3>3. QED
      BY <1>1, <3>2, Domain
  <2> HIDE DEF i
  <2>3. i - 1 \in 0 .. Len(s) /\ e \in 0 .. Len(s)
    BY <1>1, <2>1, <2>2
  <2>4. /\ call' = [call EXCEPT !.got = call.got \o Upto(s, i - 1)]
        /\ handle' = [handle EXCEPT !.pending = Past(s, e)]
        /\ at' = "return" /\ UNCHANGED out
    BY <1>2 DEF ReadBlock, Collected, i
  <2>5. PICK g \in Seq(Output) : g = call.got \o Upto(s, i - 1)
    BY <1>1, <2>3, UptoOutput, CatOutput
  <2>6. Past(s, e) \in Seq(Output)
    BY <1>1, <2>3, PastOutput
  <2>7. handle' \in HandleType
    BY <2>4, <2>6 DEF TypeOK, HandleType
  <2>8. call' \in CallType
    BY <2>4, <2>5 DEF TypeOK, CallType
  <2>9. QED
    BY <2>4, <2>7, <2>8 DEF ReadBlock, TypeOK, history
<1>3. CASE e = 0
  <2> DEFINE d == LastNewline(s)
  <2>1. /\ Fill(d) /\ UNCHANGED at
        /\ call' = [call EXCEPT !.got = call.got \o Upto(s, d)]
    BY <1>3 DEF ReadBlock, Collected
  <2>2. d \in 0 .. Len(s)
    BY <1>1, LastNewlineIn
  <2> HIDE DEF d
  <2>3. handle' \in HandleType /\ out' \in Seq(Output)
    BY <2>1, <2>2, FillType
  <2>4. PICK g \in Seq(Output) : g = call.got \o Upto(s, d)
    BY <1>1, <2>2, UptoOutput, CatOutput
  <2>5. call' \in CallType
    BY <2>1, <2>4 DEF TypeOK, CallType
  <2>6. QED
    BY <2>1, <2>3, <2>5 DEF ReadBlock, TypeOK, history
<1>4. QED
  BY <1>2, <1>3

LEMMA DumpFailsType ==
  ASSUME TypeOK, DumpFails
  PROVE  TypeOK'
<1> DEFINE s == handle.pending
           d == LastNewline(s)
<1>1. s \in Text /\ s \in Seq(Output)
  BY Pieces
<1>2. d \in 0 .. Len(s)
  BY <1>1, LastNewlineIn
<1> HIDE DEF d
<1>3. Past(s, d) \in Seq(Output)
  BY <1>1, <1>2, PastOutput
<1>4. handle' = [handle EXCEPT !.dead = TRUE,
                   !.pending = IF call.inBlock THEN Past(s, d) ELSE s]
  BY DEF DumpFails, d
<1>5. handle' \in HandleType
  BY <1>1, <1>3, <1>4 DEF TypeOK, HandleType
<1>6. QED
  BY <1>5 DEF DumpFails, TypeOK, CallType, history

LEMMA CloseType ==
  ASSUME TypeOK, Close
  PROVE  TypeOK'
<1>1. call' \in CallType
  BY IdleType DEF Close, CallType
<1>2. handle' \in HandleType
  BY DEF Close, TypeOK, HandleType
<1>3. QED
  BY <1>1, <1>2 DEF Close, TypeOK, history

LEMMA DrainType ==
  ASSUME TypeOK, Drain
  PROVE  TypeOK'
<1> DEFINE d == LastNewline(handle.pending)
<1>1. d \in 0 .. Len(handle.pending)
  BY Pieces, LastNewlineIn
<1>2. CASE Fill(d) /\ term' = term \o Upto(handle.pending, d) /\ UNCHANGED at
  <2> HIDE DEF d
  <2>1. handle' \in HandleType /\ out' \in Seq(Output)
    BY <1>1, <1>2, FillType
  <2>2. term' \in Text
    BY <1>1, <1>2, TermCat
  <2>3. QED
    BY <1>2, <2>1, <2>2 DEF Drain, TypeOK, history
<1>3. CASE /\ term' = EndLine(term \o handle.pending) /\ handle' = NoHandle
           /\ at' = "return" /\ UNCHANGED out
  <2>1. term \in Text /\ handle.pending \in Text
    BY Pieces DEF TypeOK
  <2>2. PICK t \in Text : t = term \o handle.pending
    BY <2>1, CatText
  <2>3. term' \in Text
    BY <1>3, <2>2, ShownEndLine
  <2>4. QED
    BY <1>3, <2>3, NoHandleType DEF Drain, TypeOK, history
<1>4. QED
  BY <1>2, <1>3 DEF Drain

LEMMA ReturnType ==
  ASSUME TypeOK, Return
  PROVE  TypeOK'
<1>1. answers' \in Seq(Nat)
  <2>1. Outcome \in Nat
    BY DEF Outcome, FAILURE, TypeOK, CallType
  <2>2. Append(answers, Outcome) \in Seq(Nat)
    BY <2>1, AppendProperties DEF TypeOK
  <2>3. QED
    BY <2>2 DEF Return, TypeOK
<1>2. CASE call.op = "open" /\ ~call.ok
  <2>1. /\ handle' = [handle EXCEPT !.in = FALSE] /\ at' = "drain"
        /\ call' = [Idle EXCEPT !.op = "close"]
    BY <1>2 DEF Return
  <2>2. handle' \in HandleType
    BY <2>1 DEF TypeOK, HandleType
  <2>3. call' \in CallType
    BY <2>1, IdleType DEF CallType
  <2>4. QED
    BY <1>1, <2>1, <2>2, <2>3 DEF Return, TypeOK
<1>3. CASE ~(call.op = "open" /\ ~call.ok)
  <2>1. UNCHANGED handle /\ at' = "config" /\ call' = Idle
    BY <1>3 DEF Return
  <2>2. QED
    BY <1>1, <2>1, IdleType DEF Return, TypeOK
<1>4. QED
  BY <1>2, <1>3

LEMMA WriteTokenType ==
  ASSUME TypeOK, WriteToken
  PROVE  TypeOK'
<1>1. sh.writing \in Seq(Output) /\ sh.writing # <<>> /\ out \in Seq(Output) /\ wrote \in Seq(Output)
  BY Pieces DEF WriteToken, TypeOK
<1>2. Head(sh.writing) \in Output /\ Tail(sh.writing) \in Seq(Output)
  BY <1>1, HeadTailProperties
<1>3. Append(out, Head(sh.writing)) \in Seq(Output) /\ Append(wrote, Head(sh.writing)) \in Seq(Output)
  BY <1>1, <1>2, AppendProperties
<1>4. sh' \in ShType
  <2>1. sh' = [sh EXCEPT !.writing = Tail(sh.writing)]
    BY DEF WriteToken
  <2>2. QED
    BY <1>2, <2>1 DEF TypeOK, ShType
<1>5. wrote' \in Seq(Output)
  BY <1>1, <1>3 DEF WriteToken
<1>6. QED
  BY <1>3, <1>4, <1>5 DEF WriteToken, ShellOnly, TypeOK

LEMMA SwallowType ==
  ASSUME TypeOK, Swallow
  PROVE  TypeOK'
<1>1. stdin' \in Seq(Input)
  BY HeadTailProperties DEF Swallow, TypeOK
<1>2. sh' \in ShType
  BY DEF Swallow, TypeOK, ShType
<1>3. QED
  BY <1>1, <1>2 DEF Swallow, ShellOnly, TypeOK

LEMMA DiesType ==
  ASSUME TypeOK, NEW code \in Nat
  PROVE  Dies(code) \in ShType
BY EmptySeq DEF Dies, TypeOK, ShType

LEMMA EndOfInputType ==
  ASSUME TypeOK, EndOfInput
  PROVE  TypeOK'
<1>1. sh.last \in 0 .. 99
  BY DEF TypeOK, ShType
<1>2. sh.last \in Nat
  BY <1>1
<1>3. sh' \in ShType
  BY <1>2, DiesType DEF EndOfInput
<1>4. QED
  BY <1>3 DEF EndOfInput, ShellOnly, TypeOK

LEMMA KilledType ==
  ASSUME TypeOK, Killed
  PROVE  TypeOK'
<1>1. Dies(KILLED) \in ShType
  BY DiesType DEF KILLED
<1>2. sh' \in ShType
  BY <1>1 DEF Killed, ShType
<1>3. QED
  BY <1>2 DEF Killed, ShellOnly, TypeOK

LEMMA DaemonEndsType ==
  ASSUME TypeOK, DaemonEnds
  PROVE  TypeOK'
BY DEF DaemonEnds, ShellOnly, TypeOK

\* What the shell repeats of a line and says to it.
LEMMA RepeatedType ==
  ASSUME NEW line
  PROVE  Repeated(line) \in Seq(Output)
<1>1. CASE ~sh.echo
  BY <1>1, EmptySeq DEF Repeated
<1>2. CASE sh.echo
  <2>1. \A t \in {"text", "pct", "M1", "M2", "BEGIN", "END", "nl"} : t \in Output
    BY DEF Output, Words
  <2>2. /\ <<"text">> \in Seq(Output) /\ Marker \in Seq(Output) /\ <<"pct", "nl">> \in Seq(Output)
        /\ <<"text", "BEGIN", "nl">> \in Seq(Output) /\ <<"text", "END", "nl">> \in Seq(Output)
        /\ <<"text", "nl">> \in Seq(Output)
    BY <2>1 DEF Marker
  <2>3. <<"text">> \o Marker \o <<"pct", "nl">> \in Seq(Output)
    BY <2>2, CatOutput
  <2>4. QED
    BY <1>2, <2>2, <2>3 DEF Repeated
<1>3. QED
  BY <1>1, <1>2

LEMMA StatusOutput ==
  ASSUME NEW v \in 0 .. 99
  PROVE  Status(v) \in Seq(Output)
<1>1. Marker \in Seq(Output) /\ EndOfLine \in Seq(Output)
  BY DEF Output, Words, Marker, EndOfLine
<1>2. Decimal(v) \in Seq(Output)
  <2>1. \A d \in 0 .. 9 : Digits[d + 1] \in Output
    BY DigitsDigit DEF Output
  <2>2. CASE v < 10
    <3>1. v \in 0 .. 9
      BY <2>2
    <3>2. Digits[v + 1] \in Output
      BY <2>1, <3>1
    <3>3. QED
      BY <2>2, <3>2 DEF Decimal
  <2>3. CASE ~(v < 10)
    <3>1. v \div 10 \in 0 .. 9 /\ v % 10 \in 0 .. 9
      OBVIOUS
    <3>2. Digits[(v \div 10) + 1] \in Output /\ Digits[(v % 10) + 1] \in Output
      BY <2>1, <3>1
    <3>3. QED
      BY <2>3, <3>2 DEF Decimal
  <2>4. QED
    BY <2>2, <2>3
<1>3. Marker \o Decimal(v) \in Seq(Output)
  BY <1>1, <1>2, CatOutput
<1>4. QED
  BY <1>1, <1>3, CatOutput DEF Status

LEMMA SaysType ==
  ASSUME TypeOK, NEW line
  PROVE  Says(line) \in Seq(Output)
<1>1. sh.last \in 0 .. 99 /\ sh.env \in Output
  BY DEF TypeOK, ShType, Output
<1>2. Status(sh.last) \in Seq(Output)
  BY <1>1, StatusOutput
<1>3. \A t \in {"text", "BEGIN", "END", "nl", "cr"} : t \in Output
  BY DEF Output, Words
<1>4. /\ <<"BEGIN">> \in Seq(Output) /\ <<"END">> \in Seq(Output) /\ <<sh.env>> \in Seq(Output)
      /\ EndOfLine \in Seq(Output) /\ <<"text", "nl">> \in Seq(Output) /\ <<"text">> \in Seq(Output)
  BY <1>1, <1>3 DEF EndOfLine
<1>5. /\ <<"BEGIN">> \o EndOfLine \in Seq(Output) /\ <<"END">> \o EndOfLine \in Seq(Output)
      /\ <<sh.env>> \o EndOfLine \in Seq(Output) /\ <<>> \in Seq(Output)
  BY <1>4, CatOutput, EmptySeq
<1>6. QED
  BY <1>2, <1>4, <1>5 DEF Says, Status

LEMMA ExecutedType ==
  ASSUME TypeOK, NEW line \in Input
  PROVE  Executed(line) \in ShType
<1>1. Own(line.n) \in 10 .. 99
  BY OwnIs DEF Input
<1>2. Own(line.n) \in Nat /\ Own(line.n) \in 0 .. 99
  BY <1>1
<1>3. Obeyed(line) \in ShType
  BY <1>2, DiesType DEF Obeyed, TypeOK, ShType
<1>4. [sh EXCEPT !.echo = FALSE] \in ShType /\ sh \in ShType
  BY DEF TypeOK, ShType
<1>5. QED
  BY <1>3, <1>4 DEF Executed

LEMMA ReadLineType ==
  ASSUME TypeOK, ReadLine
  PROVE  TypeOK'
<1> DEFINE line == Head(stdin)
<1>1. line \in Input /\ stdin' \in Seq(Input)
  BY HeadTailProperties DEF ReadLine, TypeOK
<1>2. Repeated(line) \in Seq(Output) /\ Says(line) \in Seq(Output) /\ <<>> \in Seq(Output)
  BY RepeatedType, SaysType, EmptySeq
<1>3. Repeated(line) \o Says(line) \in Seq(Output)
  BY <1>2, CatOutput
<1>4. Hidden(line) \in Nat
  BY <1>2, <1>3, LenProperties DEF Hidden
<1>5. Executed(line) \in ShType
  BY <1>1, ExecutedType
<1>6. line.n \in Nat
  BY <1>1 DEF Input
<1>7. ran' \in Seq(Nat)
  BY <1>6, AppendProperties DEF ReadLine, TypeOK
<1>8. daemon' \in BOOLEAN
  BY DEF ReadLine, TypeOK
<1>9. sh' = [Executed(line) EXCEPT
                    !.writing = IF line.kind = "exit" THEN <<>> ELSE Repeated(line) \o Says(line),
                    !.hidden = Hidden(line),
                    !.noisy = @ \/ (sh.echo /\ line.op = "begin")]
  BY DEF ReadLine
<1> HIDE DEF line
<1>10. sh' \in ShType
  <2>1. PICK w \in Seq(Output) : w = IF line.kind = "exit" THEN <<>> ELSE Repeated(line) \o Says(line)
    BY <1>2, <1>3
  <2>2. PICK x \in ShType : x = Executed(line)
    BY <1>5
  <2>3. PICK h \in Nat : h = Hidden(line)
    BY <1>4
  <2>4. sh' = [x EXCEPT !.writing = w, !.hidden = h, !.noisy = @ \/ (sh.echo /\ line.op = "begin")]
    BY <1>9, <2>1, <2>2, <2>3
  <2>5. QED
    BY <2>4 DEF ShType
<1>11. QED
  BY <1>1, <1>7, <1>8, <1>10 DEF ReadLine, ShellOnly, TypeOK

LEMMA TypeStep ==
  ASSUME TypeOK, Handles, Streams, Next
  PROVE  TypeOK'
<1>1. CASE Venv
  BY <1>1, WriteType, WaitStatusType, FindBlockType, ReadBlockType, DumpFailsType, DrainType,
     ReturnType DEF Venv
<1>2. CASE Shell
  BY <1>2, WriteTokenType, ReadLineType, SwallowType, EndOfInputType DEF Shell
<1>3. QED
  BY <1>1, <1>2, OpenType, RunType, DumpEnvType, CloseType, KilledType, DaemonEndsType DEF Next

-----------------------------------------------------------------------------
(* The handle                                                              *)

LEMMA InitHandles ==
  ASSUME Init
  PROVE  Handles
BY DEF Init, Handles, Probing, Dumping, Alive, Idle, NoShell, NoHandle

LEMMA OpenHandles ==
  ASSUME TypeOK, Handles, Open
  PROVE  Handles'
<1>1. /\ sh'.state = "runs" /\ at' = "write" /\ daemon' = FALSE /\ out' = <<>>
  BY DEF Open, NoShell
<1>2. /\ call'.op = "open" /\ call'.left # <<>> /\ call'.ok = TRUE
  BY DEF Open, Idle
<1>3. handle'.open /\ handle'.in /\ ~handle'.dead
  BY DEF Open, NoHandle
<1>4. QED
  BY <1>1, <1>2, <1>3 DEF Handles, Probing, Dumping, Alive

LEMMA SendHandles ==
  ASSUME TypeOK, Handles, NEW op \in {"run", "dump"}, NEW lines, lines # <<>>, Send(op, lines),
         at = "config", handle.open, UNCHANGED <<handle, sh, stdin, out, daemon>>
  PROVE  Handles'
<1>1. sh.state # "none" /\ handle.in /\ (~Alive => sh.writing = <<>>)
  BY DEF Handles
<1>2. handle.dead => ~Alive /\ daemon = FALSE
  BY DEF Handles
<1>3. CASE handle.dead
  <2>1. at' = "return" /\ call'.op = op
    BY <1>3 DEF Send, Idle
  <2>2. QED
    BY <1>1, <1>2, <1>3, <2>1 DEF Handles, Probing, Dumping, Alive
<1>4. CASE ~handle.dead
  <2>1. at' = "write" /\ call'.op = op /\ call'.left = lines /\ call'.ok = TRUE
    BY <1>4 DEF Send, Idle
  <2>2. QED
    BY <1>1, <1>4, <2>1 DEF Handles, Probing, Dumping, Alive
<1>5. QED
  BY <1>3, <1>4

LEMMA WriteHandles ==
  ASSUME TypeOK, Handles, Write
  PROVE  Handles'
<1>1. /\ at = "write" /\ call.left # <<>> /\ call.left \in Seq(Input) /\ call.ok /\ ~handle.dead
      /\ call.op \in {"open", "run", "dump"}
  BY DEF Handles, Write, TypeOK, CallType, Probing, Dumping
<1>2. handle.open /\ handle.in /\ sh.state # "none" /\ (~Alive => sh.writing = <<>>)
  BY <1>1 DEF Handles
<1>3. CASE Alive \/ daemon
  <2>1. /\ call' = [call EXCEPT !.left = Tail(call.left)] /\ UNCHANGED <<handle, sh, daemon, out>>
        /\ at' = IF Len(call.left) > 1 THEN "write"
                 ELSE IF call.op = "dump" THEN "dump" ELSE "status"
    BY <1>3 DEF Write
  <2>2. call'.op = call.op /\ call'.ok /\ call'.left = Tail(call.left)
    BY <1>1, <2>1 DEF TypeOK, CallType
  <2>3. Tail(call.left) = <<>> <=> ~(Len(call.left) > 1)
    <3>1. Len(call.left) \in Nat /\ Len(call.left) # 0
      BY <1>1, LenProperties, EmptySeq
    <3>2. Tail(call.left) \in Seq(Input) /\ Len(Tail(call.left)) = Len(call.left) - 1
      BY <1>1, HeadTailProperties
    <3>3. Tail(call.left) = <<>> <=> Len(Tail(call.left)) = 0
      BY <3>2, EmptySeq
    <3>4. QED
      BY <3>1, <3>2, <3>3
  <2>4. CASE Len(call.left) > 1
    <3>1. at' = "write" /\ call'.left # <<>>
      BY <2>1, <2>2, <2>3, <2>4
    <3>2. QED
      BY <1>1, <1>2, <2>1, <2>2, <3>1 DEF Handles, Probing, Dumping, Alive
  <2>5. CASE ~(Len(call.left) > 1)
    <3>1. /\ at' = (IF call.op = "dump" THEN "dump" ELSE "status") /\ call'.left = <<>>
      BY <2>1, <2>2, <2>3, <2>5
    <3>2. QED
      BY <1>1, <1>2, <2>1, <2>2, <3>1 DEF Handles, Probing, Dumping, Alive
  <2>6. QED
    BY <2>4, <2>5
<1>4. CASE ~(Alive \/ daemon)
  <2>1. call' = [call EXCEPT !.ok = FALSE] /\ handle' = [handle EXCEPT !.dead = TRUE]
        /\ at' = "return" /\ UNCHANGED <<sh, daemon, out>>
    BY <1>4 DEF Write
  <2>2. call'.op = call.op /\ handle'.open /\ handle'.in /\ handle'.dead
    BY <1>2, <2>1 DEF TypeOK, CallType, HandleType
  <2>3. daemon = FALSE
    BY <1>4 DEF TypeOK
  <2>4. QED
    BY <1>1, <1>2, <1>4, <2>1, <2>2, <2>3 DEF Handles, Probing, Dumping, Alive
<1>5. QED
  BY <1>3, <1>4

\* A call that waits returns, or goes on.
LEMMA ReturnsHandles ==
  ASSUME TypeOK, Handles, at \in {"status", "dump"}, at' \in {at, "return"},
         call'.op = call.op, call'.left = call.left, call'.ok = call.ok \/ at' = "return",
         handle'.open = handle.open, handle'.in = handle.in,
         handle'.dead = handle.dead \/ (handle'.dead /\ ~Alive /\ daemon = FALSE /\ at' = "return"),
         UNCHANGED <<sh, daemon>>
  PROVE  Handles'
<1>1. /\ call.left = <<>> /\ call.ok /\ ~handle.dead
      /\ call.op \in {"open", "run", "dump"} /\ (at = "dump" <=> call.op = "dump")
  BY DEF Handles, Probing, Dumping
<1>2. handle.open /\ handle.in /\ sh.state # "none" /\ (~Alive => sh.writing = <<>>)
  BY <1>1 DEF Handles
<1>3. CASE at' = "return"
  BY <1>1, <1>2, <1>3 DEF Handles, Probing, Dumping, Alive
<1>4. CASE at' = at
  BY <1>1, <1>2, <1>4 DEF Handles, Probing, Dumping, Alive
<1>5. QED
  BY <1>3, <1>4

LEMMA WaitStatusHandles ==
  ASSUME TypeOK, Handles, Streams, WaitStatus
  PROVE  Handles'
<1>1. at = "status"
  BY DEF WaitStatus
<1>2. CASE \E k \in 0 .. Len(Stream) : Found(k)
  <2>1. PICK k \in 0 .. Len(Stream) : Found(k)
    BY <1>2
  <2>2. /\ call'.op = call.op /\ call'.left = call.left /\ call'.ok = call.ok
        /\ handle'.open = handle.open /\ handle'.in = handle.in /\ handle'.dead = handle.dead
    BY <2>1 DEF Found, TypeOK, CallType, HandleType
  <2>3. QED
    BY <1>1, <2>1, <2>2, ReturnsHandles DEF Found
<1>3. CASE NotFound
  <2>1. handle'.open = handle.open /\ handle'.in = handle.in /\ handle'.dead = handle.dead
    BY <1>3 DEF NotFound, Fill, TypeOK, HandleType
  <2>2. QED
    BY <1>1, <1>3, <2>1, ReturnsHandles DEF NotFound
<1>4. CASE ShellGone /\ UNCHANGED <<sh, stdin, daemon, history>>
  <2>1. /\ call'.op = call.op /\ call'.left = call.left /\ at' = "return"
        /\ handle'.open = handle.open /\ handle'.in = handle.in /\ handle'.dead
        /\ ~Alive /\ daemon = FALSE
    BY <1>4 DEF ShellGone, EofOnOut, TypeOK, CallType, HandleType
  <2>2. QED
    BY <1>1, <1>4, <2>1, ReturnsHandles
<1>5. QED
  BY <1>2, <1>3, <1>4, WaitCases

LEMMA FindBlockHandles ==
  ASSUME TypeOK, Handles, FindBlock
  PROVE  Handles'
<1>1. at = "dump" /\ UNCHANGED <<at, sh, daemon>>
  BY DEF FindBlock
<1>2. /\ call'.op = call.op /\ call'.left = call.left /\ call'.ok = call.ok
  BY DEF FindBlock, TypeOK, CallType
<1>3. handle'.open = handle.open /\ handle'.in = handle.in /\ handle'.dead = handle.dead
  BY DEF FindBlock, Fill, TypeOK, HandleType
<1>4. QED
  BY <1>1, <1>2, <1>3, ReturnsHandles

LEMMA ReadBlockHandles ==
  ASSUME TypeOK, Handles, ReadBlock
  PROVE  Handles'
<1>1. at = "dump" /\ at' \in {at, "return"} /\ UNCHANGED <<sh, daemon>>
  BY DEF ReadBlock
<1>2. /\ call'.op = call.op /\ call'.left = call.left /\ call'.ok = call.ok
  BY DEF ReadBlock, TypeOK, CallType
<1>3. handle'.open = handle.open /\ handle'.in = handle.in /\ handle'.dead = handle.dead
  BY DEF ReadBlock, Fill, TypeOK, HandleType
<1>4. QED
  BY <1>1, <1>2, <1>3, ReturnsHandles

LEMMA DumpFailsHandles ==
  ASSUME TypeOK, Handles, DumpFails
  PROVE  Handles'
<1>1. at = "dump" /\ at' = "return" /\ UNCHANGED <<sh, daemon>> /\ ~Alive /\ daemon = FALSE
  BY DEF DumpFails, EofOnOut, TypeOK
<1>2. /\ call'.op = call.op /\ call'.left = call.left
  BY DEF DumpFails, TypeOK, CallType
<1>3. handle'.open = handle.open /\ handle'.in = handle.in /\ handle'.dead
  BY DEF DumpFails, TypeOK, HandleType
<1>4. QED
  BY <1>1, <1>2, <1>3, ReturnsHandles

LEMMA CloseHandles ==
  ASSUME TypeOK, Handles, Close
  PROVE  Handles'
<1>1. /\ at' = "drain" /\ call'.op = "close" /\ call'.left = <<>>
      /\ handle'.open /\ handle'.dead = handle.dead /\ UNCHANGED <<sh, daemon, out>>
  BY DEF Close, Idle, TypeOK, HandleType
<1>2. sh.state # "none" /\ (~Alive => sh.writing = <<>>) /\ (handle.dead => ~Alive /\ daemon = FALSE)
  BY DEF Handles, Close
<1>3. QED
  BY <1>1, <1>2 DEF Handles, Probing, Dumping, Alive

LEMMA DrainHandles ==
  ASSUME TypeOK, Handles, Drain
  PROVE  Handles'
<1>1. /\ at = "drain" /\ call.op = "close" /\ handle.open /\ call.left = <<>> /\ UNCHANGED <<call, sh, daemon>>
      /\ sh.state # "none" /\ (~Alive => sh.writing = <<>>) /\ (handle.dead => ~Alive /\ daemon = FALSE)
  BY DEF Handles, Drain
<1>2. CASE Fill(LastNewline(handle.pending)) /\ UNCHANGED at
  <2>1. handle'.open = handle.open /\ handle'.dead = handle.dead
    BY <1>2 DEF Fill, TypeOK, HandleType
  <2>2. QED
    BY <1>1, <1>2, <2>1 DEF Handles, Probing, Dumping, Alive
<1>3. CASE EofOnOut /\ handle' = NoHandle /\ at' = "return" /\ UNCHANGED out
  <2>1. out = <<>> /\ ~Alive /\ daemon = FALSE
    BY <1>3 DEF EofOnOut, TypeOK
  <2>2. ~handle'.open /\ ~handle'.dead /\ handle'.pending = <<>>
    BY <1>3 DEF NoHandle
  <2>3. QED
    BY <1>1, <1>3, <2>1, <2>2 DEF Handles, Probing, Dumping, Alive
<1>4. QED
  BY <1>2, <1>3 DEF Drain

LEMMA ReturnHandles ==
  ASSUME TypeOK, Handles, Return
  PROVE  Handles'
<1>1. at = "return" /\ UNCHANGED <<sh, daemon, out>>
  BY DEF Return
<1>2. CASE call.op = "open" /\ ~call.ok
  <2>1. /\ handle'.open = handle.open /\ handle'.dead = handle.dead
        /\ at' = "drain" /\ call'.op = "close" /\ call'.left = <<>>
    BY <1>2 DEF Return, Idle, TypeOK, HandleType
  <2>2. QED
    BY <1>1, <1>2, <2>1 DEF Handles, Probing, Dumping, Alive
<1>3. CASE ~(call.op = "open" /\ ~call.ok)
  <2>1. UNCHANGED handle /\ at' = "config" /\ call'.op = "none" /\ call'.left = <<>>
    BY <1>3 DEF Return, Idle
  <2>2. call.op # "none" /\ (call.op = "close" => ~handle.open)
    BY <1>1 DEF Handles
  <2>3. QED
    BY <1>1, <2>1, <2>2 DEF Handles, Probing, Dumping, Alive
<1>4. QED
  BY <1>2, <1>3

\* The shell does not touch the handle.
LEMMA ShellHandles ==
  ASSUME TypeOK, Handles, UNCHANGED <<at, call, handle>>, Alive, sh' \in ShType,
         sh'.state # "none", sh'.state = "gone" => sh'.writing = <<>>
  PROVE  Handles'
<1>1. handle.open /\ ~handle.dead
  BY DEF Handles
<1>2. sh'.state \notin {"runs", "swallows"} => sh'.writing = <<>>
  BY DEF ShType
<1>3. QED
  BY <1>1, <1>2 DEF Handles, Probing, Dumping, Alive

LEMMA ReadLineState ==
  ASSUME TypeOK, ReadLine
  PROVE  /\ sh'.state \in {"runs", "swallows", "gone"}
         /\ sh'.state = "gone" => sh'.writing = <<>> /\ Head(stdin).op = "cmd" /\ Head(stdin).kind = "exit"
<1> DEFINE line == Head(stdin)
<1>1. line \in Input
  BY HeadTailProperties DEF ReadLine, TypeOK
<1>2. sh.state = "runs"
  BY DEF ReadLine
<1>3. PICK x \in ShType : x = Executed(line)
  BY <1>1, ExecutedType
<1>4. sh' = [x EXCEPT !.writing = IF line.kind = "exit" THEN <<>> ELSE Repeated(line) \o Says(line),
                      !.hidden = Hidden(line),
                      !.noisy = @ \/ (sh.echo /\ line.op = "begin")]
  BY <1>3 DEF ReadLine
<1> HIDE DEF line
<1>5. sh'.state = x.state /\ (line.kind = "exit" => sh'.writing = <<>>)
  BY <1>4 DEF ShType
<1>6. x.state \in {"runs", "swallows", "gone"} /\ (x.state = "gone" => line.op = "cmd" /\ line.kind = "exit")
  <2>1. CASE line.op # "cmd"
    BY <1>2, <1>3, <2>1 DEF Executed, TypeOK, ShType
  <2>2. CASE line.op = "cmd"
    <3>1. x = Obeyed(line)
      BY <1>3, <2>2 DEF Executed
    <3>2. CASE line.kind = "exit"
      <4>1. line.kind \notin Values
        BY <3>2, ValuesAssumption
      <4>2. QED
        BY <2>2, <3>1, <3>2, <4>1 DEF Obeyed, Dies, TypeOK, ShType
    <3>3. CASE line.kind # "exit"
      BY <1>2, <2>2, <3>1, <3>3 DEF Obeyed, TypeOK, ShType
    <3>4. QED
      BY <3>2, <3>3
  <2>3. QED
    BY <2>1, <2>2
<1>7. QED
  BY <1>5, <1>6 DEF line

LEMMA HandlesStep ==
  ASSUME TypeOK, Handles, Streams, TypeOK', Next
  PROVE  Handles'
<1>1. ASSUME NEW kind \in Kinds \cup Values, Run(kind) PROVE Handles'
  <2>1. Send("run", <<[op |-> "cmd", n |-> asked + 1, kind |-> kind], Line("probe")>>)
    BY <1>1 DEF Run
  <2>2. <<[op |-> "cmd", n |-> asked + 1, kind |-> kind], Line("probe")>> # <<>>
    OBVIOUS
  <2>3. QED
    BY <1>1, <2>1, <2>2, SendHandles DEF Run
<1>2. CASE DumpEnv
  <2>1. Send("dump", <<Line("begin"), Line("set"), Line("end")>>)
    BY <1>2 DEF DumpEnv
  <2>2. <<Line("begin"), Line("set"), Line("end")>> # <<>>
    OBVIOUS
  <2>3. QED
    BY <1>2, <2>1, <2>2, SendHandles DEF DumpEnv
<1>3. CASE Venv
  BY <1>3, WriteHandles, WaitStatusHandles, FindBlockHandles, ReadBlockHandles,
     DumpFailsHandles, DrainHandles, ReturnHandles DEF Venv
<1>4. sh' \in ShType
  BY DEF TypeOK
<1>5. CASE WriteToken
  <2>1. Alive /\ sh'.state = sh.state /\ UNCHANGED <<at, call, handle>>
    BY <1>5 DEF WriteToken, ShellOnly, TypeOK, ShType
  <2>2. QED
    BY <1>4, <2>1, ShellHandles DEF Alive
<1>6. CASE ReadLine
  <2>1. Alive /\ UNCHANGED <<at, call, handle>>
    BY <1>6 DEF ReadLine, ShellOnly, Alive
  <2>2. QED
    BY <1>4, <1>6, <2>1, ShellHandles, ReadLineState
<1>7. CASE Swallow
  <2>1. Alive /\ sh'.state = "runs" /\ UNCHANGED <<at, call, handle>>
    BY <1>7 DEF Swallow, ShellOnly, Alive, TypeOK, ShType
  <2>2. QED
    BY <1>4, <2>1, ShellHandles
<1>8. CASE EndOfInput \/ Killed
  <2>1. Alive /\ sh'.state = "gone" /\ sh'.writing = <<>> /\ UNCHANGED <<at, call, handle>>
    BY <1>8 DEF EndOfInput, Killed, ShellOnly, Dies, TypeOK, ShType
  <2>2. QED
    BY <1>4, <2>1, ShellHandles
<1>9. CASE DaemonEnds
  BY <1>9 DEF DaemonEnds, ShellOnly, Handles, Probing, Dumping, Alive
<1>10. QED
  BY <1>1, <1>2, <1>3, <1>5, <1>6, <1>7, <1>8, <1>9, OpenHandles, CloseHandles DEF Next, Shell

-----------------------------------------------------------------------------
(* Dumps                                                                   *)

EnvAt == IF sh.echo THEN 9 ELSE 4

LEMMA BlockLength ==
  Len(Block) = IF sh.echo THEN 17 ELSE 9
BY DEF Block, Echoed, Plain

\* Its tokens.
LEMMA BlockTokens ==
  ASSUME TypeOK, NEW i \in 1 .. Len(Block)
  PROVE  /\ Block[i] = "END" => i >= EndAt
         /\ Block[i] = "nl" => i >= 3
         /\ Block[i] = "nl" /\ i > EndAt /\ ~sh.echo => i = 9
         /\ Block[i] = "BEGIN" => i < 5
         /\ i >= EndAt => Block[i] \in {"END", "cr", "nl"}
         /\ i # EnvAt => Block[i] \in Words
         /\ Block[EnvAt] = sh.env
<1>1. sh.env \in Values /\ sh.env \notin Words
  BY ValuesAssumption DEF TypeOK, ShType
<1>2. sh.env \notin {"END", "nl", "BEGIN", "cr"}
  BY <1>1 DEF Words
<1>3. CASE sh.echo
  <2>1. Block = Echoed /\ EndAt = 13 /\ EnvAt = 9 /\ i \in 1 .. 17
    BY <1>3, BlockLength DEF Block, EndAt, EnvAt
  <2>2. QED
    BY <1>2, <1>3, <2>1 DEF Echoed, Words
<1>4. CASE ~sh.echo
  <2>1. Block = Plain /\ EndAt = 7 /\ EnvAt = 4 /\ i \in 1 .. 9
    BY <1>4, BlockLength DEF Block, EndAt, EnvAt
  <2>2. QED
    BY <1>2, <1>4, <2>1 DEF Plain, Words
<1>5. QED
  BY <1>3, <1>4

LEMMA BlockMarks ==
  /\ Block[EndAt] = "END" /\ EndAt < Len(Block) /\ 3 < EnvAt /\ EnvAt < EndAt /\ EndAt \in Nat /\ EnvAt \in Nat
  /\ Block[3] = "nl" /\ Block[IF sh.echo THEN 2 ELSE 1] = "BEGIN"
  /\ sh.echo => Block[1] = "text"
<1>1. CASE sh.echo
  BY <1>1 DEF Block, EndAt, EnvAt, Echoed
<1>2. CASE ~sh.echo
  BY <1>2 DEF Block, EndAt, EnvAt, Plain
<1>3. QED
  BY <1>1, <1>2

LEMMA PendingSpells ==
  ASSUME TypeOK, NEW k \in 0 .. Len(Stream), Spells(Stream, k, Block),
         NEW j \in Nat \ {0}, k + j <= Len(handle.pending)
  PROVE  j \in 1 .. Len(Block) /\ handle.pending[k + j] = Block[j]
<1>1. /\ Len(Stream) \in Nat /\ Len(handle.pending) \in Nat /\ Len(handle.pending) <= Len(Stream)
      /\ k \in Nat
  BY Pieces, Length
<1>2. Len(Block) \in Nat
  BY BlockLength
<1>3. PICK i \in Nat : i = k + j
  BY <1>1
<1>4. i \in 1 .. Len(handle.pending) /\ i \in k + 1 .. Len(Stream) /\ i - k = j
  BY <1>1, <1>3
<1>5. Stream[i] = Block[i - k]
  BY <1>4 DEF Spells
<1>6. handle.pending[i] = Stream[i]
  BY <1>4, PendingAt
<1>7. j \in 1 .. Len(Block)
  BY <1>1, <1>2, <1>3, <1>4 DEF Spells
<1>8. QED
  BY <1>3, <1>4, <1>5, <1>6, <1>7

LEMMA PendingCalm ==
  ASSUME TypeOK, NEW k \in 0 .. Len(Stream), Quiet(Stream, k),
         NEW i \in 1 .. Len(handle.pending), i <= k
  PROVE  handle.pending[i] # "BEGIN" /\ handle.pending[i] \in Calm
<1>1. handle.pending[i] = Stream[i] /\ i \in 1 .. k
  BY PendingAt
<1>2. QED
  BY <1>1 DEF Quiet, Calm

\* The block begins after three tokens.
LEMMA BlockBegins ==
  ASSUME TypeOK, NEW k \in 0 .. Len(Stream), Quiet(Stream, k), Spells(Stream, k, Block),
         MarkerLineEnd(handle.pending, "BEGIN") # 0
  PROVE  /\ MarkerLineEnd(handle.pending, "BEGIN") = k + 3 /\ k + 3 <= Len(handle.pending)
         /\ ~sh.echo => First({j \in DOMAIN handle.pending : handle.pending[j] = "BEGIN"}) = k + 1
<1> DEFINE s == handle.pending
           e == MarkerLineEnd(s, "BEGIN")
<1>1. /\ s \in Text /\ Len(s) \in Nat /\ k \in Nat
  BY Pieces, Length
<1>2. /\ e \in 1 .. Len(s) /\ s[e] = "nl"
      /\ \E i \in 1 .. Len(s) : s[i] = "BEGIN" /\ i < e
      /\ \A j \in 1 .. Len(s) : s[j] = "nl" /\ (\E i \in 1 .. Len(s) : s[i] = "BEGIN" /\ i < j) => e <= j
  BY <1>1, MarkerLineEndIn
<1>3. PICK m \in 1 .. Len(s) : s[m] = "BEGIN" /\ m < e
  BY <1>2
<1> HIDE DEF e
<1>4. m > k
  BY <1>1, <1>3, PendingCalm
<1>5. e - k \in Nat \ {0} /\ k + (e - k) = e /\ k + (e - k) <= Len(s) /\ m - k < e - k
  BY <1>1, <1>2, <1>3, <1>4
<1>6. e - k \in 1 .. Len(Block) /\ s[k + (e - k)] = Block[e - k]
  BY <1>5, PendingSpells
<1>7. e - k >= 3
  BY <1>2, <1>5, <1>6, BlockTokens
<1>8. k + 3 <= Len(s)
  BY <1>1, <1>2, <1>7
<1>9. s[k + 3] = "nl"
  BY <1>8, PendingSpells, BlockMarks
<1>10. s[k + (IF sh.echo THEN 2 ELSE 1)] = "BEGIN"
  <2>1. CASE sh.echo
    <3>1. k + 2 <= Len(s)
      BY <1>1, <1>8
    <3>2. s[k + 2] = Block[2]
      BY <3>1, PendingSpells
    <3>3. QED
      BY <2>1, <3>2, BlockMarks
  <2>2. CASE ~sh.echo
    <3>1. k + 1 <= Len(s)
      BY <1>1, <1>8
    <3>2. s[k + 1] = Block[1]
      BY <3>1, PendingSpells
    <3>3. QED
      BY <2>2, <3>2, BlockMarks
  <2>3. QED
    BY <2>1, <2>2
<1>11. e <= k + 3
  <2>1. PICK b \in {1, 2} : s[k + b] = "BEGIN"
    BY <1>10
  <2>2. k + b \in 1 .. Len(s) /\ k + b < k + 3 /\ k + 3 \in 1 .. Len(s)
    BY <1>1, <1>8
  <2>3. QED
    BY <1>2, <1>9, <2>1, <2>2
<1>12. e = k + 3
  BY <1>1, <1>2, <1>7, <1>11
<1>13. ASSUME ~sh.echo PROVE First({j \in DOMAIN s : s[j] = "BEGIN"}) = k + 1
  <2>1. k + 1 \in 1 .. Len(s) /\ s[k + 1] = "BEGIN"
    BY <1>1, <1>8, <1>10, <1>13
  <2>2. ASSUME NEW j \in 1 .. Len(s), s[j] = "BEGIN" PROVE k + 1 <= j
    <3>1. ~(j <= k)
      BY <1>1, <2>2, PendingCalm
    <3>2. QED
      BY <1>1, <3>1
  <2>3. QED
    BY <1>1, <2>1, <2>2, FirstMark
<1>14. QED
  BY <1>8, <1>12, <1>13 DEF e

LEMMA PendingInDump ==
  ASSUME TypeOK, InDump, NEW i \in 1 .. Len(handle.pending)
  PROVE  /\ 3 + Len(call.got) + i \in 1 .. Len(Block)
         /\ handle.pending[i] = Block[3 + Len(call.got) + i]
<1>1. call.got \in Text /\ Len(call.got) \in Nat
  BY OutputText, Length DEF TypeOK, CallType
<1>2. i \in 1 .. Len(Stream) /\ Stream[i] = handle.pending[i]
  BY PendingAt
<1>3. Len(Block) \in Nat /\ Len(Stream) \in Nat
  BY BlockLength, Pieces, Length
<1>4. Stream[i] = Block[3 + Len(call.got) + i] /\ 3 + Len(call.got) + Len(Stream) <= Len(Block)
  BY <1>2 DEF InDump
<1>5. QED
  BY <1>1, <1>2, <1>3, <1>4

LEMMA DumpStart ==
  ASSUME TypeOK, InDump
  PROVE  3 + Len(call.got) \in Nat /\ 3 + Len(call.got) < EndAt /\ EndAt \in Nat
<1>1. Len(call.got) \in Nat
  BY OutputText, Length DEF TypeOK, CallType
<1>2. EndAt \in Nat
  BY DEF EndAt
<1>3. QED
  BY <1>1, <1>2 DEF InDump

\* It ends at the first END.
LEMMA BlockEnds ==
  ASSUME TypeOK, InDump, MarkerLineEnd(handle.pending, "END") # 0
  PROVE  /\ 3 + Len(call.got) + First({j \in DOMAIN handle.pending : handle.pending[j] = "END"}) = EndAt
         /\ First({j \in DOMAIN handle.pending : handle.pending[j] = "END"}) \in 1 .. Len(handle.pending)
         /\ MarkerLineEnd(handle.pending, "END") \in 1 .. Len(handle.pending)
         /\ 3 + Len(call.got) + MarkerLineEnd(handle.pending, "END") > EndAt
         /\ ~sh.echo => 3 + Len(call.got) + MarkerLineEnd(handle.pending, "END") = 9
<1> DEFINE s == handle.pending
           e == MarkerLineEnd(s, "END")
           g == 3 + Len(call.got)
<1>1. /\ s \in Text /\ Len(s) \in Nat /\ g \in Nat /\ g < EndAt /\ EndAt \in Nat
  BY Pieces, DumpStart
<1>2. /\ e \in 1 .. Len(s) /\ s[e] = "nl"
      /\ \E i \in 1 .. Len(s) : s[i] = "END" /\ i < e
  BY <1>1, MarkerLineEndIn
<1>3. PICK m \in 1 .. Len(s) : s[m] = "END" /\ m < e
  BY <1>2
<1>4. \A i \in 1 .. Len(s) : g + i \in 1 .. Len(Block) /\ s[i] = Block[g + i]
  BY PendingInDump
<1> HIDE DEF e, g
<1>5. g + m >= EndAt
  BY <1>3, <1>4, BlockTokens
<1>6. EndAt - g \in 1 .. Len(s) /\ g + (EndAt - g) = EndAt
  BY <1>1, <1>3, <1>5
<1>7. s[EndAt - g] = "END"
  BY <1>4, <1>6, BlockMarks
<1>8. ASSUME NEW j \in 1 .. Len(s), s[j] = "END" PROVE EndAt - g <= j
  <2>1. g + j >= EndAt
    BY <1>4, <1>8, BlockTokens
  <2>2. QED
    BY <1>1, <2>1
<1>9. First({j \in DOMAIN s : s[j] = "END"}) = EndAt - g
  BY <1>1, <1>6, <1>7, <1>8, FirstMark
<1>10. g + e > EndAt
  BY <1>1, <1>2, <1>3, <1>5
<1>11. ASSUME ~sh.echo PROVE g + e = 9
  <2>1. g + e \in 1 .. Len(Block) /\ Block[g + e] = "nl"
    BY <1>2, <1>4
  <2>2. QED
    BY <1>10, <1>11, <2>1, BlockTokens
<1>12. QED
  BY <1>2, <1>6, <1>9, <1>10, <1>11 DEF e, g

LEMMA BlockGoesOn ==
  ASSUME TypeOK, InDump, MarkerLineEnd(handle.pending, "END") = 0
  PROVE  3 + Len(call.got) + LastNewline(handle.pending) < EndAt
<1> DEFINE s == handle.pending
           d == LastNewline(s)
           g == 3 + Len(call.got)
<1>1. /\ s \in Text /\ Len(s) \in Nat /\ g \in Nat /\ g < EndAt /\ EndAt \in Nat
  BY Pieces, DumpStart
<1>2. d \in 0 .. Len(s) /\ (d # 0 => s[d] = "nl")
  BY <1>1, LastNewlineIn
<1>3. \A i \in 1 .. Len(s) : g + i \in 1 .. Len(Block) /\ s[i] = Block[g + i]
  BY PendingInDump
<1> HIDE DEF d, g
<1>4. SUFFICES ASSUME g + d >= EndAt PROVE FALSE
  BY <1>1, <1>2 DEF d, g
<1>5. d \in 1 .. Len(s)
  BY <1>1, <1>2, <1>4
<1>6. g + d # EndAt
  BY <1>2, <1>3, <1>5, BlockMarks
<1>7. EndAt - g \in 1 .. Len(s) /\ g + (EndAt - g) = EndAt /\ EndAt - g < d
  BY <1>1, <1>2, <1>4, <1>5, <1>6
<1>8. s[EndAt - g] = "END"
  BY <1>3, <1>7, BlockMarks
<1>9. QED
  BY <1>1, <1>2, <1>5, <1>7, <1>8, MarkerLineEndZero

-----------------------------------------------------------------------------
(* The lines that are sent                                                 *)

LEMMA SentType ==
  ASSUME TypeOK
  PROVE  Sent \in Seq(Input) /\ stdin \in Seq(Input) /\ call.left \in Seq(Input)
BY ConcatProperties DEF Sent, TypeOK, CallType

LEMMA SentNil ==
  ASSUME TypeOK, Sent = <<>>
  PROVE  stdin = <<>>
<1>1. Len(stdin) + Len(call.left) = 0 /\ Len(stdin) \in Nat /\ Len(call.left) \in Nat
  BY SentType, ConcatProperties, LenProperties, EmptySeq DEF Sent
<1>2. Len(stdin) = 0
  BY <1>1
<1>3. QED
  BY <1>2, SentType, EmptySeq

LEMMA SentOne ==
  ASSUME TypeOK, call.left = <<>>
  PROVE  Sent = stdin
BY SentType, ConcatEmptySeq DEF Sent

LEMMA MoveHead ==
  ASSUME NEW a \in Seq(Input), NEW b \in Seq(Input), b # <<>>
  PROVE  Append(a, Head(b)) \o Tail(b) = a \o b
<1>1. Head(b) \in Input /\ Tail(b) \in Seq(Input) /\ Len(Tail(b)) = Len(b) - 1
  BY HeadTailProperties
<1>2. Len(b) \in Nat /\ Len(b) # 0 /\ Len(a) \in Nat
  BY LenProperties, EmptySeq
<1> DEFINE x == Append(a, Head(b))
           t == Tail(b)
<1>3. x \in Seq(Input) /\ Len(x) = Len(a) + 1 /\ x[Len(a) + 1] = Head(b)
      /\ \A i \in 1 .. Len(a) : x[i] = a[i]
  BY <1>1, AppendProperties
<1>4. Head(b) = b[1] /\ \A i \in 1 .. Len(t) : t[i] = b[i + 1]
  BY <1>1, HeadTailProperties
<1> HIDE DEF x, t
<1>5. x \o t \in Seq(Input) /\ a \o b \in Seq(Input) /\ Len(x \o t) = Len(x) + Len(t)
      /\ Len(a \o b) = Len(a) + Len(b)
  BY <1>1, <1>3, ConcatProperties DEF t
<1>6. Len(x \o t) = Len(a \o b)
  BY <1>1, <1>2, <1>3, <1>5 DEF t
<1>7. ASSUME NEW i \in 1 .. Len(a \o b) PROVE (x \o t)[i] = (a \o b)[i]
  <2>1. (a \o b)[i] = IF i <= Len(a) THEN a[i] ELSE b[i - Len(a)]
    BY <1>5, <1>7, ConcatProperties
  <2>2. (x \o t)[i] = IF i <= Len(x) THEN x[i] ELSE t[i - Len(x)]
    <3>1. t \in Seq(Input)
      BY <1>1 DEF t
    <3>2. i \in 1 .. Len(x) + Len(t)
      BY <1>5, <1>6, <1>7
    <3>3. QED
      BY <1>3, <3>1, <3>2, ConcatProperties
  <2>3. i \in Nat /\ i \in 1 .. Len(a) + Len(b)
    BY <1>2, <1>5
  <2>4. CASE i <= Len(a)
    BY <1>2, <1>3, <2>1, <2>2, <2>3, <2>4
  <2>5. CASE i = Len(a) + 1
    <3>1. ~(i <= Len(a)) /\ i - Len(a) = 1 /\ i <= Len(x)
      BY <1>2, <1>3, <2>5
    <3>2. QED
      BY <1>3, <1>4, <2>1, <2>2, <2>5, <3>1
  <2>6. CASE i > Len(a) + 1
    <3>1. /\ ~(i <= Len(a)) /\ ~(i <= Len(x)) /\ i - Len(x) \in 1 .. Len(t)
          /\ i - Len(x) + 1 = i - Len(a)
      BY <1>1, <1>2, <1>3, <2>3, <2>6 DEF t
    <3>2. t[i - Len(x)] = b[i - Len(x) + 1]
      BY <1>4, <3>1
    <3>3. QED
      BY <2>1, <2>2, <3>1, <3>2
  <2>7. i <= Len(a) \/ i = Len(a) + 1 \/ i > Len(a) + 1
    BY <1>2, <2>3
  <2>8. QED
    BY <2>4, <2>5, <2>6, <2>7
<1>8. x \o t = a \o b
  BY <1>5, <1>6, <1>7, SeqEqual
<1>9. QED
  BY <1>8 DEF x, t

LEMMA TakeHead ==
  ASSUME NEW a \in Seq(Input), NEW b \in Seq(Input), a # <<>>
  PROVE  a \o b # <<>> /\ Head(a \o b) = Head(a) /\ Tail(a) \o b = Tail(a \o b)
<1>1. Head(a) \in Input /\ Tail(a) \in Seq(Input) /\ Len(Tail(a)) = Len(a) - 1
  BY HeadTailProperties
<1>2. Len(a) \in Nat /\ Len(a) # 0 /\ Len(b) \in Nat
  BY LenProperties, EmptySeq
<1> DEFINE c == a \o b
           t == Tail(a)
<1>3. c \in Seq(Input) /\ Len(c) = Len(a) + Len(b)
  BY ConcatProperties
<1>4. \A i \in 1 .. Len(a) + Len(b) : c[i] = IF i <= Len(a) THEN a[i] ELSE b[i - Len(a)]
  BY ConcatProperties
<1>5. Head(a) = a[1] /\ \A i \in 1 .. Len(t) : t[i] = a[i + 1]
  BY <1>1, HeadTailProperties
<1> HIDE DEF c
<1>6. Len(c) # 0 /\ c # <<>>
  <2>1. Len(c) # 0
    BY <1>2, <1>3
  <2>2. QED
    BY <1>3, <2>1, EmptySeq
<1>7. /\ Head(c) = c[1] /\ Tail(c) \in Seq(Input) /\ Len(Tail(c)) = Len(c) - 1
      /\ \A i \in 1 .. Len(Tail(c)) : Tail(c)[i] = c[i + 1]
  BY <1>3, <1>6, HeadTailProperties
<1>8. c[1] = a[1]
  <2>1. 1 \in 1 .. Len(a) + Len(b) /\ 1 <= Len(a)
    BY <1>2
  <2>2. QED
    BY <1>4, <2>1
<1>9. t \o b \in Seq(Input) /\ Len(t \o b) = Len(t) + Len(b)
  BY <1>1, ConcatProperties
<1>10. Len(t \o b) = Len(Tail(c))
  BY <1>1, <1>2, <1>3, <1>7, <1>9
<1>11. ASSUME NEW i \in 1 .. Len(t \o b) PROVE (t \o b)[i] = Tail(c)[i]
  <2>1. (t \o b)[i] = IF i <= Len(t) THEN t[i] ELSE b[i - Len(t)]
    BY <1>1, <1>9, <1>11, ConcatProperties
  <2>2. Tail(c)[i] = c[i + 1]
    BY <1>7, <1>10
  <2>3. i + 1 \in 1 .. Len(a) + Len(b) /\ i \in Nat
    BY <1>1, <1>2, <1>9
  <2>4. c[i + 1] = IF i + 1 <= Len(a) THEN a[i + 1] ELSE b[i + 1 - Len(a)]
    BY <1>4, <2>3
  <2>5. CASE i <= Len(t)
    <3>1. i \in 1 .. Len(t) /\ i + 1 <= Len(a)
      BY <1>1, <1>2, <2>3, <2>5
    <3>2. QED
      BY <1>5, <2>1, <2>2, <2>4, <2>5, <3>1
  <2>6. CASE ~(i <= Len(t))
    <3>1. ~(i + 1 <= Len(a)) /\ i - Len(t) = i + 1 - Len(a)
      BY <1>1, <1>2, <2>3, <2>6
    <3>2. QED
      BY <2>1, <2>2, <2>4, <2>6, <3>1
  <2>7. QED
    BY <2>5, <2>6
<1>12. t \o b = Tail(c)
  BY <1>7, <1>9, <1>10, <1>11, SeqEqual
<1>13. QED
  BY <1>6, <1>7, <1>8, <1>5, <1>12 DEF c

\* When a dump is complete, no line is left.
LEMMA AllSaid ==
  ASSUME TypeOK, Lines, InDump, Dumping, Alive, MarkerLineEnd(handle.pending, "END") # 0
  PROVE  Sent = <<>>
<1>1. Sent \in {<<Line("begin"), Line("set"), Line("end")>>,
                <<Line("set"), Line("end")>>, <<Line("end")>>, <<>>}
  BY DEF Lines
<1>2. Len(Sent) \in 0 .. 3 /\ (Len(Sent) = 0 => Sent = <<>>)
  BY <1>1
<1>3. 3 + Len(call.got) + Len(Stream) = Said
  BY DEF InDump
<1>4. /\ 3 + Len(call.got) \in Nat
      /\ MarkerLineEnd(handle.pending, "END") \in 1 .. Len(handle.pending)
      /\ 3 + Len(call.got) + MarkerLineEnd(handle.pending, "END") > EndAt
  BY BlockEnds, DumpStart
<1>5. Said > EndAt
  BY <1>3, <1>4, Pieces, Length, DumpStart
<1>6. Len(Sent) = 0
  BY <1>2, <1>5 DEF Said, EndAt
<1>7. QED
  BY <1>2, <1>6

LEMMA ReadSent ==
  ASSUME TypeOK, ReadLine
  PROVE  Sent # <<>> /\ Head(stdin) = Head(Sent) /\ Sent' = Tail(Sent)
<1>1. stdin \in Seq(Input) /\ call.left \in Seq(Input) /\ stdin # <<>>
  BY SentType DEF ReadLine
<1>2. stdin \o call.left # <<>> /\ Head(stdin \o call.left) = Head(stdin)
      /\ Tail(stdin) \o call.left = Tail(stdin \o call.left)
  BY <1>1, TakeHead
<1>3. stdin' = Tail(stdin) /\ call' = call
  BY DEF ReadLine, ShellOnly
<1>4. QED
  BY <1>2, <1>3 DEF Sent

\* The line that the shell reads is the next one of the call.
ReadOff == /\ Head(stdin) = Line("off") /\ Probing /\ call.op = "open"
           /\ Sent' = <<Line("probe")>>
ReadProbe == /\ Head(stdin) = Line("probe") /\ Probing /\ at = "status" /\ Sent' = <<>>
             /\ call.op = "run" => HasRun /\ sh.last = Own(asked)
ReadCommand == /\ Probing /\ call.op = "run" /\ ~HasRun /\ Sent' = <<Line("probe")>>
               /\ \E kind \in Kinds \cup Values : Head(stdin) = Cmd(kind)
ReadDump == /\ Dumping
            /\ \/ Head(stdin) = Line("begin") /\ Len(Sent) = 3 /\ Sent' = <<Line("set"), Line("end")>>
               \/ Head(stdin) = Line("set") /\ Len(Sent) = 2 /\ Sent' = <<Line("end")>>
               \/ Head(stdin) = Line("end") /\ Len(Sent) = 1 /\ Sent' = <<>>

LEMMA ReadCases ==
  ASSUME TypeOK, Handles, Lines, ReadLine
  PROVE  ReadOff \/ ReadProbe \/ ReadCommand \/ ReadDump
<1>1. Sent # <<>> /\ Head(stdin) = Head(Sent) /\ Sent' = Tail(Sent)
  BY ReadSent
<1>2. Alive /\ sh.state = "runs"
  BY DEF ReadLine, Alive
<1>3. Probing \/ Dumping
  BY <1>1, <1>2 DEF Lines
<1>4. ASSUME Probing, Sent = <<Line("probe")>>
      PROVE  Head(stdin) = Line("probe") /\ Sent' = <<>> /\ at = "status"
  <2>1. Head(stdin) = Line("probe") /\ Sent' = <<>>
    BY <1>1, <1>4
  <2>2. Len(Sent) = 1
    BY <1>4
  <2>3. Len(stdin) + Len(call.left) = 1 /\ Len(stdin) \in Nat /\ Len(call.left) \in Nat
    BY <2>2, SentType, ConcatProperties, LenProperties DEF Sent
  <2>4. Len(stdin) # 0
    BY SentType, EmptySeq DEF ReadLine
  <2>5. Len(call.left) = 0
    BY <2>3, <2>4
  <2>6. call.left = <<>>
    BY <2>5, SentType, EmptySeq
  <2>7. QED
    BY <1>4, <2>1, <2>6 DEF Handles, Probing
<1>5. CASE Probing /\ call.op = "open"
  <2>1. Sent \in {<<Line("off"), Line("probe")>>, <<Line("probe")>>}
    BY <1>1, <1>2, <1>5 DEF Lines
  <2>2. CASE Sent = <<Line("off"), Line("probe")>>
    <3>1. Head(stdin) = Line("off") /\ Sent' = <<Line("probe")>>
      BY <1>1, <2>2
    <3>2. QED
      BY <1>5, <3>1 DEF ReadOff
  <2>3. CASE Sent = <<Line("probe")>>
    BY <1>4, <1>5, <2>3 DEF ReadProbe
  <2>4. QED
    BY <2>1, <2>2, <2>3
<1>6. CASE Probing /\ call.op = "run"
  <2>1. \/ (\E kind \in Kinds \cup Values : Sent = <<Cmd(kind), Line("probe")>>) /\ ~HasRun
        \/ Sent = <<Line("probe")>> /\ HasRun /\ sh.last = Own(asked)
    BY <1>1, <1>2, <1>6 DEF Lines
  <2>2. CASE (\E kind \in Kinds \cup Values : Sent = <<Cmd(kind), Line("probe")>>) /\ ~HasRun
    <3>1. PICK kind \in Kinds \cup Values : Sent = <<Cmd(kind), Line("probe")>>
      BY <2>2
    <3>2. Head(stdin) = Cmd(kind) /\ Sent' = <<Line("probe")>>
      BY <1>1, <3>1
    <3>3. QED
      BY <1>6, <2>2, <3>2 DEF ReadCommand
  <2>3. CASE Sent = <<Line("probe")>> /\ HasRun /\ sh.last = Own(asked)
    BY <1>4, <1>6, <2>3 DEF ReadProbe
  <2>4. QED
    BY <2>1, <2>2, <2>3
<1>7. CASE Dumping
  <2>1. Sent \in {<<Line("begin"), Line("set"), Line("end")>>,
                  <<Line("set"), Line("end")>>, <<Line("end")>>}
    BY <1>1, <1>2, <1>7 DEF Lines
  <2>2. CASE Sent = <<Line("begin"), Line("set"), Line("end")>>
    <3>1. Head(stdin) = Line("begin") /\ Sent' = <<Line("set"), Line("end")>> /\ Len(Sent) = 3
      BY <1>1, <2>2
    <3>2. QED
      BY <1>7, <3>1 DEF ReadDump
  <2>3. CASE Sent = <<Line("set"), Line("end")>>
    <3>1. Head(stdin) = Line("set") /\ Sent' = <<Line("end")>> /\ Len(Sent) = 2
      BY <1>1, <2>3
    <3>2. QED
      BY <1>7, <3>1 DEF ReadDump
  <2>4. CASE Sent = <<Line("end")>>
    <3>1. Head(stdin) = Line("end") /\ Sent' = <<>> /\ Len(Sent) = 1
      BY <1>1, <2>4
    <3>2. QED
      BY <1>7, <3>1 DEF ReadDump
  <2>5. QED
    BY <2>1, <2>2, <2>3, <2>4
<1>8. QED
  BY <1>3, <1>5, <1>6, <1>7 DEF Probing

\* What the shell does with a line that is not a command,
LEMMA ReadOther ==
  ASSUME TypeOK, ReadLine, NEW op \in {"off", "probe", "begin", "set", "end"}, Head(stdin) = Line(op)
  PROVE  /\ sh'.state = "runs" /\ sh'.last = sh.last /\ sh'.env = sh.env /\ sh'.code = sh.code
         /\ sh'.echo = (sh.echo /\ op # "off")
         /\ sh'.writing = Repeated(Line(op)) \o Says(Line(op))
         /\ sh'.hidden = Hidden(Line(op))
         /\ sh'.noisy = (sh.noisy \/ (sh.echo /\ op = "begin"))
         /\ ran' = ran
<1>1. Line(op).op = op /\ Line(op).kind = "" /\ Line(op).kind # "exit" /\ Line(op).op # "cmd"
  BY DEF Line
<1>2. sh.state = "runs" /\ sh \in ShType
  BY DEF ReadLine, TypeOK
<1>3. PICK x \in ShType : x = Executed(Line(op))
  BY LineInput, ExecutedType
<1>4. x = IF op = "off" THEN [sh EXCEPT !.echo = FALSE] ELSE sh
  BY <1>1, <1>3 DEF Executed
<1>5. sh' = [x EXCEPT !.writing = Repeated(Line(op)) \o Says(Line(op)),
                      !.hidden = Hidden(Line(op)),
                      !.noisy = @ \/ (sh.echo /\ op = "begin")]
  BY <1>1, <1>3 DEF ReadLine
<1>6. /\ x.state = "runs" /\ x.last = sh.last /\ x.env = sh.env /\ x.code = sh.code
      /\ x.echo = (sh.echo /\ op # "off") /\ x.noisy = sh.noisy
  BY <1>2, <1>4 DEF ShType
<1>7. ran' = ran
  BY <1>1 DEF ReadLine
<1>8. QED
  BY <1>5, <1>6, <1>7 DEF ShType

\* and with a command.
LEMMA ReadCmd ==
  ASSUME TypeOK, ReadLine, NEW kind \in Kinds \cup Values, Head(stdin) = Cmd(kind)
  PROVE  /\ sh'.noisy = sh.noisy /\ sh'.hidden = 0 /\ ran' = Append(ran, asked)
         /\ kind = "exit" => sh'.state = "gone" /\ sh'.code = Own(asked) /\ sh'.writing = <<>>
         /\ kind # "exit" => /\ sh'.state \in {"runs", "swallows"} /\ sh'.last = Own(asked)
                             /\ sh'.writing = Repeated(Cmd(kind)) \o Says(Cmd(kind))
<1>1. Cmd(kind).op = "cmd" /\ Cmd(kind).kind = kind /\ Cmd(kind).n = asked
  BY DEF Cmd
<1>2. sh.state = "runs" /\ sh \in ShType
  BY DEF ReadLine, TypeOK
<1>3. Cmd(kind) \in Input
  BY DEF Cmd, Input, TypeOK
<1>4. PICK x \in ShType : x = Executed(Cmd(kind))
  BY <1>3, ExecutedType
<1>5. x = Obeyed(Cmd(kind))
  BY <1>1, <1>4 DEF Executed
<1>6. sh' = [x EXCEPT !.writing = IF kind = "exit" THEN <<>> ELSE Repeated(Cmd(kind)) \o Says(Cmd(kind)),
                      !.hidden = Hidden(Cmd(kind)),
                      !.noisy = @ \/ (sh.echo /\ "cmd" = "begin")]
  BY <1>1, <1>4 DEF ReadLine
<1>7. Hidden(Cmd(kind)) = 0
  BY <1>1 DEF Hidden
<1>8. sh'.hidden = 0 /\ sh'.noisy = x.noisy /\ sh'.state = x.state /\ sh'.code = x.code /\ sh'.last = x.last
      /\ sh'.writing = IF kind = "exit" THEN <<>> ELSE Repeated(Cmd(kind)) \o Says(Cmd(kind))
  BY <1>6, <1>7 DEF ShType
<1>9. ran' = Append(ran, asked)
  BY <1>1 DEF ReadLine
<1>10. CASE kind = "exit"
  <2>1. kind \notin Values
    BY <1>10, ValuesAssumption
  <2>2. x = Dies(Own(asked))
    BY <1>1, <1>5, <1>10, <2>1 DEF Obeyed
  <2>3. x.state = "gone" /\ x.code = Own(asked) /\ x.noisy = sh.noisy
    BY <1>2, <2>2 DEF Dies, ShType
  <2>4. QED
    BY <1>8, <1>9, <1>10, <2>3
<1>11. CASE kind # "exit"
  <2>1. /\ x.state \in {"runs", "swallows"} /\ x.last = Own(asked) /\ x.noisy = sh.noisy
    BY <1>1, <1>2, <1>5, <1>11 DEF Obeyed, ShType
  <2>2. QED
    BY <1>8, <1>9, <1>11, <2>1
<1>12. QED
  BY <1>10, <1>11

LEMMA HasRunNow ==
  ASSUME TypeOK, ran' = Append(ran, asked), asked' = asked
  PROVE  HasRun'
<1>1. ran \in Seq(Nat) /\ asked \in Nat
  BY DEF TypeOK
<1>2. /\ Len(ran) + 1 \in DOMAIN Append(ran, asked)
      /\ Append(ran, asked)[Len(ran) + 1] = asked
  <2>1. Append(ran, asked) \in Seq(Nat) /\ Len(Append(ran, asked)) = Len(ran) + 1 /\ Len(ran) \in Nat
        /\ Append(ran, asked)[Len(ran) + 1] = asked
    BY <1>1, AppendProperties, LenProperties
  <2>2. DOMAIN Append(ran, asked) = 1 .. Len(ran) + 1
    BY <2>1, LenProperties
  <2>3. QED
    BY <2>1, <2>2
<1>3. QED
  BY <1>2 DEF HasRun

\* The numbers of the commands.
LEMMA CountedStep ==
  ASSUME TypeOK, Handles, Counted, Lines, TypeOK', Next
  PROVE  Counted'
<1>1. ASSUME UNCHANGED <<asked, ran, answers>>, call'.op = call.op PROVE Counted'
  BY <1>1 DEF Counted
<1>2. ASSUME UNCHANGED <<asked, ran, answers>>, call.op # "run", call'.op # "run" PROVE Counted'
  BY <1>2 DEF Counted
<1>3. CASE Open
  <2>1. UNCHANGED <<asked, ran, answers>> /\ call'.op = "open" /\ at = "config"
    BY <1>3 DEF Open, Idle
  <2>2. call.op = "none"
    BY <2>1 DEF Handles
  <2>3. QED
    BY <1>2, <2>1, <2>2
<1>4. ASSUME NEW kind \in Kinds \cup Values, Run(kind) PROVE Counted'
  <2>1. call.op = "none" /\ UNCHANGED <<ran, answers>> /\ asked' = asked + 1 /\ call'.op = "run"
    BY <1>4 DEF Run, Send, Handles, Idle
  <2>2. asked \in Nat /\ ran \in Seq(Nat)
    BY DEF TypeOK
  <2>3. Len(answers) = asked /\ \A i \in DOMAIN ran : ran[i] <= asked
    BY <2>1 DEF Counted
  <2>4. ASSUME NEW i \in DOMAIN ran PROVE ran[i] <= asked + 1
    <3>1. ran[i] \in Nat
      BY <2>2, LenProperties, ElementOfSeq
    <3>2. QED
      BY <2>2, <2>3, <3>1
  <2>5. QED
    BY <2>1, <2>2, <2>3, <2>4 DEF Counted
<1>5. CASE DumpEnv
  <2>1. call.op = "none" /\ UNCHANGED <<asked, ran, answers>> /\ call'.op = "dump"
    BY <1>5 DEF DumpEnv, Send, Handles, Idle
  <2>2. QED
    BY <1>2, <2>1
<1>6. CASE Close
  <2>1. call.op = "none" /\ UNCHANGED <<asked, ran, answers>> /\ call'.op = "close"
    BY <1>6 DEF Close, Handles, Idle, history
  <2>2. QED
    BY <1>2, <2>1
<1>7. CASE Write \/ WaitStatus \/ FindBlock \/ ReadBlock \/ DumpFails \/ Drain
  <2>1. UNCHANGED <<asked, ran, answers>>
    BY <1>7 DEF Write, WaitStatus, FindBlock, ReadBlock, DumpFails, Drain, history
  <2>2. call'.op = call.op
    BY <1>7 DEF Write, WaitStatus, ShellGone, FindBlock, ReadBlock, DumpFails, Drain, TypeOK, CallType
  <2>3. QED
    BY <1>1, <2>1, <2>2
<1>8. CASE Return
  <2>1. UNCHANGED <<asked, ran>> /\ call'.op # "run"
    BY <1>8 DEF Return, Idle
  <2>2. CASE call.op = "run"
    <3>1. answers' = Append(answers, Outcome)
      BY <1>8, <2>2 DEF Return
    <3>2. Len(answers') = Len(answers) + 1
      <4>1. Outcome \in Nat
        BY DEF Outcome, FAILURE, TypeOK, CallType
      <4>2. QED
        BY <3>1, <4>1, AppendProperties DEF TypeOK
    <3>3. Len(answers) = asked - 1 /\ asked \in Nat
      BY <2>2 DEF Counted, TypeOK
    <3>4. Len(answers') = asked
      BY <3>2, <3>3
    <3>5. QED
      BY <2>1, <3>4 DEF Counted
  <2>3. CASE call.op # "run"
    <3>1. answers' = answers
      BY <1>8, <2>3 DEF Return
    <3>2. QED
      BY <1>2, <2>1, <2>3, <3>1
  <2>4. QED
    BY <2>2, <2>3
<1>9. CASE ReadLine
  <2>1. UNCHANGED <<asked, answers, call>>
    BY <1>9 DEF ReadLine, ShellOnly
  <2>2. ran' = ran \/ ran' = Append(ran, asked)
    <3>1. ASSUME NEW op \in {"off", "probe", "begin", "set", "end"}, Head(stdin) = Line(op)
          PROVE  ran' = ran
      BY <1>9, <3>1, ReadOther
    <3>2. ASSUME NEW kind \in Kinds \cup Values, Head(stdin) = Cmd(kind)
          PROVE  ran' = Append(ran, asked)
      BY <1>9, <3>2, ReadCmd
    <3>3. QED
      BY <1>9, <3>1, <3>2, ReadCases DEF ReadOff, ReadProbe, ReadCommand, ReadDump
  <2>3. CASE ran' = ran
    BY <1>1, <2>1, <2>3
  <2>4. CASE ran' = Append(ran, asked)
    <3>1. ran \in Seq(Nat) /\ asked \in Nat
      BY DEF TypeOK
    <3>2. ASSUME NEW i \in DOMAIN ran' PROVE ran'[i] <= asked
      <4>1. Len(ran') = Len(ran) + 1 /\ ran'[Len(ran) + 1] = asked /\ Len(ran) \in Nat
            /\ \A j \in 1 .. Len(ran) : ran'[j] = ran[j]
        BY <2>4, <3>1, AppendProperties, LenProperties
      <4>2. i \in 1 .. Len(ran) + 1
        BY <4>1, LenProperties DEF TypeOK
      <4>3. CASE i = Len(ran) + 1
        BY <3>1, <4>1, <4>3
      <4>4. CASE i # Len(ran) + 1
        <5>1. i \in 1 .. Len(ran) /\ i \in DOMAIN ran
          BY <3>1, <4>1, <4>2, <4>4, LenProperties
        <5>2. QED
          BY <4>1, <5>1 DEF Counted
      <4>5. QED
        BY <4>3, <4>4
    <3>3. QED
      BY <2>1, <3>2 DEF Counted
  <2>5. QED
    BY <2>2, <2>3, <2>4
<1>10. CASE WriteToken \/ Swallow \/ EndOfInput \/ Killed \/ DaemonEnds
  <2>1. UNCHANGED <<asked, ran, answers, call>>
    BY <1>10 DEF WriteToken, Swallow, EndOfInput, Killed, DaemonEnds, ShellOnly
  <2>2. QED
    BY <1>1, <2>1
<1>11. QED
  BY <1>3, <1>4, <1>5, <1>6, <1>7, <1>8, <1>9, <1>10 DEF Next, Venv, Shell

LEMMA NoShellLines ==
  ASSUME ~Alive'
  PROVE  Lines'
BY DEF Lines

LEMMA SameLines ==
  ASSUME Lines, UNCHANGED <<at, asked, ran>>, call'.op = call.op, Sent' = Sent,
         sh'.state = sh.state, sh'.last = sh.last
  PROVE  Lines'
BY DEF Lines, Alive, Probing, Dumping, HasRun, Cmd

LEMMA QuietLines ==
  ASSUME Alive' => Sent' = <<>> /\ sh'.state # "swallows", ~Probing', ~Dumping'
  PROVE  Lines'
BY DEF Lines

LEMMA OpenLines ==
  ASSUME TypeOK, Open
  PROVE  Lines'
<1>1. call'.op = "open" /\ call'.left = <<Line("off"), Line("probe")>> /\ stdin' = <<>>
      /\ sh'.state = "runs"
  BY DEF Open, Idle, NoShell
<1>2. <<Line("off"), Line("probe")>> \in Seq(Input)
  BY LineInput
<1>3. Sent' = <<Line("off"), Line("probe")>>
  BY <1>1, <1>2, ConcatEmptySeq DEF Sent
<1>4. QED
  <2>1. at' = "write"
    BY DEF Open
  <2>2. Probing' /\ ~Dumping' /\ sh'.state # "swallows" /\ call'.op # "run"
    BY <1>1, <2>1 DEF Probing, Dumping
  <2>3. QED
    BY <1>1, <1>3, <2>2 DEF Lines

\* The lines of a call are sent to a shell that has read all the others.
LEMMA SendLines ==
  ASSUME TypeOK, Handles, Lines, at = "config", NEW op \in {"run", "dump"}, NEW lines \in Seq(Input),
         Send(op, lines), UNCHANGED <<sh, stdin>>, Alive
  PROVE  Sent' = lines /\ call'.op = op /\ at' = "write" /\ sh.state = "runs"
<1>1. ~handle.dead
  BY DEF Handles
<1>2. at' = "write" /\ call' = [Idle EXCEPT !.op = op, !.left = lines]
  BY <1>1 DEF Send
<1>3. call'.left = lines /\ call'.op = op
  BY <1>2 DEF Idle
<1>4. Sent = <<>> /\ sh.state # "swallows"
  BY DEF Lines, Probing, Dumping
<1>5. stdin = <<>>
  BY <1>4, SentNil
<1>6. Sent' = lines
  BY <1>3, <1>5, ConcatEmptySeq DEF Sent
<1>7. QED
  BY <1>2, <1>3, <1>4, <1>6 DEF Alive

LEMMA RunLines ==
  ASSUME TypeOK, Handles, Counted, Lines, NEW kind \in Kinds \cup Values, Run(kind)
  PROVE  Lines'
<1>1. CASE ~Alive
  <2>1. ~Alive'
    BY <1>1 DEF Run, Alive
  <2>2. QED
    BY <2>1, NoShellLines
<1>2. CASE Alive
  <2> DEFINE line == [op |-> "cmd", n |-> asked + 1, kind |-> kind]
  <2>1. asked + 1 \in Nat /\ asked' = asked + 1 /\ ran' = ran /\ at = "config" /\ asked \in Nat
        /\ UNCHANGED <<sh, stdin>>
    BY DEF Run, TypeOK
  <2>2. line \in Input /\ Line("probe") \in Input
    BY <2>1, LineInput DEF Input
  <2>3. Send("run", <<line, Line("probe")>>)
    BY DEF Run
  <2>4. Cmd(kind)' = line
    BY <2>1 DEF Cmd
  <2> HIDE DEF line
  <2>5. <<line, Line("probe")>> \in Seq(Input)
    BY <2>2
  <2>6. Sent' = <<line, Line("probe")>> /\ call'.op = "run" /\ at' = "write" /\ sh.state = "runs"
    BY <1>2, <2>1, <2>3, <2>5, SendLines
  <2>7. ~HasRun'
    <3>1. ASSUME NEW i \in DOMAIN ran PROVE ran[i] # asked + 1
      <4>1. ran[i] <= asked /\ ran[i] \in Nat
        BY LenProperties, ElementOfSeq DEF Counted, TypeOK
      <4>2. QED
        BY <2>1, <4>1
    <3>2. QED
      BY <2>1, <3>1 DEF HasRun
  <2>8. \E k \in Kinds \cup Values : Sent' = <<Cmd(k)', Line("probe")>>
    BY <2>4, <2>6
  <2>9. Probing' /\ ~Dumping' /\ sh'.state = "runs"
    BY <2>1, <2>6 DEF Probing, Dumping
  <2>10. QED
    BY <2>6, <2>7, <2>8, <2>9 DEF Lines
<1>3. QED
  BY <1>1, <1>2

LEMMA DumpEnvLines ==
  ASSUME TypeOK, Handles, Lines, DumpEnv
  PROVE  Lines'
<1>1. CASE ~Alive
  <2>1. ~Alive'
    BY <1>1 DEF DumpEnv, Alive
  <2>2. QED
    BY <2>1, NoShellLines
<1>2. CASE Alive
  <2>1. at = "config" /\ UNCHANGED <<sh, stdin>>
        /\ Send("dump", <<Line("begin"), Line("set"), Line("end")>>)
    BY DEF DumpEnv
  <2>2. <<Line("begin"), Line("set"), Line("end")>> \in Seq(Input)
    BY LineInput
  <2>3. /\ Sent' = <<Line("begin"), Line("set"), Line("end")>> /\ call'.op = "dump" /\ at' = "write"
        /\ sh.state = "runs"
    BY <1>2, <2>1, <2>2, SendLines
  <2>4. Dumping' /\ ~Probing' /\ sh'.state = "runs"
    BY <2>1, <2>3 DEF Probing, Dumping
  <2>5. QED
    BY <2>3, <2>4 DEF Lines
<1>3. QED
  BY <1>1, <1>2

LEMMA WriteSent ==
  ASSUME TypeOK, Handles, Write, Alive \/ daemon
  PROVE  /\ Sent' = Sent /\ call'.op = call.op /\ Probing' = Probing /\ Dumping' = Dumping
         /\ UNCHANGED <<handle, sh, out, daemon, term, history>>
<1>1. /\ at = "write" /\ call.left # <<>> /\ call.left \in Seq(Input) /\ stdin \in Seq(Input)
      /\ call.op \in {"open", "run", "dump"}
  BY DEF Handles, Write, TypeOK, CallType, Probing, Dumping
<1>2. /\ stdin' = Append(stdin, Head(call.left)) /\ call' = [call EXCEPT !.left = Tail(call.left)]
      /\ at' = IF Len(call.left) > 1 THEN "write"
               ELSE IF call.op = "dump" THEN "dump" ELSE "status"
      /\ UNCHANGED <<handle, sh, out, daemon, term, history>>
  BY DEF Write
<1>3. call'.left = Tail(call.left) /\ call'.op = call.op
  BY <1>2 DEF TypeOK, CallType
<1>4. Sent' = Sent
  BY <1>1, <1>2, <1>3, MoveHead DEF Sent
<1>5. Probing' = Probing /\ Dumping' = Dumping
  BY <1>1, <1>2, <1>3 DEF Probing, Dumping
<1>6. QED
  BY <1>2, <1>3, <1>4, <1>5

LEMMA WriteLines ==
  ASSUME TypeOK, Handles, Lines, Write
  PROVE  Lines'
<1>1. CASE Alive \/ daemon
  <2>1. /\ Sent' = Sent /\ call'.op = call.op /\ Probing' = Probing /\ Dumping' = Dumping
        /\ UNCHANGED <<sh, history>>
    BY <1>1, WriteSent
  <2>2. QED
    BY <2>1 DEF Lines, Alive, HasRun, Cmd, history
<1>2. CASE ~(Alive \/ daemon)
  <2>1. ~Alive'
    BY <1>2 DEF Write, Alive
  <2>2. QED
    BY <2>1, NoShellLines
<1>3. QED
  BY <1>1, <1>2

LEMMA WaitStatusLines ==
  ASSUME TypeOK, Handles, Lines, Streams, WaitStatus
  PROVE  Lines'
<1>1. CASE \E k \in 0 .. Len(Stream) : Found(k)
  <2>1. PICK k \in 0 .. Len(Stream) : Found(k)
    BY <1>1
  <2>2. Alive => Sent = <<>>
    BY <2>1 DEF Found, StatusAfter
  <2>3. Alive => sh.state # "swallows"
    BY <2>2 DEF Lines
  <2>4. call'.left = call.left /\ at' = "return" /\ UNCHANGED <<sh, stdin>>
    BY <2>1 DEF Found, TypeOK, CallType
  <2>5. Sent' = Sent /\ ~Probing' /\ ~Dumping' /\ Alive' = Alive
    BY <2>4 DEF Sent, Probing, Dumping, Alive
  <2>6. QED
    BY <2>2, <2>3, <2>4, <2>5, QuietLines
<1>2. CASE NotFound
  <2>1. UNCHANGED <<at, asked, ran, call, stdin, sh>>
    BY <1>2 DEF NotFound, history
  <2>2. Sent' = Sent
    BY <2>1 DEF Sent
  <2>3. QED
    BY <2>1, <2>2, SameLines
<1>3. CASE ShellGone /\ UNCHANGED <<sh, stdin, daemon, history>>
  <2>1. ~Alive'
    BY <1>3 DEF ShellGone, EofOnOut, Alive
  <2>2. QED
    BY <2>1, NoShellLines
<1>4. QED
  BY <1>1, <1>2, <1>3, WaitCases

LEMMA FindBlockLines ==
  ASSUME TypeOK, Handles, Lines, FindBlock
  PROVE  Lines'
<1>1. UNCHANGED <<at, asked, ran, stdin, sh>> /\ call'.op = call.op /\ call'.left = call.left
  BY DEF FindBlock, history, TypeOK, CallType
<1>2. Sent' = Sent
  BY <1>1 DEF Sent
<1>3. QED
  BY <1>1, <1>2, SameLines

LEMMA ReadBlockLines ==
  ASSUME TypeOK, Handles, Lines, Streams, ReadBlock
  PROVE  Lines'
<1>1. UNCHANGED <<asked, ran, stdin, sh>> /\ call'.op = call.op /\ call'.left = call.left
  BY DEF ReadBlock, history, TypeOK, CallType
<1>2. Sent' = Sent
  BY <1>1 DEF Sent
<1>3. Dumping /\ call.inBlock /\ ~handle.dead
  BY DEF ReadBlock, Handles, Dumping, Probing
<1>4. InDump
  BY <1>3 DEF Streams
<1>5. CASE MarkerLineEnd(handle.pending, "END") = 0
  <2>1. at' = at
    BY <1>5 DEF ReadBlock
  <2>2. QED
    BY <1>1, <1>2, <2>1, SameLines
<1>6. CASE MarkerLineEnd(handle.pending, "END") # 0
  <2>1. at' = "return"
    BY <1>6 DEF ReadBlock
  <2>2. Alive => Sent = <<>>
    BY <1>3, <1>4, <1>6, AllSaid
  <2>3. Alive => sh.state # "swallows"
    BY <2>2 DEF Lines
  <2>4. ~Probing' /\ ~Dumping' /\ Alive' = Alive
    BY <1>1, <2>1 DEF Probing, Dumping, Alive
  <2>5. QED
    BY <1>1, <1>2, <2>2, <2>3, <2>4, QuietLines
<1>7. QED
  BY <1>5, <1>6

LEMMA IdleLines ==
  ASSUME TypeOK, Lines, ~Probing, ~Dumping, ~Probing', ~Dumping', call'.left = <<>>, UNCHANGED <<stdin, sh>>
  PROVE  Lines'
<1>1. Alive => Sent = <<>> /\ sh.state # "swallows"
  BY DEF Lines
<1>2. Alive => stdin = <<>>
  BY <1>1, SentNil
<1>3. Alive => Sent' = <<>>
  BY <1>2, ConcatEmptySeq, EmptySeq DEF Sent
<1>4. Alive' = Alive
  BY DEF Alive
<1>5. QED
  BY <1>1, <1>3, <1>4, QuietLines

LEMMA ReadLineLines ==
  ASSUME TypeOK, Handles, Lines, ReadLine
  PROVE  Lines'
<1>1. UNCHANGED <<at, call, asked>> /\ Probing' = Probing /\ Dumping' = Dumping
  BY DEF ReadLine, ShellOnly, Probing, Dumping
<1>2. CASE ReadOff
  <2>1. sh'.state = "runs"
    BY <1>2, ReadOther DEF ReadOff
  <2>2. QED
    BY <1>1, <1>2, <2>1 DEF ReadOff, Lines, Dumping
<1>3. CASE ReadProbe
  <2>1. sh'.state = "runs" /\ sh'.last = sh.last /\ ran' = ran
    BY <1>3, ReadOther DEF ReadProbe
  <2>2. Sent' = <<>> /\ Probing /\ (call.op = "run" => HasRun' /\ sh'.last = Own(asked))
    BY <1>1, <1>3, <2>1 DEF ReadProbe, HasRun
  <2>3. ~Dumping
    BY <2>2 DEF Probing, Dumping
  <2>4. QED
    BY <1>1, <2>1, <2>2, <2>3 DEF Lines
<1>4. CASE ReadCommand
  <2>1. PICK kind \in Kinds \cup Values : Head(stdin) = Cmd(kind)
    BY <1>4 DEF ReadCommand
  <2>2. CASE kind = "exit"
    <3>1. ~Alive'
      BY <2>1, <2>2, ReadCmd DEF Alive
    <3>2. QED
      BY <3>1, NoShellLines
  <2>3. CASE kind # "exit"
    <3>1. sh'.last = Own(asked) /\ ran' = Append(ran, asked)
      BY <2>1, <2>3, ReadCmd
    <3>2. HasRun'
      BY <1>1, <3>1, HasRunNow
    <3>3. Probing /\ call.op = "run" /\ Sent' = <<Line("probe")>> /\ ~Dumping
      BY <1>4 DEF ReadCommand, Probing, Dumping
    <3>4. QED
      BY <1>1, <3>1, <3>2, <3>3 DEF Lines
  <2>4. QED
    BY <2>2, <2>3
<1>5. CASE ReadDump
  <2>1. sh'.state = "runs"
    BY <1>5, ReadOther DEF ReadDump
  <2>2. Dumping /\ ~Probing /\ Sent' \in {<<Line("set"), Line("end")>>, <<Line("end")>>, <<>>}
    BY <1>5 DEF ReadDump, Dumping, Probing
  <2>3. QED
    BY <1>1, <2>1, <2>2 DEF Lines
<1>6. QED
  BY <1>2, <1>3, <1>4, <1>5, ReadCases

LEMMA SwallowLines ==
  ASSUME TypeOK, Handles, Lines, Swallow
  PROVE  Lines'
<1>1. UNCHANGED <<at, call, asked, ran>> /\ sh'.state = "runs" /\ sh'.last = sh.last
      /\ stdin' = Tail(stdin) /\ sh.state = "swallows" /\ Alive
  BY DEF Swallow, ShellOnly, TypeOK, ShType, Alive
<1>2. Probing /\ call.op = "run" /\ Sent = <<Line("probe")>>
  BY <1>1 DEF Lines
<1>3. HasRun /\ sh.last = Own(asked)
  <2>1. ASSUME NEW kind \in Kinds \cup Values PROVE Sent # <<Cmd(kind), Line("probe")>>
    BY <1>2
  <2>2. QED
    BY <1>1, <1>2, <2>1 DEF Lines
<1>4. Sent' = <<>>
  <2>1. stdin \in Seq(Input) /\ call.left \in Seq(Input) /\ stdin # <<>>
    BY SentType DEF Swallow
  <2>2. Tail(stdin) \o call.left = Tail(stdin \o call.left)
    BY <2>1, TakeHead
  <2>3. Sent' = Tail(Sent)
    BY <1>1, <2>2 DEF Sent
  <2>4. QED
    BY <1>2, <2>3
<1>5. HasRun' /\ Probing' /\ ~Dumping'
  BY <1>1, <1>2, <1>3 DEF HasRun, Probing, Dumping
<1>6. QED
  BY <1>1, <1>2, <1>3, <1>4, <1>5 DEF Lines

LEMMA LinesStep ==
  ASSUME TypeOK, Handles, Counted, Lines, Streams, Next
  PROVE  Lines'
<1>1. CASE DumpFails
  <2>1. ~Alive'
    BY <1>1 DEF DumpFails, EofOnOut, Alive
  <2>2. QED
    BY <2>1, NoShellLines
<1>2. CASE Close
  <2>1. /\ ~Probing /\ ~Dumping /\ ~Probing' /\ ~Dumping' /\ call'.left = <<>> /\ UNCHANGED <<stdin, sh>>
    BY <1>2 DEF Close, Probing, Dumping, Idle
  <2>2. QED
    BY <2>1, IdleLines
<1>3. CASE Drain
  <2>1. /\ ~Probing /\ ~Dumping /\ ~Probing' /\ ~Dumping' /\ call'.left = <<>> /\ UNCHANGED <<stdin, sh>>
    BY <1>3 DEF Drain, Probing, Dumping, Handles
  <2>2. QED
    BY <2>1, IdleLines
<1>4. CASE Return
  <2>1. /\ ~Probing /\ ~Dumping /\ ~Probing' /\ ~Dumping' /\ call'.left = <<>> /\ UNCHANGED <<stdin, sh>>
    BY <1>4 DEF Return, Probing, Dumping, Idle
  <2>2. QED
    BY <2>1, IdleLines
<1>5. CASE WriteToken \/ DaemonEnds
  <2>1. UNCHANGED <<at, asked, ran, call, stdin>> /\ sh'.state = sh.state /\ sh'.last = sh.last
    BY <1>5 DEF WriteToken, DaemonEnds, ShellOnly, TypeOK, ShType
  <2>2. Sent' = Sent
    BY <2>1 DEF Sent
  <2>3. QED
    BY <2>1, <2>2, SameLines
<1>6. CASE EndOfInput \/ Killed
  <2>1. ~Alive'
    BY <1>6 DEF EndOfInput, Killed, Dies, Alive, TypeOK, ShType
  <2>2. QED
    BY <2>1, NoShellLines
<1>7. QED
  BY <1>1, <1>2, <1>3, <1>4, <1>5, <1>6, OpenLines, RunLines, DumpEnvLines, WriteLines,
     WaitStatusLines, FindBlockLines, ReadBlockLines, ReadLineLines, SwallowLines
     DEF Next, Venv, Shell

-----------------------------------------------------------------------------
(* What the stream holds                                                   *)

LEMMA QuietPast ==
  ASSUME NEW s \in Text, NEW d \in 0 .. Len(s), NEW k \in d .. Len(s), Quiet(s, k)
  PROVE  Quiet(Past(s, d), k - d)
<1>1. Len(s) \in Nat /\ d \in Nat /\ k \in Nat
  BY Length
<1>2. ASSUME NEW i \in 1 .. k - d PROVE Past(s, d)[i] \in Calm
  <2>1. i \in 1 .. Len(s) - d /\ d + i \in 1 .. k
    BY <1>1
  <2>2. Past(s, d)[i] = s[d + i]
    BY <2>1, PastAt
  <2>3. QED
    BY <2>1, <2>2 DEF Quiet
<1>3. QED
  BY <1>2 DEF Quiet

LEMMA SpellsPast ==
  ASSUME NEW s \in Text, NEW d \in 0 .. Len(s), NEW k \in d .. Len(s), NEW t, Len(t) \in Nat,
         Spells(s, k, t)
  PROVE  Spells(Past(s, d), k - d, t)
<1>1. Len(s) \in Nat /\ d \in Nat /\ k \in Nat /\ Len(Past(s, d)) = Len(s) - d
  BY Length, PastLength
<1>2. ASSUME NEW i \in k - d + 1 .. Len(Past(s, d)) PROVE Past(s, d)[i] = t[i - (k - d)]
  <2>1. i \in 1 .. Len(s) - d
    BY <1>1
  <2>2. Past(s, d)[i] = s[d + i]
    BY <2>1, PastAt
  <2>3. PICK j \in Nat : j = d + i
    BY <1>1, <2>1
  <2>4. j \in k + 1 .. Len(s) /\ j - k = i - (k - d)
    BY <1>1, <2>3
  <2>5. s[j] = t[j - k]
    BY <2>4 DEF Spells
  <2>6. QED
    BY <2>2, <2>3, <2>4, <2>5
<1>3. Len(Past(s, d)) - (k - d) <= Len(t)
  BY <1>1 DEF Spells
<1>4. QED
  BY <1>2, <1>3 DEF Spells

LEMMA QuietUpto ==
  ASSUME NEW s \in Text, NEW n \in 0 .. Len(s), NEW k \in 0 .. n, NEW m \in k .. Len(s), Quiet(s, m)
  PROVE  Quiet(Upto(s, n), k)
<1>1. Len(s) \in Nat /\ n \in Nat /\ k \in Nat /\ m \in Nat
  BY Length
<1>2. ASSUME NEW i \in 1 .. k PROVE Upto(s, n)[i] \in Calm
  <2>1. i \in 1 .. n /\ i \in 1 .. m
    BY <1>1
  <2>2. Upto(s, n)[i] = s[i]
    BY <2>1, UptoAt
  <2>3. QED
    BY <2>1, <2>2 DEF Quiet
<1>3. QED
  BY <1>2 DEF Quiet

LEMMA SpellsUpto ==
  ASSUME NEW s \in Text, NEW n \in 0 .. Len(s), NEW k \in 0 .. n, NEW t, Len(t) \in Nat, Spells(s, k, t)
  PROVE  Spells(Upto(s, n), k, t)
<1>1. Len(s) \in Nat /\ n \in Nat /\ k \in Nat /\ Len(Upto(s, n)) = n
  BY Length, UptoLength
<1>2. ASSUME NEW i \in k + 1 .. Len(Upto(s, n)) PROVE Upto(s, n)[i] = t[i - k]
  <2>1. i \in 1 .. n /\ i \in k + 1 .. Len(s)
    BY <1>1
  <2>2. Upto(s, n)[i] = s[i]
    BY <2>1, UptoAt
  <2>3. QED
    BY <2>1, <2>2 DEF Spells
<1>3. Len(Upto(s, n)) - k <= Len(t)
  BY <1>1 DEF Spells
<1>4. QED
  BY <1>2, <1>3 DEF Spells

LEMMA QuietCat ==
  ASSUME NEW s \in Text, Quiet(s, Len(s)), NEW x \in Text, NEW m \in 0 .. Len(x), Quiet(x, m)
  PROVE  Quiet(s \o x, Len(s) + m)
<1>1. Len(s) \in Nat /\ Len(x) \in Nat
  BY Length
<1>2. ASSUME NEW i \in 1 .. Len(s) + m PROVE (s \o x)[i] \in Calm
  <2>1. CASE i <= Len(s)
    <3>1. i \in 1 .. Len(s)
      BY <1>1, <2>1
    <3>2. (s \o x)[i] = s[i]
      BY <3>1, CatFirst
    <3>3. QED
      BY <3>1, <3>2 DEF Quiet
  <2>2. CASE i > Len(s)
    <3>1. PICK j \in 1 .. m : i = Len(s) + j
      <4>1. i - Len(s) \in 1 .. m /\ i = Len(s) + (i - Len(s))
        BY <1>1, <2>2
      <4>2. QED
        BY <4>1
    <3>2. (s \o x)[Len(s) + j] = x[j]
      <4>1. j \in 1 .. Len(x)
        BY <1>1
      <4>2. QED
        BY <4>1, CatSecond
    <3>3. QED
      BY <3>1, <3>2 DEF Quiet
  <2>3. i <= Len(s) \/ i > Len(s)
    BY <1>1
  <2>4. QED
    BY <2>1, <2>2, <2>3
<1>3. QED
  BY <1>2 DEF Quiet

\* What a step of venv takes out of the stream.
LEMMA StreamPast ==
  ASSUME TypeOK, NEW d \in 0 .. Len(handle.pending), sh'.writing = sh.writing,
         \/ handle'.pending = Past(handle.pending, d) \o out /\ out' = <<>>
         \/ handle'.pending = Past(handle.pending, d) /\ out' = out
  PROVE  Unread' = Past(Unread, d) /\ Stream' = Past(Stream, d)
<1>1. handle.pending \in Text /\ out \in Text /\ sh.writing \in Text
  BY Pieces
<1>2. Unread' = Past(Unread, d)
  <2>1. CASE handle'.pending = Past(handle.pending, d) \o out /\ out' = <<>>
    BY <1>1, <2>1, FlowFill DEF Unread
  <2>2. CASE handle'.pending = Past(handle.pending, d) /\ out' = out
    BY <1>1, <2>2, PastCat DEF Unread
  <2>3. QED
    BY <2>1, <2>2
<1>3. Unread \in Text /\ d \in 0 .. Len(Unread)
  BY Pieces
<1>4. Past(Unread \o sh.writing, d) = Past(Unread, d) \o sh.writing
  BY <1>1, <1>3, PastCat
<1>5. QED
  BY <1>2, <1>4 DEF Stream

\* What the shell writes stays in it.
LEMMA StreamWrite ==
  ASSUME TypeOK, WriteToken
  PROVE  Stream' = Stream /\ Unread' = Unread \o <<Head(sh.writing)>>
<1>1. handle.pending \in Text /\ out \in Text /\ sh.writing \in Text /\ sh.writing # <<>> /\ Unread \in Text
  BY Pieces DEF WriteToken
<1>2. /\ handle' = handle /\ out' = Append(out, Head(sh.writing))
      /\ sh'.writing = Tail(sh.writing)
  BY DEF WriteToken, ShellOnly, TypeOK, ShType
<1>3. <<Head(sh.writing)>> \in Text /\ Head(sh.writing) \in Output \cup {"added"}
  BY <1>1, HeadTail DEF Text
<1>4. out' = out \o <<Head(sh.writing)>>
  BY <1>1, <1>2, <1>3, AppendIsCat
<1>5. (handle.pending \o out) \o <<Head(sh.writing)>> = handle.pending \o (out \o <<Head(sh.writing)>>)
  BY <1>1, <1>3, Assoc
<1>6. Unread' = Unread \o <<Head(sh.writing)>>
  BY <1>2, <1>4, <1>5 DEF Unread
<1>7. (Unread \o <<Head(sh.writing)>>) \o Tail(sh.writing) = Unread \o sh.writing
  BY <1>1, FlowWrite
<1>8. QED
  BY <1>2, <1>6, <1>7 DEF Stream

\* What it says to a line comes after it.
LEMMA StreamSay ==
  ASSUME TypeOK, sh.writing = <<>>, sh'.writing \in Seq(Output), UNCHANGED <<handle, out>>
  PROVE  Stream = Unread /\ Unread' = Unread /\ Stream' = Stream \o sh'.writing
<1>1. Unread \in Text
  BY Pieces
<1>2. Stream = Unread /\ Unread' = Unread
  BY <1>1, CatNil DEF Stream, Unread
<1>3. QED
  BY <1>2 DEF Stream

LEMMA StreamDies ==
  ASSUME TypeOK, sh'.writing = <<>>, UNCHANGED <<handle, out>>
  PROVE  Unread' = Unread /\ Stream' = Upto(Stream, Len(Unread)) /\ Len(Unread) \in 0 .. Len(Stream)
<1>1. Unread \in Text /\ sh.writing \in Text /\ Len(Unread) \in Nat
  BY Pieces, Length
<1>2. Unread' = Unread /\ Stream' = Unread
  BY <1>1, CatNil DEF Stream, Unread
<1>3. Len(Unread) \in 0 .. Len(Unread)
  BY <1>1
<1>4. Upto(Unread \o sh.writing, Len(Unread)) = Upto(Unread, Len(Unread))
  BY <1>1, <1>3, UptoCat
<1>5. Upto(Unread, Len(Unread)) = Unread
  BY <1>1, CutAll
<1>6. QED
  BY <1>1, <1>2, <1>4, <1>5, Pieces DEF Stream

-----------------------------------------------------------------------------
(* The stream, step by step                                                *)

\* The shell but for what it still has to write.
SameShell ==
  /\ sh'.state = sh.state /\ sh'.last = sh.last /\ sh'.code = sh.code /\ sh'.noisy = sh.noisy
  /\ sh'.echo = sh.echo /\ sh'.env = sh.env
SameCall == call'.op = call.op /\ call'.got = call.got /\ call'.inBlock = call.inBlock

LEMMA SameBlock ==
  ASSUME SameShell, Sent' = Sent
  PROVE  Block' = Block /\ EndAt' = EndAt /\ Said' = Said /\ Alive' = Alive
<1>1. sh'.state = sh.state /\ sh'.echo = sh.echo /\ sh'.env = sh.env
  BY DEF SameShell
<1>2. Block' = Block
  BY <1>1 DEF Block, Echoed, Plain
<1>3. EndAt' = EndAt
  BY <1>1 DEF EndAt
<1>4. Said' = Said
  BY <1>1 DEF Said
<1>5. Alive' = Alive
  BY <1>1 DEF Alive
<1>6. QED
  BY <1>2, <1>3, <1>4, <1>5

LEMMA BlockLen == Len(Block) \in Nat
<1>1. Len(Block) = 17 \/ Len(Block) = 9
  BY BlockLength
<1>2. QED
  BY <1>1

LEMMA StatusLen ==
  ASSUME TypeOK
  PROVE  Len(Status(sh.last)) \in Nat
<1>1. sh.last \in 0 .. 99
  BY DEF TypeOK, ShType
<1>2. Len(Status(sh.last)) = 4 + Width(sh.last) /\ Width(sh.last) \in {1, 2}
  BY <1>1, StatusLength, WidthIs
<1>3. QED
  BY <1>2

\* A piece is taken that comes before the status,
LEMMA StatusAfterPast ==
  ASSUME TypeOK, NEW d \in 0 .. Len(Stream), NEW k \in d .. Len(Stream), StatusAfter(k),
         Stream' = Past(Stream, d), at' = "status", call'.op = call.op, Sent' = Sent, SameShell,
         UNCHANGED <<ran, asked>>
  PROVE  StatusAfter(k - d)'
<1>1. Stream \in Text /\ Len(Stream) \in Nat /\ d \in Nat /\ k \in Nat
  BY Pieces, Length
<1>2. sh'.last = sh.last /\ sh'.code = sh.code /\ sh'.noisy = sh.noisy /\ Alive' = Alive
  BY DEF SameShell, Alive
<1>3. Quiet(Past(Stream, d), k - d)
  BY <1>1, QuietPast DEF StatusAfter
<1>4. Len(Status(sh.last)) \in Nat
  BY StatusLen
<1>5. Spells(Past(Stream, d), k - d, Status(sh.last))
  BY <1>1, <1>4, SpellsPast DEF StatusAfter
<1>6. Len(Past(Stream, d)) = Len(Stream) - d
  BY <1>1, PastLength
<1>7. IF Alive THEN Len(Past(Stream, d)) = k - d + Len(Status(sh.last)) /\ Sent = <<>>
      ELSE sh.code = KILLED /\ sh.noisy
  <2>1. CASE Alive
    <3>1. Len(Stream) = k + Len(Status(sh.last)) /\ Sent = <<>>
      BY <2>1 DEF StatusAfter
    <3>2. Len(Past(Stream, d)) = k - d + Len(Status(sh.last))
      BY <1>1, <1>4, <1>6, <3>1
    <3>3. QED
      BY <2>1, <3>1, <3>2
  <2>2. CASE ~Alive
    BY <2>2 DEF StatusAfter
  <2>3. QED
    BY <2>1, <2>2
<1>8. call.op = "run" => HasRun /\ sh.last = Own(asked)
  BY DEF StatusAfter
<1>9. HasRun' = HasRun
  BY DEF HasRun
<1>10. KILLED' = KILLED /\ Status(sh.last)' = Status(sh.last)
  BY <1>2 DEF KILLED, Status
<1>11. Quiet(Stream, k - d)' /\ Spells(Stream, k - d, Status(sh.last))'
  BY <1>2, <1>3, <1>5 DEF Quiet, Spells
<1>12. (IF Alive THEN Len(Stream) = k - d + Len(Status(sh.last)) /\ Sent = <<>>
        ELSE sh.code = KILLED /\ sh.noisy)'
  BY <1>2, <1>7
<1>13. (call.op = "run" => HasRun /\ sh.last = Own(asked))'
  BY <1>2, <1>8, <1>9 DEF Own
<1>14. QED
  BY <1>11, <1>12, <1>13 DEF StatusAfter

\* or before the dump.
LEMMA DumpAfterPast ==
  ASSUME TypeOK, NEW d \in 0 .. Len(Stream), NEW k \in d .. Len(Stream), DumpAfter(k),
         Stream' = Past(Stream, d), call'.got = call.got, Sent' = Sent, SameShell
  PROVE  DumpAfter(k - d)'
<1>1. Stream \in Text /\ Len(Stream) \in Nat /\ d \in Nat /\ k \in Nat
  BY Pieces, Length
<1>2. Block' = Block /\ Said' = Said /\ Alive' = Alive
  BY SameBlock
<1>3. Quiet(Past(Stream, d), k - d)
  BY <1>1, QuietPast DEF DumpAfter
<1>4. Spells(Past(Stream, d), k - d, Block)
  BY <1>1, BlockLen, SpellsPast DEF DumpAfter
<1>5. Len(Past(Stream, d)) = Len(Stream) - d
  BY <1>1, PastLength
<1>6. Alive => Len(Past(Stream, d)) = k - d + Said
  <2>1. Said \in Nat
    BY DEF Said
  <2>2. Alive => Len(Stream) = k + Said
    BY DEF DumpAfter
  <2>3. QED
    BY <1>1, <1>5, <2>1, <2>2
<1>7. Quiet(Stream, k - d)' /\ Spells(Stream, k - d, Block)'
  BY <1>2, <1>3, <1>4 DEF Quiet, Spells
<1>8. call'.got = <<>>
  BY DEF DumpAfter
<1>9. (Alive => Len(Stream) = k - d + Said)'
  BY <1>2, <1>6
<1>10. QED
  BY <1>7, <1>8, <1>9 DEF DumpAfter

\* What is in the stream stays, and so does the call.
LEMMA SameStreams ==
  ASSUME TypeOK, Streams, Stream' = Stream, SameShell, SameCall, Sent' = Sent,
         Probing' = Probing, Dumping' = Dumping, at = "status" => at' = "status",
         handle'.dead = handle.dead, UNCHANGED <<ran, asked>>
  PROVE  Streams'
<1>1. Stream \in Text /\ Len(Stream) \in Nat /\ Past(Stream, 0) = Stream
  BY Pieces, Length, CutNone
<1>2. SUFFICES ASSUME ~handle.dead
      PROVE  /\ Dumping => (IF call.inBlock THEN InDump ELSE \E k \in 0 .. Len(Stream) : DumpAfter(k))'
             /\ Probing => (Quiet(Stream, Len(Stream)) \/ \E k \in 0 .. Len(Stream) : StatusAfter(k))'
             /\ ~Dumping /\ ~Probing => Quiet(Stream, Len(Stream))'
  BY DEF Streams
<1>3. ASSUME NEW k \in 0 .. Len(Stream), StatusAfter(k) PROVE StatusAfter(k)'
  <2>1. at' = "status" /\ k - 0 = k /\ 0 \in 0 .. Len(Stream)
    BY <1>1, <1>3 DEF StatusAfter
  <2>2. StatusAfter(k - 0)'
    BY <1>1, <1>3, <2>1, StatusAfterPast DEF SameCall
  <2>3. QED
    BY <2>1, <2>2
<1>4. ASSUME NEW k \in 0 .. Len(Stream), DumpAfter(k) PROVE DumpAfter(k)'
  <2>1. k - 0 = k /\ 0 \in 0 .. Len(Stream)
    BY <1>1
  <2>2. DumpAfter(k - 0)'
    BY <1>1, <1>4, <2>1, DumpAfterPast DEF SameCall
  <2>3. QED
    BY <2>1, <2>2
<1>5. InDump => InDump'
  BY SameBlock DEF InDump, SameCall
<1>6. Dumping => (IF call.inBlock THEN InDump ELSE \E k \in 0 .. Len(Stream) : DumpAfter(k))'
  BY <1>2, <1>4, <1>5 DEF Streams, SameCall
<1>7. Probing => (Quiet(Stream, Len(Stream)) \/ \E k \in 0 .. Len(Stream) : StatusAfter(k))'
  <2>1. Quiet(Stream, Len(Stream)) => Quiet(Stream, Len(Stream))'
    BY DEF Quiet
  <2>2. QED
    BY <1>2, <1>3, <2>1 DEF Streams
<1>8. ~Dumping /\ ~Probing => Quiet(Stream, Len(Stream))'
  BY <1>2 DEF Streams, Quiet
<1>9. QED
  BY <1>6, <1>7, <1>8

\* No dump, and nothing but output.
LEMMA QuietStreams ==
  ASSUME ~Dumping', Quiet(Stream, Len(Stream))'
  PROVE  Streams'
BY DEF Streams

LEMMA QuietNil ==
  Quiet(<<>>, Len(<<>>))
BY DEF Quiet

LEMMA OpenStreams ==
  ASSUME TypeOK, Open
  PROVE  Streams'
<1>1. handle'.pending = <<>> /\ out' = <<>> /\ sh'.writing = <<"text">> /\ call'.op = "open"
  BY DEF Open, NoHandle, NoShell, Idle
<1>2. Stream' = (<<>> \o <<>>) \o <<"text">>
  BY <1>1 DEF Stream, Unread
<1>3. Stream' = <<"text">>
  BY <1>2
<1>4. "text" \in Calm
  BY DEF Calm, Output, Words, Digit
<1>5. Quiet(Stream, Len(Stream))'
  <2>1. Quiet(<<"text">>, 1) /\ Len(<<"text">>) = 1
    BY <1>4 DEF Quiet
  <2>2. QED
    BY <2>1, <1>3 DEF Quiet
<1>6. ~Dumping'
  BY <1>1 DEF Dumping
<1>7. QED
  BY <1>5, <1>6, QuietStreams

LEMMA RunStreams ==
  ASSUME TypeOK, Handles, Streams, NEW kind, Run(kind)
  PROVE  Streams'
<1>1. at = "config" /\ UNCHANGED <<handle, out, sh>>
  BY DEF Run
<1>2. Stream' = Stream /\ handle'.dead = handle.dead
  BY <1>1 DEF Stream, Unread
<1>3. SUFFICES ASSUME ~handle.dead PROVE Streams'
  BY <1>2 DEF Streams
<1>4. Quiet(Stream, Len(Stream))
  BY <1>1, <1>3 DEF Streams, Dumping, Probing
<1>5. call'.op = "run"
  BY <1>3 DEF Run, Send, Idle
<1>6. QED
  BY <1>2, <1>4, <1>5, QuietStreams DEF Dumping, Quiet

LEMMA DumpEnvStreams ==
  ASSUME TypeOK, Handles, Lines, Streams, DumpEnv
  PROVE  Streams'
<1>1. at = "config" /\ UNCHANGED <<handle, out, sh, stdin>>
      /\ Send("dump", <<Line("begin"), Line("set"), Line("end")>>)
  BY DEF DumpEnv
<1>2. Stream' = Stream /\ handle'.dead = handle.dead /\ Stream \in Text /\ Len(Stream) \in Nat
  BY <1>1, Pieces, Length DEF Stream, Unread
<1>3. SUFFICES ASSUME ~handle.dead PROVE Streams'
  BY <1>2 DEF Streams
<1>4. Quiet(Stream, Len(Stream))
  BY <1>1, <1>3 DEF Streams, Dumping, Probing
<1>5. call'.op = "dump" /\ at' = "write" /\ call'.got = <<>> /\ call'.inBlock = FALSE
  BY <1>1, <1>3 DEF Send, Idle
<1>6. DumpAfter(Len(Stream))'
  <2>1. Quiet(Stream, Len(Stream))'
    BY <1>2, <1>4 DEF Quiet
  <2>2. Len(Block') \in Nat
    <3>1. sh' = sh
      BY <1>1
    <3>2. Block' = Block
      BY <3>1 DEF Block, Echoed, Plain
    <3>3. QED
      BY <3>2, BlockLen
  <2>3. Spells(Stream, Len(Stream), Block)'
    BY <1>2, <2>2 DEF Spells
  <2>4. Alive => Said' = 0
    <3>1. ASSUME Alive PROVE Len(Sent') = 3
      <4>1. <<Line("begin"), Line("set"), Line("end")>> \in Seq(Input)
        BY LineInput
      <4>2. Sent' = <<Line("begin"), Line("set"), Line("end")>>
        BY <1>1, <3>1, <4>1, SendLines
      <4>3. QED
        BY <4>2
    <3>2. QED
      BY <3>1 DEF Said
  <2>5. (Alive => Len(Stream) = Len(Stream) + Said)'
    BY <1>1, <1>2, <2>4 DEF Alive
  <2>6. QED
    BY <1>2, <1>5, <2>1, <2>3, <2>5 DEF DumpAfter
<1>7. Dumping' /\ ~Probing' /\ Len(Stream') \in 0 .. Len(Stream')
  BY <1>2, <1>5 DEF Dumping, Probing
<1>8. (\E k \in 0 .. Len(Stream) : DumpAfter(k))'
  BY <1>2, <1>6, <1>7
<1>9. QED
  BY <1>5, <1>7, <1>8 DEF Streams

LEMMA WriteStreams ==
  ASSUME TypeOK, Handles, Streams, Write
  PROVE  Streams'
<1>1. CASE Alive \/ daemon
  <2>1. /\ Sent' = Sent /\ call'.op = call.op /\ Probing' = Probing /\ Dumping' = Dumping
        /\ UNCHANGED <<handle, sh, out, daemon, term, history>>
    BY <1>1, WriteSent
  <2>2. at = "write" /\ call' = [call EXCEPT !.left = Tail(call.left)]
    BY <1>1 DEF Write
  <2>3. SameCall
    BY <2>2 DEF SameCall, TypeOK, CallType
  <2>4. SameShell /\ Stream' = Stream /\ handle'.dead = handle.dead /\ UNCHANGED <<ran, asked>>
    BY <2>1 DEF SameShell, Stream, Unread, history
  <2>5. QED
    BY <2>1, <2>2, <2>3, <2>4, SameStreams
<1>2. CASE ~(Alive \/ daemon)
  <2>1. handle' = [handle EXCEPT !.dead = TRUE]
    BY <1>2 DEF Write
  <2>2. handle'.dead
    BY <2>1 DEF TypeOK, HandleType
  <2>3. QED
    BY <2>2 DEF Streams
<1>3. QED
  BY <1>1, <1>2

LEMMA WriteTokenStreams ==
  ASSUME TypeOK, Streams, WriteToken
  PROVE  Streams'
<1>1. Stream' = Stream
  BY StreamWrite
<1>2. UNCHANGED <<at, call, handle, asked, ran, stdin>>
  BY DEF WriteToken, ShellOnly
<1>3. sh' = [sh EXCEPT !.writing = Tail(sh.writing)]
  BY DEF WriteToken
<1>4. SameShell
  BY <1>3 DEF SameShell, TypeOK, ShType
<1>5. SameCall /\ Sent' = Sent /\ Probing' = Probing /\ Dumping' = Dumping
  BY <1>2 DEF SameCall, Sent, Probing, Dumping
<1>6. QED
  BY <1>1, <1>2, <1>4, <1>5, SameStreams

LEMMA DaemonEndsStreams ==
  ASSUME TypeOK, Streams, DaemonEnds
  PROVE  Streams'
<1>1. UNCHANGED <<at, call, handle, asked, ran, stdin, sh, out>>
  BY DEF DaemonEnds, ShellOnly
<1>2. SameShell /\ SameCall /\ Sent' = Sent /\ Probing' = Probing /\ Dumping' = Dumping /\ Stream' = Stream
  BY <1>1 DEF SameShell, SameCall, Sent, Probing, Dumping, Stream, Unread
<1>3. QED
  BY <1>1, <1>2, SameStreams

\* A step that leaves neither status nor dump outstanding, and takes a piece.
LEMMA IdleStreams ==
  ASSUME TypeOK, Streams, ~handle.dead, ~Dumping, ~Probing, ~Dumping', ~Probing',
         NEW d \in 0 .. Len(Stream), Stream' = Past(Stream, d)
  PROVE  Streams'
<1>1. Stream \in Text /\ Len(Stream) \in Nat /\ d \in Nat /\ Quiet(Stream, Len(Stream))
  BY Pieces, Length DEF Streams
<1>2. Quiet(Past(Stream, d), Len(Stream) - d)
  <2>1. Len(Stream) \in d .. Len(Stream)
    BY <1>1
  <2>2. QED
    BY <1>1, <2>1, QuietPast
<1>3. Len(Past(Stream, d)) = Len(Stream) - d
  BY <1>1, PastLength
<1>4. Quiet(Stream, Len(Stream))'
  BY <1>2, <1>3 DEF Quiet
<1>5. QED
  BY <1>4, QuietStreams

LEMMA CloseStreams ==
  ASSUME TypeOK, Streams, Close
  PROVE  Streams'
<1>1. at = "config" /\ at' = "drain" /\ UNCHANGED <<out, sh>>
      /\ handle' = [handle EXCEPT !.in = FALSE]
  BY DEF Close
<1>2. handle'.pending = handle.pending /\ handle'.dead = handle.dead
  BY <1>1 DEF TypeOK, HandleType
<1>3. Stream' = Stream /\ ~Dumping /\ ~Probing /\ ~Dumping' /\ ~Probing'
  BY <1>1, <1>2 DEF Stream, Unread, Dumping, Probing
<1>4. QED
  BY <1>2, <1>3 DEF Streams, Quiet

LEMMA ReturnStreams ==
  ASSUME TypeOK, Streams, Return
  PROVE  Streams'
<1>1. at = "return" /\ at' \in {"drain", "config"} /\ UNCHANGED <<out, sh>>
      /\ (handle' = [handle EXCEPT !.in = FALSE] \/ handle' = handle)
  BY DEF Return
<1>2. handle'.pending = handle.pending /\ handle'.dead = handle.dead
  BY <1>1 DEF TypeOK, HandleType
<1>3. Stream' = Stream /\ ~Dumping /\ ~Probing /\ ~Dumping' /\ ~Probing'
  BY <1>1, <1>2 DEF Stream, Unread, Dumping, Probing
<1>4. QED
  BY <1>2, <1>3 DEF Streams, Quiet

LEMMA SwallowStreams ==
  ASSUME TypeOK, Handles, Lines, Streams, Swallow
  PROVE  Streams'
<1>1. sh.state = "swallows" /\ Alive /\ UNCHANGED <<at, call, handle, out>>
      /\ sh' = [sh EXCEPT !.state = "runs", !.ate = TRUE]
  BY DEF Swallow, ShellOnly, Alive
<1>2. Probing /\ ~Dumping /\ Sent = <<Line("probe")>> /\ ~handle.dead
  BY <1>1 DEF Lines, Handles, Probing, Dumping
<1>3. \A k \in 0 .. Len(Stream) : ~StatusAfter(k)
  BY <1>1, <1>2 DEF StatusAfter
<1>4. Quiet(Stream, Len(Stream))
  BY <1>2, <1>3 DEF Streams
<1>5. sh'.writing = sh.writing
  BY <1>1 DEF TypeOK, ShType
<1>6. Stream' = Stream /\ ~Dumping'
  BY <1>1, <1>2, <1>5 DEF Stream, Unread, Dumping
<1>7. QED
  BY <1>4, <1>6, QuietStreams DEF Quiet

LEMMA EndOfInputStreams ==
  ASSUME TypeOK, Handles, Streams, EndOfInput
  PROVE  Streams'
<1>1. Alive /\ sh.writing = <<>> /\ ~handle.in /\ UNCHANGED <<at, call, handle, out>>
      /\ sh' = Dies(sh.last)
  BY DEF EndOfInput, ShellOnly
<1>2. ~handle.dead /\ call.op = "close"
  BY <1>1 DEF Handles
<1>3. ~Dumping /\ ~Probing /\ ~Dumping'
  BY <1>1, <1>2 DEF Dumping, Probing
<1>4. sh'.writing = <<>>
  BY <1>1 DEF Dies, TypeOK, ShType
<1>5. Stream' = Stream
  BY <1>1, <1>4 DEF Stream, Unread
<1>6. Quiet(Stream, Len(Stream))
  BY <1>2, <1>3 DEF Streams
<1>7. QED
  BY <1>3, <1>5, <1>6, QuietStreams DEF Quiet

\* A piece of what was calm and then t.
LEMMA FrontKeeps ==
  ASSUME NEW s \in Text, NEW n \in 0 .. Len(s), NEW k \in 0 .. Len(s), Quiet(s, k),
         NEW t, Len(t) \in Nat, Spells(s, k, t)
  PROVE  \E j \in 0 .. Len(Upto(s, n)) : j <= k /\ Quiet(Upto(s, n), j) /\ Spells(Upto(s, n), j, t)
<1>1. Len(s) \in Nat /\ n \in Nat /\ k \in Nat /\ Len(Upto(s, n)) = n
  BY Length, UptoLength
<1>2. CASE k <= n
  <2>1. k \in 0 .. n /\ k \in k .. Len(s)
    BY <1>1, <1>2
  <2>2. Quiet(Upto(s, n), k) /\ Spells(Upto(s, n), k, t)
    BY <2>1, QuietUpto, SpellsUpto
  <2>3. k <= k
    BY <1>1
  <2>4. QED
    BY <1>1, <2>1, <2>2, <2>3
<1>3. CASE k > n
  <2>1. n \in 0 .. n /\ k \in n .. Len(s) /\ n <= k
    BY <1>1, <1>3
  <2>2. Quiet(Upto(s, n), n)
    BY <2>1, QuietUpto
  <2>3. Spells(Upto(s, n), n, t)
    BY <1>1 DEF Spells
  <2>4. QED
    BY <1>1, <2>1, <2>2, <2>3
<1>4. k <= n \/ k > n
  BY <1>1
<1>5. QED
  BY <1>2, <1>3, <1>4

\* A shell that is killed leaves a piece of what it was writing.
LEMMA KilledStreams ==
  ASSUME TypeOK, Handles, Streams, Killed
  PROVE  Streams'
<1>1. Alive /\ UNCHANGED <<at, call, handle, out, asked, ran>> /\ sh' = [Dies(KILLED) EXCEPT !.noisy = TRUE]
  BY DEF Killed, ShellOnly
<1>2. /\ sh'.writing = <<>> /\ sh'.state = "gone" /\ sh'.code = KILLED /\ sh'.noisy
      /\ sh'.last = sh.last /\ sh'.echo = sh.echo /\ sh'.env = sh.env
  BY <1>1 DEF Dies, TypeOK, ShType
<1>3. Stream' = Upto(Stream, Len(Unread)) /\ Len(Unread) \in 0 .. Len(Stream)
  BY <1>1, <1>2, StreamDies
<1>4. Stream \in Text /\ Len(Stream) \in Nat /\ ~handle.dead /\ Len(Unread) \in Nat
  BY <1>1, Pieces, Length DEF Handles
<1>5. Dumping' = Dumping /\ Probing' = Probing /\ ~Alive' /\ Block' = Block /\ EndAt' = EndAt /\ HasRun' = HasRun
  <2>1. Block' = Block
    BY <1>2 DEF Block, Echoed, Plain
  <2>2. EndAt' = EndAt
    BY <1>2 DEF EndAt
  <2>3. HasRun' = HasRun
    BY <1>1 DEF HasRun
  <2>4. Dumping' = Dumping /\ Probing' = Probing /\ ~Alive'
    BY <1>1, <1>2 DEF Dumping, Probing, Alive
  <2>5. QED
    BY <2>1, <2>2, <2>3, <2>4
<1>6. Len(Stream') = Len(Unread)
  BY <1>3, <1>4, UptoLength
<1>7. Quiet(Stream, Len(Stream)) => Quiet(Stream, Len(Stream))'
  <2>1. ASSUME Quiet(Stream, Len(Stream)) PROVE Quiet(Upto(Stream, Len(Unread)), Len(Unread))
    <3>1. Len(Unread) \in 0 .. Len(Unread) /\ Len(Stream) \in Len(Unread) .. Len(Stream)
      BY <1>3, <1>4
    <3>2. QED
      BY <1>3, <1>4, <2>1, <3>1, QuietUpto
  <2>2. QED
    BY <1>3, <1>6, <2>1 DEF Quiet
<1>8. ASSUME NEW k \in 0 .. Len(Stream), StatusAfter(k)
      PROVE  (\E j \in 0 .. Len(Stream) : StatusAfter(j))'
  <2>1. PICK j \in 0 .. Len(Stream') : Quiet(Stream', j) /\ Spells(Stream', j, Status(sh.last))
    <3>1. Len(Status(sh.last)) \in Nat
      BY StatusLen
    <3>2. QED
      BY <1>3, <1>4, <1>8, <3>1, FrontKeeps DEF StatusAfter
  <2>2. (Quiet(Stream, j) /\ Spells(Stream, j, Status(sh.last)))'
    BY <1>2, <2>1 DEF Quiet, Spells, Status
  <2>3. at' = "status" /\ (call.op = "run" => HasRun /\ sh.last = Own(asked))'
    BY <1>1, <1>2, <1>5, <1>8 DEF StatusAfter, Own
  <2>4. (IF Alive THEN Len(Stream) = j + Len(Status(sh.last)) /\ Sent = <<>>
         ELSE sh.code = KILLED /\ sh.noisy)'
    BY <1>2, <1>5 DEF KILLED
  <2>5. StatusAfter(j)'
    BY <2>2, <2>3, <2>4 DEF StatusAfter
  <2>6. QED
    BY <2>5
<1>9. ASSUME NEW k \in 0 .. Len(Stream), DumpAfter(k)
      PROVE  (\E j \in 0 .. Len(Stream) : DumpAfter(j))'
  <2>1. PICK j \in 0 .. Len(Stream') : Quiet(Stream', j) /\ Spells(Stream', j, Block)
    BY <1>3, <1>4, <1>9, BlockLen, FrontKeeps DEF DumpAfter
  <2>2. (Quiet(Stream, j) /\ Spells(Stream, j, Block))'
    BY <1>5, <2>1 DEF Quiet, Spells
  <2>3. DumpAfter(j)'
    BY <1>1, <1>5, <1>9, <2>2 DEF DumpAfter
  <2>4. QED
    BY <2>3
<1>10. ASSUME InDump PROVE InDump'
  <2>1. call' = call
    BY <1>1
  <2>2. (\A i \in DOMAIN call.got : call.got[i] = Block[3 + i])'
    BY <1>5, <1>10, <2>1 DEF InDump
  <2>3. ASSUME NEW i \in 1 .. Len(Stream') PROVE Stream'[i] = Block[3 + Len(call.got) + i]
    <3>1. i \in 1 .. Len(Unread) /\ i \in 1 .. Len(Stream)
      BY <1>3, <1>4, <1>6
    <3>2. Stream'[i] = Stream[i]
      BY <1>3, <1>4, <3>1, UptoAt
    <3>3. QED
      BY <1>10, <3>1, <3>2 DEF InDump
  <2>4. (3 + Len(call.got) < EndAt)'
    BY <1>5, <1>10, <2>1 DEF InDump
  <2>5. 3 + Len(call.got) + Len(Stream') <= Len(Block)
    <3>1. 3 + Len(call.got) + Len(Stream) <= Len(Block) /\ 3 + Len(call.got) \in Nat
      BY <1>10, DumpStart DEF InDump
    <3>2. QED
      BY <1>3, <1>4, <1>6, <3>1, BlockLen
  <2>6. QED
    BY <1>5, <2>1, <2>2, <2>3, <2>4, <2>5 DEF InDump
<1>11. Dumping => (IF call.inBlock THEN InDump ELSE \E k \in 0 .. Len(Stream) : DumpAfter(k))'
  BY <1>1, <1>4, <1>9, <1>10 DEF Streams
<1>12. Probing => (Quiet(Stream, Len(Stream)) \/ \E k \in 0 .. Len(Stream) : StatusAfter(k))'
  BY <1>4, <1>7, <1>8 DEF Streams
<1>13. ~Dumping /\ ~Probing => Quiet(Stream, Len(Stream))'
  BY <1>4, <1>7 DEF Streams
<1>14. QED
  BY <1>5, <1>11, <1>12, <1>13 DEF Streams

LEMMA FillStream ==
  ASSUME TypeOK, NEW d \in 0 .. Len(handle.pending), Fill(d), sh' = sh
  PROVE  /\ Unread' = Past(Unread, d) /\ Stream' = Past(Stream, d) /\ handle'.dead = handle.dead
         /\ d \in 0 .. Len(Unread) /\ d \in 0 .. Len(Stream)
<1>1. handle'.pending = Past(handle.pending, d) \o out /\ out' = <<>> /\ handle'.dead = handle.dead
  BY DEF Fill, TypeOK, HandleType
<1>2. Unread' = Past(Unread, d) /\ Stream' = Past(Stream, d)
  BY <1>1, StreamPast
<1>3. d \in 0 .. Len(Unread) /\ d \in 0 .. Len(Stream)
  BY Pieces
<1>4. QED
  BY <1>1, <1>2, <1>3

LEMMA QuietPiece ==
  ASSUME TypeOK, Quiet(Stream, Len(Stream)), NEW d \in 0 .. Len(Stream), Stream' = Past(Stream, d)
  PROVE  Quiet(Stream, Len(Stream))'
<1>1. Stream \in Text /\ Len(Stream) \in Nat /\ d \in Nat
  BY Pieces, Length
<1>2. Len(Stream) \in d .. Len(Stream)
  BY <1>1
<1>3. Quiet(Past(Stream, d), Len(Stream) - d)
  BY <1>1, <1>2, QuietPast
<1>4. Len(Past(Stream, d)) = Len(Stream) - d
  BY <1>1, PastLength
<1>5. QED
  BY <1>3, <1>4 DEF Quiet

\* A status that is complete is the last of the stream.
LEMMA StatusIsLast ==
  ASSUME TypeOK, NEW k \in 0 .. Len(Stream), StatusAfter(k),
         Len(handle.pending) = k + Len(Status(sh.last))
  PROVE  out = <<>> /\ sh.writing = <<>> /\ Stream = handle.pending
<1>1. Len(Stream) - k <= Len(Status(sh.last)) /\ Len(Status(sh.last)) \in Nat
  BY StatusLen DEF StatusAfter, Spells
<1>2. /\ Len(Unread) = Len(handle.pending) + Len(out) /\ Len(Stream) = Len(Unread) + Len(sh.writing)
      /\ Len(handle.pending) \in Nat /\ Len(out) \in Nat /\ Len(sh.writing) \in Nat
      /\ handle.pending \in Text /\ out \in Text /\ sh.writing \in Text
  BY Pieces
<1>3. Len(out) = 0 /\ Len(sh.writing) = 0
  <2>1. PICK a \in Nat, b \in Nat, c \in Nat, l \in Nat :
           a = Len(handle.pending) /\ b = Len(out) /\ c = Len(sh.writing) /\ l = Len(Status(sh.last))
    BY <1>1, <1>2
  <2>2. Len(Stream) = a + b + c
    BY <1>2, <2>1
  <2>3. k \in Nat
    BY <2>2
  <2>4. a = k + l
    BY <2>1
  <2>5. (a + b + c) - k <= l
    BY <1>1, <2>1, <2>2
  <2>6. b = 0 /\ c = 0
    BY <2>3, <2>4, <2>5
  <2>7. QED
    BY <2>1, <2>6
<1>4. out = <<>> /\ sh.writing = <<>>
  BY <1>2, <1>3, NoText
<1>5. (handle.pending \o <<>>) \o <<>> = handle.pending
  BY <1>2, CatNil
<1>6. QED
  BY <1>4, <1>5 DEF Stream, Unread

LEMMA FoundStream ==
  ASSUME TypeOK, NEW k \in 0 .. Len(Stream), Found(k)
  PROVE  Stream' = <<>> /\ Unread' = <<>> /\ ~Dumping' /\ ~Probing'
<1>1. out = <<>> /\ sh.writing = <<>>
  BY StatusIsLast DEF Found
<1>2. handle'.pending = <<>> /\ out' = out /\ sh' = sh /\ at' = "return"
  BY DEF Found, TypeOK, HandleType
<1>3. (<<>> \o <<>>) \o <<>> = <<>> /\ <<>> \o <<>> = <<>>
  OBVIOUS
<1>4. QED
  BY <1>1, <1>2, <1>3 DEF Stream, Unread, Dumping, Probing

\* The lines that come before the status are taken.
LEMMA LinesBeforeStatus ==
  ASSUME TypeOK, NEW k \in 0 .. Len(Stream), StatusAfter(k), FindStatus(handle.pending) = 0
  PROVE  LastNewline(handle.pending) <= k /\ LastNewline(handle.pending) \in 0 .. Len(handle.pending)
<1>1. handle.pending \in Text
  BY Pieces
<1>2. Begins(handle.pending, k, sh.last)
  BY PendingBegins
<1>3. QED
  BY <1>1, <1>2, StatusPending, LastNewlineIn

LEMMA WaitStatusStreams ==
  ASSUME TypeOK, Handles, Streams, WaitStatus
  PROVE  Streams'
<1>1. at = "status" /\ Probing /\ ~Dumping /\ ~handle.dead
  BY WaitCases DEF Handles, Dumping
<1>2. ASSUME NEW k \in 0 .. Len(Stream), Found(k) PROVE Streams'
  BY <1>2, FoundStream, QuietNil, QuietStreams DEF Quiet
<1>3. CASE NotFound
  <2>1. PICK d \in 0 .. Len(handle.pending) : d = LastNewline(handle.pending)
    BY Pieces, LastNewlineIn
  <2>2. Fill(d) /\ FindStatus(handle.pending) = 0 /\ at' = at /\ call' = call /\ sh' = sh
        /\ stdin' = stdin /\ UNCHANGED <<ran, asked>>
    BY <1>3, <2>1 DEF NotFound, history
  <2>3. Stream' = Past(Stream, d) /\ d \in 0 .. Len(Stream) /\ handle'.dead = handle.dead
    BY <2>1, <2>2, FillStream
  <2>4. Probing' /\ ~Dumping' /\ Sent' = Sent /\ SameShell
    BY <1>1, <2>2 DEF Probing, Dumping, Sent, SameShell
  <2>5. ASSUME NEW k \in 0 .. Len(Stream), StatusAfter(k)
        PROVE  (\E j \in 0 .. Len(Stream) : StatusAfter(j))'
    <3>1. d <= k
      BY <2>1, <2>2, <2>5, LinesBeforeStatus
    <3>2. Stream \in Text /\ Len(Stream) \in Nat /\ d \in Nat /\ k \in d .. Len(Stream)
      BY <2>3, <3>1, Pieces, Length
    <3>3. StatusAfter(k - d)'
      BY <1>1, <2>2, <2>3, <2>4, <2>5, <3>2, StatusAfterPast
    <3>4. Len(Stream') = Len(Stream) - d
      BY <2>3, <3>2, PastLength
    <3>5. k - d \in 0 .. Len(Stream')
      BY <3>2, <3>4
    <3>6. QED
      BY <3>3, <3>5
  <2>6. Quiet(Stream, Len(Stream)) => Quiet(Stream, Len(Stream))'
    BY <2>3, QuietPiece
  <2>7. (Quiet(Stream, Len(Stream)) \/ \E j \in 0 .. Len(Stream) : StatusAfter(j))'
    BY <1>1, <2>5, <2>6 DEF Streams
  <2>8. QED
    BY <2>4, <2>7 DEF Streams
<1>4. CASE ShellGone
  <2>1. handle'.dead
    BY <1>4 DEF ShellGone, TypeOK, HandleType
  <2>2. QED
    BY <2>1 DEF Streams
<1>5. QED
  BY <1>2, <1>3, <1>4, WaitCases

LEMMA DumpFailsStreams ==
  ASSUME TypeOK, DumpFails
  PROVE  Streams'
<1>1. handle'.dead
  BY DEF DumpFails, TypeOK, HandleType
<1>2. QED
  BY <1>1 DEF Streams

LEMMA DrainStreams ==
  ASSUME TypeOK, Handles, Streams, Drain
  PROVE  Streams'
<1>1. at = "drain" /\ sh' = sh
  BY DEF Drain
<1>2. CASE Fill(LastNewline(handle.pending)) /\ at' = at
  <2> DEFINE d == LastNewline(handle.pending)
  <2>1. d \in 0 .. Len(handle.pending)
    BY Pieces, LastNewlineIn
  <2>2. Stream' = Past(Stream, d) /\ d \in 0 .. Len(Stream) /\ handle'.dead = handle.dead
    BY <1>1, <1>2, <2>1, FillStream
  <2>3. ~Dumping /\ ~Probing /\ ~Dumping' /\ ~Probing'
    BY <1>1, <1>2 DEF Dumping, Probing
  <2>4. CASE handle.dead
    BY <2>2, <2>4 DEF Streams
  <2>5. CASE ~handle.dead
    BY <2>2, <2>3, <2>5, IdleStreams
  <2>6. QED
    BY <2>4, <2>5
<1>3. CASE EofOnOut /\ handle' = NoHandle /\ at' = "return" /\ out' = out
  <2>1. handle'.pending = <<>> /\ out' = <<>>
    BY <1>3 DEF NoHandle, EofOnOut
  <2>2. sh'.writing = <<>>
    BY <1>1, <1>3 DEF EofOnOut, Handles
  <2>3. Stream' = (<<>> \o <<>>) \o <<>>
    BY <2>1, <2>2 DEF Stream, Unread
  <2>4. Stream' = <<>>
    BY <2>3
  <2>5. ~Dumping'
    BY <1>3 DEF Dumping
  <2>6. QED
    BY <2>4, <2>5, QuietNil, QuietStreams DEF Quiet
<1>4. QED
  BY <1>2, <1>3 DEF Drain

\* The steps of venv_shell_dump_env().
BlockFound(k) ==
  /\ DumpAfter(k) /\ k + 3 <= Len(handle.pending)
  /\ handle' = [handle EXCEPT !.pending = Past(handle.pending, k + 3)]
  /\ ~sh.echo => term' = term \o Upto(handle.pending, k)
  /\ call' = [call EXCEPT !.inBlock = TRUE]
  /\ UNCHANGED out
BlockAwaited == Fill(0) /\ UNCHANGED <<term, call>>

LEMMA FindBlockCases ==
  ASSUME TypeOK, Handles, Streams, FindBlock
  PROVE  /\ Dumping /\ ~handle.dead /\ at' = at /\ UNCHANGED <<sh, stdin, daemon, history>>
         /\ (\E k \in 0 .. Len(Stream) : BlockFound(k)) \/ BlockAwaited
<1>1. at = "dump" /\ ~call.inBlock /\ at' = at /\ UNCHANGED <<sh, stdin, daemon, history>>
  BY DEF FindBlock
<1>2. Dumping /\ ~handle.dead
  BY <1>1 DEF Handles, Probing
<1>3. PICK k \in 0 .. Len(Stream) : DumpAfter(k)
  BY <1>1, <1>2 DEF Streams
<1>4. Quiet(Stream, k) /\ Spells(Stream, k, Block)
  BY <1>3 DEF DumpAfter
<1>5. CASE MarkerLineEnd(handle.pending, "BEGIN") # 0
  <2>1. MarkerLineEnd(handle.pending, "BEGIN") = k + 3 /\ k + 3 <= Len(handle.pending)
    BY <1>4, <1>5, BlockBegins
  <2>2. ~sh.echo => First({j \in DOMAIN handle.pending : handle.pending[j] = "BEGIN"}) = k + 1
    BY <1>4, <1>5, BlockBegins
  <2>3. k + 1 - 1 = k
    BY Pieces, Length
  <2>4. term' = term \o Upto(handle.pending, First({j \in DOMAIN handle.pending : handle.pending[j] = "BEGIN"}) - 1)
        /\ handle' = [handle EXCEPT !.pending = Past(handle.pending, k + 3)]
        /\ call' = [call EXCEPT !.inBlock = TRUE] /\ UNCHANGED out
    BY <1>5, <2>1 DEF FindBlock
  <2>5. ASSUME ~sh.echo PROVE term' = term \o Upto(handle.pending, k)
    <3>1. First({j \in DOMAIN handle.pending : handle.pending[j] = "BEGIN"}) - 1 = k
      BY <2>2, <2>3, <2>5
    <3>2. QED
      BY <2>4, <3>1
  <2>6. BlockFound(k)
    BY <1>3, <2>1, <2>4, <2>5 DEF BlockFound
  <2>7. QED
    BY <1>1, <1>2, <2>6
<1>6. CASE MarkerLineEnd(handle.pending, "BEGIN") = 0
  BY <1>1, <1>2, <1>6 DEF FindBlock, BlockAwaited
<1>7. QED
  BY <1>5, <1>6

LEMMA BlockFoundStream ==
  ASSUME TypeOK, NEW k \in 0 .. Len(Stream), BlockFound(k), UNCHANGED <<sh, stdin>>
  PROVE  /\ k + 3 \in 0 .. Len(Stream) /\ k + 3 \in 0 .. Len(handle.pending)
         /\ Stream' = Past(Stream, k + 3) /\ handle'.dead = handle.dead
         /\ call'.got = <<>> /\ call'.inBlock /\ call'.op = call.op /\ Sent' = Sent
<1>1. k + 3 \in 0 .. Len(Stream) /\ k + 3 \in 0 .. Len(handle.pending)
  BY Pieces DEF BlockFound
<1>2. handle'.pending = Past(handle.pending, k + 3) /\ out' = out /\ handle'.dead = handle.dead
  BY DEF BlockFound, TypeOK, HandleType
<1>3. Stream' = Past(Stream, k + 3)
  BY <1>1, <1>2, StreamPast
<1>4. call'.got = <<>> /\ call'.inBlock /\ call'.op = call.op /\ call'.left = call.left
  BY DEF BlockFound, DumpAfter, TypeOK, CallType
<1>5. Sent' = Sent
  BY <1>4 DEF Sent
<1>6. QED
  BY <1>1, <1>2, <1>3, <1>4, <1>5

LEMMA BlockFoundIn ==
  ASSUME TypeOK, NEW k \in 0 .. Len(Stream), BlockFound(k), UNCHANGED <<sh, stdin>>
  PROVE  InDump'
<1>1. /\ k + 3 \in 0 .. Len(Stream) /\ Stream' = Past(Stream, k + 3)
      /\ call'.got = <<>> /\ Sent' = Sent
  BY BlockFoundStream
<1>2. Stream \in Text /\ Len(Stream) \in Nat /\ k \in Nat /\ Len(Block) \in Nat
  BY Pieces, Length, BlockLen
<1>3. Block' = Block /\ EndAt' = EndAt /\ Said' = Said /\ Alive' = Alive
  <2>1. SameShell
    BY DEF SameShell
  <2>2. QED
    BY <1>1, <2>1, SameBlock
<1>4. Len(Stream') = Len(Stream) - (k + 3)
  BY <1>1, <1>2, PastLength
<1>5. DumpAfter(k) /\ Spells(Stream, k, Block)
  BY DEF BlockFound, DumpAfter
<1>6. ASSUME NEW i \in 1 .. Len(Stream') PROVE Stream'[i] = Block[3 + i]
  <2>1. i \in 1 .. Len(Stream) - (k + 3)
    BY <1>4
  <2>2. Stream'[i] = Stream[k + 3 + i]
    BY <1>1, <1>2, <2>1, PastAt
  <2>3. PICK m \in Nat : m = k + 3 + i
    BY <1>2, <2>1
  <2>4. m \in k + 1 .. Len(Stream) /\ m - k = 3 + i
    BY <1>2, <2>1, <2>3
  <2>5. Stream[m] = Block[m - k]
    BY <1>5, <2>4 DEF Spells
  <2>6. QED
    BY <2>2, <2>3, <2>4, <2>5
<1>7. Len(Stream) - k <= Len(Block)
  BY <1>5 DEF Spells
<1>8. 3 + Len(Stream') <= Len(Block)
  BY <1>2, <1>4, <1>7
<1>9. Alive => 3 + Len(Stream') = Said
  <2>1. Said \in Nat
    BY DEF Said
  <2>2. Alive => Len(Stream) = k + Said
    BY <1>5 DEF DumpAfter
  <2>3. QED
    BY <1>2, <1>4, <2>1, <2>2
<1>10. 3 < EndAt
  BY DEF EndAt
<1>11. 3 + Len(call'.got) = 3 /\ DOMAIN call'.got = {}
  BY <1>1
<1>12. QED
  BY <1>3, <1>6, <1>8, <1>9, <1>10, <1>11 DEF InDump

LEMMA FindBlockStreams ==
  ASSUME TypeOK, Handles, Streams, FindBlock
  PROVE  Streams'
<1>1. Dumping /\ ~handle.dead /\ at' = at /\ UNCHANGED <<sh, stdin, daemon, history>>
  BY FindBlockCases
<1>2. ASSUME NEW k \in 0 .. Len(Stream), BlockFound(k) PROVE Streams'
  <2>1. InDump' /\ call'.inBlock /\ call'.op = call.op
    BY <1>1, <1>2, BlockFoundIn, BlockFoundStream
  <2>2. Dumping' /\ ~Probing'
    BY <1>1, <2>1 DEF Dumping, Probing
  <2>3. QED
    BY <2>1, <2>2 DEF Streams
<1>3. CASE BlockAwaited
  <2>1. Fill(0) /\ call' = call /\ 0 \in 0 .. Len(handle.pending)
    BY <1>3, Pieces DEF BlockAwaited
  <2>2. Stream' = Past(Stream, 0) /\ handle'.dead = handle.dead
    BY <1>1, <2>1, FillStream
  <2>3. Stream' = Stream
    BY <2>2, Pieces, CutNone
  <2>4. SameShell /\ SameCall /\ Sent' = Sent /\ Dumping' = Dumping /\ Probing' = Probing
        /\ UNCHANGED <<ran, asked>>
    BY <1>1, <2>1 DEF SameShell, SameCall, Sent, Dumping, Probing, history
  <2>5. QED
    BY <1>1, <2>2, <2>3, <2>4, SameStreams
<1>4. QED
  BY <1>2, <1>3, FindBlockCases

\* The end of a block is read, or lines of it.
BlockEnd(i, e) ==
  /\ i \in 1 .. Len(handle.pending) /\ e \in 1 .. Len(handle.pending)
  /\ 3 + Len(call.got) + i = EndAt /\ 3 + Len(call.got) + e > EndAt
  /\ ~sh.echo => 3 + Len(call.got) + e = Len(Block)
  /\ MarkerLineEnd(handle.pending, "END") # 0
  /\ handle' = [handle EXCEPT !.pending = Past(handle.pending, e)]
  /\ call' = [call EXCEPT !.got = call.got \o Upto(handle.pending, i - 1)]
  /\ at' = "return" /\ UNCHANGED out
BlockLines(d) ==
  /\ Fill(d) /\ 3 + Len(call.got) + d < EndAt
  /\ call' = [call EXCEPT !.got = call.got \o Upto(handle.pending, d)]
  /\ UNCHANGED at

LEMMA ReadBlockCases ==
  ASSUME TypeOK, Handles, Streams, ReadBlock
  PROVE  /\ at = "dump" /\ call.inBlock /\ Dumping /\ ~handle.dead /\ InDump
         /\ UNCHANGED <<term, sh, stdin, daemon, history>>
         /\ \/ \E i \in 1 .. Len(handle.pending), e \in 1 .. Len(handle.pending) : BlockEnd(i, e)
            \/ \E d \in 0 .. Len(handle.pending) : BlockLines(d)
<1>1. at = "dump" /\ call.inBlock /\ UNCHANGED <<term, sh, stdin, daemon, history>>
  BY DEF ReadBlock
<1>2. Dumping /\ ~handle.dead
  BY <1>1 DEF Handles, Probing
<1>3. InDump
  BY <1>1, <1>2 DEF Streams
<1>4. CASE MarkerLineEnd(handle.pending, "END") # 0
  <2>1. PICK i \in 1 .. Len(handle.pending) : i = First({j \in DOMAIN handle.pending : handle.pending[j] = "END"})
    BY <1>3, <1>4, BlockEnds
  <2>2. PICK e \in 1 .. Len(handle.pending) : e = MarkerLineEnd(handle.pending, "END")
    BY <1>3, <1>4, BlockEnds
  <2>3. 3 + Len(call.got) + i = EndAt /\ 3 + Len(call.got) + e > EndAt
    BY <1>3, <1>4, <2>1, <2>2, BlockEnds
  <2>4. ~sh.echo => 3 + Len(call.got) + e = Len(Block)
    BY <1>3, <1>4, <2>2, BlockEnds, BlockLength
  <2>5. /\ call' = [call EXCEPT !.got = Collected(call.got, Upto(handle.pending, i - 1))]
        /\ handle' = [handle EXCEPT !.pending = Past(handle.pending, e)]
        /\ at' = "return"
        /\ UNCHANGED out
    BY <1>4, <2>1, <2>2 DEF ReadBlock
  <2>6. BlockEnd(i, e)
    BY <1>4, <2>3, <2>4, <2>5 DEF BlockEnd, Collected
  <2>7. QED
    BY <1>1, <1>2, <1>3, <2>6
<1>5. CASE MarkerLineEnd(handle.pending, "END") = 0
  <2>1. PICK d \in 0 .. Len(handle.pending) : d = LastNewline(handle.pending)
    BY Pieces, LastNewlineIn
  <2>2. 3 + Len(call.got) + d < EndAt
    BY <1>3, <1>5, <2>1, BlockGoesOn
  <2>3. /\ Fill(d)
        /\ call' = [call EXCEPT !.got = Collected(call.got, Upto(handle.pending, d))]
        /\ UNCHANGED at
    BY <1>5, <2>1 DEF ReadBlock
  <2>4. BlockLines(d)
    BY <2>2, <2>3 DEF BlockLines, Collected
  <2>5. QED
    BY <1>1, <1>2, <1>3, <2>4
<1>6. QED
  BY <1>4, <1>5

\* What is collected of the block.
LEMMA CollectedBlock ==
  ASSUME TypeOK, InDump, NEW d \in 0 .. Len(handle.pending)
  PROVE  /\ call.got \o Upto(handle.pending, d) \in Seq(Output)
         /\ Len(call.got \o Upto(handle.pending, d)) = Len(call.got) + d /\ Len(call.got) \in Nat
         /\ \A i \in 1 .. Len(call.got) + d :
               (call.got \o Upto(handle.pending, d))[i] = Block[3 + i] /\ 3 + i \in 1 .. Len(Block)
<1>1. call.got \in Seq(Output) /\ handle.pending \in Seq(Output)
  BY Pieces DEF TypeOK, CallType
<1>2. PICK g \in Seq(Output) : g = call.got
  BY <1>1
<1>3. PICK u \in Seq(Output) : u = Upto(handle.pending, d)
  BY <1>1, UptoOutput
<1>4. g \in Text /\ u \in Text /\ handle.pending \in Text
  BY <1>1, OutputText
<1>5. Len(u) = d /\ Len(g) \in Nat /\ d \in Nat
  BY <1>3, <1>4, UptoLength, Length
<1>6. g \o u \in Seq(Output) /\ Len(g \o u) = Len(g) + d
  BY <1>4, <1>5, CatOutput, CatLength
<1>7. 3 + Len(g) <= Len(Block) /\ Len(Block) \in Nat
  BY <1>2, <1>5, DumpStart, BlockMarks, BlockLen
<1>8. ASSUME NEW i \in 1 .. Len(g) + d PROVE (g \o u)[i] = Block[3 + i] /\ 3 + i \in 1 .. Len(Block)
  <2>1. CASE i <= Len(g)
    <3>1. i \in 1 .. Len(g) /\ 3 + i \in 1 .. Len(Block)
      BY <1>5, <1>7, <2>1
    <3>2. i \in DOMAIN call.got
      BY <1>2, <1>4, <3>1, Domain
    <3>3. (g \o u)[i] = g[i]
      BY <1>4, <3>1, CatFirst
    <3>4. g[i] = Block[3 + i]
      BY <1>2, <3>2 DEF InDump
    <3>5. QED
      BY <3>1, <3>3, <3>4
  <2>2. CASE i > Len(g)
    <3>1. PICK j \in 1 .. d : i = Len(g) + j
      <4>1. i - Len(g) \in 1 .. d /\ i = Len(g) + (i - Len(g))
        BY <1>5, <2>2
      <4>2. QED
        BY <4>1
    <3>2. j \in 1 .. Len(u) /\ j \in 1 .. Len(handle.pending)
      BY <1>4, <1>5, Length
    <3>3. (g \o u)[Len(g) + j] = u[j]
      BY <1>4, <3>2, CatSecond
    <3>4. u[j] = handle.pending[j]
      BY <1>3, <1>4, UptoAt
    <3>5. 3 + Len(g) + j \in 1 .. Len(Block) /\ handle.pending[j] = Block[3 + Len(g) + j]
      BY <1>2, <3>2, PendingInDump
    <3>6. 3 + i = 3 + Len(g) + j
      BY <1>5, <3>1
    <3>7. QED
      BY <3>1, <3>3, <3>4, <3>5, <3>6
  <2>3. i <= Len(g) \/ i > Len(g)
    BY <1>5
  <2>4. QED
    BY <2>1, <2>2, <2>3
<1>9. QED
  BY <1>2, <1>3, <1>5, <1>6, <1>8

LEMMA BlockEndStream ==
  ASSUME TypeOK, InDump, NEW i, NEW e, BlockEnd(i, e), sh' = sh
  PROVE  /\ e \in 0 .. Len(Stream) /\ Stream' = Past(Stream, e)
         /\ Len(Stream') = Len(Stream) - e /\ handle'.dead = handle.dead
<1>1. e \in 0 .. Len(handle.pending)
  BY Pieces DEF BlockEnd
<1>2. handle'.pending = Past(handle.pending, e) /\ out' = out /\ handle'.dead = handle.dead
  BY DEF BlockEnd, TypeOK, HandleType
<1>3. Stream' = Past(Stream, e)
  BY <1>1, <1>2, StreamPast
<1>4. e \in 0 .. Len(Stream)
  BY <1>1, Pieces
<1>5. QED
  BY <1>2, <1>3, <1>4, PastLength, Pieces

\* What comes after the end is no digit.
LEMMA BlockEndQuiet ==
  ASSUME TypeOK, InDump, NEW i, NEW e, BlockEnd(i, e), sh' = sh
  PROVE  Quiet(Stream, Len(Stream))'
<1>1. e \in 0 .. Len(Stream) /\ Stream' = Past(Stream, e) /\ Len(Stream') = Len(Stream) - e
  BY BlockEndStream
<1>2. PICK g \in Nat : g = 3 + Len(call.got)
  BY DumpStart
<1>3. Stream \in Text /\ Len(Stream) \in Nat /\ e \in Nat /\ EndAt \in Nat /\ Len(Block) \in Nat
  BY <1>1, Pieces, Length, BlockMarks, BlockLen
<1>4. g + e > EndAt /\ g + Len(Stream) <= Len(Block)
  BY <1>2 DEF BlockEnd, InDump
<1>5. ASSUME NEW j \in 1 .. Len(Stream') PROVE Stream'[j] \in Calm
  <2>1. j \in 1 .. Len(Stream) - e
    BY <1>1
  <2>2. Stream'[j] = Stream[e + j]
    BY <1>1, <1>3, <2>1, PastAt
  <2>3. PICK m \in Nat : m = e + j
    BY <1>3, <2>1
  <2>4. m \in 1 .. Len(Stream) /\ g + m \in 1 .. Len(Block) /\ g + m >= EndAt
    BY <1>3, <1>4, <2>1, <2>3
  <2>5. Stream[m] = Block[g + m]
    BY <1>2, <2>4 DEF InDump
  <2>6. Block[g + m] \in {"END", "cr", "nl"}
    BY <2>4, BlockTokens
  <2>7. {"END", "cr", "nl"} \subseteq Calm
    BY DEF Calm, Output, Words, Digit
  <2>8. QED
    BY <2>2, <2>3, <2>5, <2>6, <2>7
<1>6. QED
  BY <1>5 DEF Quiet

LEMMA BlockLinesIn ==
  ASSUME TypeOK, InDump, NEW d \in 0 .. Len(handle.pending), BlockLines(d), UNCHANGED <<sh, stdin>>
  PROVE  /\ InDump' /\ Sent' = Sent /\ call'.op = call.op /\ call'.inBlock = call.inBlock
         /\ handle'.dead = handle.dead /\ at' = at
<1>1. Fill(d) /\ at' = at
      /\ call' = [call EXCEPT !.got = call.got \o Upto(handle.pending, d)]
  BY DEF BlockLines
<1>2. Stream' = Past(Stream, d) /\ handle'.dead = handle.dead /\ d \in 0 .. Len(Stream)
  BY <1>1, FillStream
<1>3. PICK g \in Nat : g = 3 + Len(call.got)
  BY DumpStart
<1>4. Stream \in Text /\ Len(Stream) \in Nat /\ d \in Nat /\ Len(Block) \in Nat
  BY <1>2, Pieces, Length, BlockLen
<1>5. /\ call'.got = call.got \o Upto(handle.pending, d) /\ call'.left = call.left
      /\ call'.op = call.op /\ call'.inBlock = call.inBlock
  BY <1>1 DEF TypeOK, CallType
<1>6. Sent' = Sent
  BY <1>5 DEF Sent
<1>7. Block' = Block /\ EndAt' = EndAt /\ Said' = Said /\ Alive' = Alive
  <2>1. SameShell
    BY DEF SameShell
  <2>2. QED
    BY <1>6, <2>1, SameBlock
<1>8. Len(Stream') = Len(Stream) - d
  BY <1>2, <1>4, PastLength
<1>9. Len(call'.got) = Len(call.got) + d /\ Len(call.got) \in Nat
  BY <1>5, CollectedBlock
<1>10. 3 + Len(call'.got) = g + d
  BY <1>3, <1>4, <1>9
<1>11. ASSUME NEW i \in DOMAIN call'.got PROVE call'.got[i] = Block[3 + i]
  <2>1. i \in 1 .. Len(call.got) + d
    <3>1. call'.got \in Text
      BY <1>5, CollectedBlock, OutputText
    <3>2. QED
      BY <1>9, <3>1, Domain
  <2>2. QED
    BY <1>5, <2>1, CollectedBlock
<1>12. ASSUME NEW i \in 1 .. Len(Stream') PROVE Stream'[i] = Block[g + d + i]
  <2>1. i \in 1 .. Len(Stream) - d
    BY <1>8
  <2>2. Stream'[i] = Stream[d + i]
    BY <1>2, <1>4, <2>1, PastAt
  <2>3. PICK m \in Nat : m = d + i
    BY <1>4, <2>1
  <2>4. m \in 1 .. Len(Stream) /\ g + m = g + d + i
    BY <1>4, <2>1, <2>3
  <2>5. Stream[m] = Block[g + m]
    BY <1>3, <2>4 DEF InDump
  <2>6. QED
    BY <2>2, <2>3, <2>4, <2>5
<1>13. g + d < EndAt
  BY <1>3 DEF BlockLines
<1>14. g + d + Len(Stream') <= Len(Block)
  <2>1. g + Len(Stream) <= Len(Block)
    BY <1>3 DEF InDump
  <2>2. QED
    BY <1>4, <1>8, <2>1
<1>15. Alive => g + d + Len(Stream') = Said
  <2>1. Said \in Nat
    BY DEF Said
  <2>2. Alive => g + Len(Stream) = Said
    BY <1>3 DEF InDump
  <2>3. QED
    BY <1>4, <1>8, <2>1, <2>2
<1>16. InDump'
  BY <1>7, <1>10, <1>11, <1>12, <1>13, <1>14, <1>15 DEF InDump
<1>17. QED
  BY <1>1, <1>2, <1>5, <1>6, <1>16

LEMMA ReadBlockStreams ==
  ASSUME TypeOK, Handles, Streams, ReadBlock
  PROVE  Streams'
<1>1. /\ at = "dump" /\ call.inBlock /\ Dumping /\ ~handle.dead /\ InDump
      /\ UNCHANGED <<term, sh, stdin, daemon, history>>
  BY ReadBlockCases
<1>2. ASSUME NEW i, NEW e, BlockEnd(i, e) PROVE Streams'
  <2>1. ~Dumping'
    BY <1>2 DEF BlockEnd, Dumping
  <2>2. QED
    BY <1>1, <1>2, <2>1, BlockEndQuiet, QuietStreams
<1>3. ASSUME NEW d \in 0 .. Len(handle.pending), BlockLines(d) PROVE Streams'
  <2>1. /\ InDump' /\ call'.op = call.op /\ call'.inBlock = call.inBlock /\ at' = at
    BY <1>1, <1>3, BlockLinesIn
  <2>2. Dumping' /\ ~Probing'
    BY <1>1, <2>1 DEF Dumping, Probing
  <2>3. QED
    BY <1>1, <2>1, <2>2 DEF Streams
<1>4. QED
  BY <1>2, <1>3, ReadBlockCases

\* What the shell says to a line that is no probe and starts no dump.
LEMMA CalmPiece ==
  ASSUME NEW line, line.op \in {"cmd", "off"}
  PROVE  Quiet(Repeated(line) \o Says(line), Len(Repeated(line) \o Says(line)))
<1>1. Repeated(line) \in {<<>>, <<"text", "nl">>}
  BY DEF Repeated
<1>2. Says(line) \in {<<>>, <<"text">>, <<"text", "nl">>}
  BY DEF Says
<1>3. "text" \in Calm /\ "nl" \in Calm
  BY DEF Calm, Output, Words, Digit
<1>4. CASE Repeated(line) = <<>>
  <2>1. CASE Says(line) = <<>>
    BY <1>4, <2>1 DEF Quiet
  <2>2. CASE Says(line) = <<"text">>
    BY <1>3, <1>4, <2>2 DEF Quiet
  <2>3. CASE Says(line) = <<"text", "nl">>
    BY <1>3, <1>4, <2>3 DEF Quiet
  <2>4. QED
    BY <1>2, <2>1, <2>2, <2>3
<1>5. CASE Repeated(line) = <<"text", "nl">>
  <2>1. CASE Says(line) = <<>>
    BY <1>3, <1>5, <2>1 DEF Quiet
  <2>2. CASE Says(line) = <<"text">>
    BY <1>3, <1>5, <2>2 DEF Quiet
  <2>3. CASE Says(line) = <<"text", "nl">>
    BY <1>3, <1>5, <2>3 DEF Quiet
  <2>4. QED
    BY <1>2, <2>1, <2>2, <2>3
<1>6. QED
  BY <1>1, <1>4, <1>5

LEMMA SpellsCat ==
  ASSUME NEW s \in Text, NEW r \in Text, NEW t \in Text
  PROVE  Spells(s \o (r \o t), Len(s) + Len(r), t)
<1>1. Len(s) \in Nat /\ Len(r) \in Nat /\ Len(t) \in Nat
  BY Length
<1>2. r \o t \in Text /\ Len(r \o t) = Len(r) + Len(t)
  BY CatText, CatLength
<1>3. Len(s \o (r \o t)) = Len(s) + (Len(r) + Len(t))
  BY <1>2, CatLength
<1>4. PICK x \in Text : x = r \o t
  BY <1>2
<1>5. ASSUME NEW i \in Len(s) + Len(r) + 1 .. Len(s \o x)
      PROVE  (s \o x)[i] = t[i - (Len(s) + Len(r))]
  <2>1. PICK j \in 1 .. Len(t) : i = Len(s) + (Len(r) + j)
    <3>1. i - (Len(s) + Len(r)) \in 1 .. Len(t) /\ i = Len(s) + (Len(r) + (i - (Len(s) + Len(r))))
      BY <1>1, <1>3, <1>4
    <3>2. QED
      BY <3>1
  <2>2. Len(r) + j \in 1 .. Len(x)
    BY <1>1, <1>2, <1>4, <2>1
  <2>3. (s \o x)[Len(s) + (Len(r) + j)] = x[Len(r) + j]
    BY <2>2, CatSecond
  <2>4. x[Len(r) + j] = t[j]
    BY <1>4, CatSecond
  <2>5. i - (Len(s) + Len(r)) = j
    BY <1>1, <2>1
  <2>6. QED
    BY <2>1, <2>3, <2>4, <2>5
<1>6. Len(s \o x) - (Len(s) + Len(r)) <= Len(t)
  BY <1>1, <1>3, <1>4
<1>7. QED
  BY <1>4, <1>5, <1>6 DEF Spells

LEMMA ReadStream ==
  ASSUME TypeOK, Handles, TypeOK', ReadLine
  PROVE  /\ Alive /\ ~handle.dead /\ handle'.dead = handle.dead
         /\ Stream = Unread /\ Unread' = Unread /\ Stream' = Stream \o sh'.writing
         /\ sh'.writing \in Seq(Output) /\ UNCHANGED <<at, call, asked>>
         /\ Probing' = Probing /\ Dumping' = Dumping
<1>1. sh.state = "runs" /\ sh.writing = <<>> /\ UNCHANGED <<at, call, handle, out, asked>>
  BY DEF ReadLine, ShellOnly
<1>2. Alive /\ ~handle.dead /\ handle'.dead = handle.dead
  BY <1>1 DEF Alive, Handles
<1>3. sh'.writing \in Seq(Output)
  BY DEF TypeOK, ShType
<1>4. Stream = Unread /\ Unread' = Unread /\ Stream' = Stream \o sh'.writing
  BY <1>1, <1>3, StreamSay
<1>5. QED
  BY <1>1, <1>2, <1>3, <1>4 DEF Probing, Dumping

\* Before the probe is read, there is no status.
LEMMA ReadQuiet ==
  ASSUME TypeOK, Handles, Streams, TypeOK', ReadLine, Probing
  PROVE  Quiet(Stream, Len(Stream)) /\ ~Dumping
<1>1. Sent # <<>> /\ Alive /\ ~handle.dead
  BY ReadSent, ReadStream
<1>2. \A k \in 0 .. Len(Stream) : ~StatusAfter(k)
  BY <1>1 DEF StatusAfter
<1>3. QED
  BY <1>1, <1>2 DEF Streams, Dumping, Probing

LEMMA ReadCalmStreams ==
  ASSUME TypeOK, Handles, Streams, TypeOK', ReadLine, Probing,
         Quiet(sh'.writing, Len(sh'.writing))
  PROVE  Streams' /\ Quiet(Stream, Len(Stream))'
<1>1. Stream' = Stream \o sh'.writing /\ sh'.writing \in Seq(Output) /\ Dumping' = Dumping
  BY ReadStream
<1>2. PICK x \in Text : x = sh'.writing
  BY <1>1, OutputText
<1>3. Stream \in Text /\ Len(x) \in Nat
  BY Pieces, Length
<1>4. Quiet(Stream, Len(Stream)) /\ ~Dumping
  BY ReadQuiet
<1>5. Quiet(Stream \o x, Len(Stream) + Len(x))
  <2>1. Len(x) \in 0 .. Len(x)
    BY <1>3
  <2>2. QED
    BY <1>2, <1>3, <1>4, <2>1, QuietCat
<1>6. Len(Stream \o x) = Len(Stream) + Len(x)
  BY <1>3, CatLength
<1>7. Quiet(Stream, Len(Stream))'
  BY <1>1, <1>2, <1>5, <1>6 DEF Quiet
<1>8. QED
  BY <1>1, <1>4, <1>7, QuietStreams

LEMMA ReadOffStreams ==
  ASSUME TypeOK, Handles, Streams, TypeOK', ReadLine, ReadOff
  PROVE  Streams' /\ Quiet(Stream, Len(Stream))' /\ sh'.noisy = sh.noisy
<1>1. Head(stdin) = Line("off") /\ Probing
  BY DEF ReadOff
<1>2. sh'.writing = Repeated(Line("off")) \o Says(Line("off")) /\ sh'.noisy = sh.noisy
  BY <1>1, ReadOther DEF TypeOK, ShType
<1>3. Line("off").op = "off"
  BY DEF Line
<1>4. Quiet(sh'.writing, Len(sh'.writing))
  BY <1>2, <1>3, CalmPiece
<1>5. QED
  BY <1>1, <1>2, <1>4, ReadCalmStreams

LEMMA ReadCommandStreams ==
  ASSUME TypeOK, Handles, Streams, TypeOK', ReadLine, ReadCommand
  PROVE  Streams' /\ Quiet(Stream, Len(Stream))' /\ sh'.noisy = sh.noisy /\ sh'.hidden = 0
<1>1. Probing
  BY DEF ReadCommand
<1>2. PICK kind \in Kinds \cup Values : Head(stdin) = Cmd(kind)
  BY DEF ReadCommand
<1>3. sh'.noisy = sh.noisy /\ sh'.hidden = 0
  BY <1>2, ReadCmd
<1>4. Quiet(sh'.writing, Len(sh'.writing))
  <2>1. CASE kind = "exit"
    BY <1>2, <2>1, ReadCmd, QuietNil
  <2>2. CASE kind # "exit"
    <3>1. Cmd(kind).op = "cmd"
      BY DEF Cmd
    <3>2. sh'.writing = Repeated(Cmd(kind)) \o Says(Cmd(kind))
      BY <1>2, <2>2, ReadCmd
    <3>3. QED
      BY <3>1, <3>2, CalmPiece
  <2>3. QED
    BY <2>1, <2>2
<1>5. QED
  BY <1>1, <1>3, <1>4, ReadCalmStreams

\* What the shell says to the probe, and where in the stream.
LEMMA ProbePiece ==
  ASSUME TypeOK
  PROVE  /\ Says(Line("probe")) = Status(sh.last)
         /\ Repeated(Line("probe")) \in {<<>>, <<"text">> \o Marker \o <<"pct", "nl">>}
         /\ ~sh.echo => Repeated(Line("probe")) = <<>>
         /\ Repeated(Line("probe")) \in Text
         /\ Quiet(Repeated(Line("probe")), Len(Repeated(Line("probe"))))
<1>1. Line("probe").op = "probe" /\ Line("probe").kind = ""
  BY DEF Line
<1>2. Says(Line("probe")) = Status(sh.last)
  BY <1>1 DEF Says, Status
<1>3. Repeated(Line("probe")) = IF ~sh.echo THEN <<>> ELSE <<"text">> \o Marker \o <<"pct", "nl">>
  BY <1>1 DEF Repeated
<1>4. Repeated(Line("probe")) \in Text
  BY RepeatedType, OutputText
<1>5. Quiet(Repeated(Line("probe")), Len(Repeated(Line("probe"))))
  <2>1. PICK x : x = <<"text">> \o Marker \o <<"pct", "nl">>
    OBVIOUS
  <2>2. Len(x) = 5 /\ x[1] = "text" /\ x[2] = "M1" /\ x[3] = "M2" /\ x[4] = "pct" /\ x[5] = "nl"
    BY <2>1 DEF Marker
  <2>3. {"text", "M1", "M2", "pct", "nl"} \subseteq Calm
    BY DEF Calm, Output, Words, Digit
  <2>4. Quiet(x, Len(x))
    BY <2>2, <2>3 DEF Quiet
  <2>5. QED
    BY <1>3, <2>1, <2>4, QuietNil
<1>6. QED
  BY <1>2, <1>3, <1>4, <1>5

LEMMA ReadProbeStatus ==
  ASSUME TypeOK, Handles, Streams, TypeOK', ReadLine, ReadProbe,
         NEW k \in Nat, k = Len(Stream) + Len(Repeated(Line("probe")))
  PROVE  StatusAfter(k)' /\ k \in 0 .. Len(Stream') /\ sh'.last = sh.last
<1>1. Head(stdin) = Line("probe") /\ at = "status" /\ Probing /\ Sent' = <<>>
      /\ (call.op = "run" => HasRun /\ sh.last = Own(asked))
  BY DEF ReadProbe
<1>2. /\ sh'.writing = Repeated(Line("probe")) \o Says(Line("probe"))
      /\ sh'.last = sh.last /\ sh'.state = "runs" /\ ran' = ran
  BY <1>1, ReadOther
<1>3. Stream' = Stream \o sh'.writing /\ UNCHANGED <<at, call, asked>>
  BY ReadStream
<1>4. PICK r \in Text : r = Repeated(Line("probe"))
  BY ProbePiece
<1>5. PICK t \in Text : t = Status(sh.last)
  <2>1. sh.last \in 0 .. 99
    BY DEF TypeOK, ShType
  <2>2. QED
    BY <2>1, StatusOutput, OutputText
<1>6. Stream' = Stream \o (r \o t)
  BY <1>2, <1>3, <1>4, <1>5, ProbePiece
<1>7. Stream \in Text /\ Len(Stream) \in Nat /\ Len(r) \in Nat /\ Len(t) \in Nat
  BY Pieces, Length
<1>8. PICK x \in Text : x = r \o t /\ Len(x) = Len(r) + Len(t)
  BY CatText, CatLength
<1>9. Quiet(x, Len(r))
  <2>1. Quiet(r, Len(r))
    BY <1>4, ProbePiece
  <2>2. ASSUME NEW i \in 1 .. Len(r) PROVE x[i] \in Calm
    BY <1>8, <2>1, <2>2, CatFirst DEF Quiet
  <2>3. QED
    BY <2>2 DEF Quiet
<1>10. Quiet(Stream \o x, Len(Stream) + Len(r))
  <2>1. Len(r) \in 0 .. Len(x)
    BY <1>7, <1>8
  <2>2. Quiet(Stream, Len(Stream))
    BY <1>1, ReadQuiet
  <2>3. QED
    BY <1>7, <1>9, <2>1, <2>2, QuietCat
<1>11. Len(Stream \o x) = Len(Stream) + Len(x)
  BY <1>7, CatLength
<1>12. Spells(Stream \o x, Len(Stream) + Len(r), t)
  BY <1>7, <1>8, SpellsCat
<1>13. k = Len(Stream) + Len(r)
  BY <1>4
<1>14. Stream' = Stream \o x
  BY <1>6, <1>8
<1>15. Quiet(Stream, k)' /\ Spells(Stream, k, t)'
  BY <1>10, <1>12, <1>13, <1>14 DEF Quiet, Spells
<1>16. Len(Stream') = k + Len(t)
  <2>1. Len(Stream') = Len(Stream) + Len(x)
    BY <1>11, <1>14
  <2>2. Len(x) = Len(r) + Len(t)
    BY <1>8
  <2>3. Len(Stream) + (Len(r) + Len(t)) = Len(Stream) + Len(r) + Len(t)
    BY <1>7
  <2>4. QED
    BY <1>13, <2>1, <2>2, <2>3
<1>17. Status(sh.last)' = t
  BY <1>2, <1>5 DEF Status
<1>18. Alive' /\ HasRun' = HasRun
  BY <1>2, <1>3 DEF Alive, HasRun
<1>19. (call.op = "run" => HasRun /\ sh.last = Own(asked))'
  BY <1>1, <1>2, <1>3, <1>18 DEF Own
<1>20. StatusAfter(k)'
  BY <1>1, <1>3, <1>15, <1>16, <1>17, <1>18, <1>19 DEF StatusAfter
<1>21. k \in 0 .. Len(Stream')
  BY <1>7, <1>16
<1>22. QED
  BY <1>2, <1>20, <1>21

LEMMA ReadProbeStreams ==
  ASSUME TypeOK, Handles, Streams, TypeOK', ReadLine, ReadProbe
  PROVE  Streams'
<1>1. PICK k \in Nat : k = Len(Stream) + Len(Repeated(Line("probe")))
  BY Pieces, Length, ProbePiece
<1>2. StatusAfter(k)' /\ k \in 0 .. Len(Stream')
  BY <1>1, ReadProbeStatus
<1>3. Probing' /\ ~Dumping'
  BY ReadStream, ReadQuiet DEF ReadProbe
<1>4. QED
  BY <1>2, <1>3 DEF Streams

\* The lines of a dump are answered with its pieces.
LEMMA BeginPiece ==
  ASSUME NEW p, p = Repeated(Line("begin")) \o Says(Line("begin"))
  PROVE  IF sh.echo THEN Len(p) = 6 /\ \A i \in 1 .. 6 : p[i] = Block[i]
         ELSE Len(p) = 3 /\ \A i \in 1 .. 3 : p[i] = Block[i]
<1>1. Line("begin").op = "begin" /\ Line("begin").kind = ""
  BY DEF Line
<1>2. Says(Line("begin")) = <<"BEGIN">> \o <<"cr", "nl">>
  BY <1>1 DEF Says, EndOfLine
<1>3. CASE sh.echo
  <2>1. Repeated(Line("begin")) = <<"text", "BEGIN", "nl">>
    BY <1>1, <1>3 DEF Repeated
  <2>2. Len(p) = 6 /\ p[1] = "text" /\ p[2] = "BEGIN" /\ p[3] = "nl" /\ p[4] = "BEGIN" /\ p[5] = "cr" /\ p[6] = "nl"
    BY <1>2, <2>1
  <2>3. Block[1] = "text" /\ Block[2] = "BEGIN" /\ Block[3] = "nl" /\ Block[4] = "BEGIN" /\ Block[5] = "cr" /\ Block[6] = "nl"
    BY <1>3 DEF Block, Echoed
  <2>4. QED
    BY <1>3, <2>2, <2>3
<1>4. CASE ~sh.echo
  <2>1. Repeated(Line("begin")) = <<>>
    BY <1>1, <1>4 DEF Repeated
  <2>2. Len(p) = 3 /\ p[1] = "BEGIN" /\ p[2] = "cr" /\ p[3] = "nl"
    BY <1>2, <2>1
  <2>3. Block[1] = "BEGIN" /\ Block[2] = "cr" /\ Block[3] = "nl"
    BY <1>4 DEF Block, Plain
  <2>4. QED
    BY <1>4, <2>2, <2>3
<1>5. QED
  BY <1>3, <1>4

LEMMA SetPiece ==
  ASSUME TypeOK, NEW p, p = Repeated(Line("set")) \o Says(Line("set"))
  PROVE  IF sh.echo THEN Len(p) = 5 /\ \A i \in 1 .. 5 : p[i] = Block[6 + i]
         ELSE Len(p) = 3 /\ \A i \in 1 .. 3 : p[i] = Block[3 + i]
<1>1. Line("set").op = "set" /\ Line("set").kind = ""
  BY DEF Line
<1>2. PICK v \in Output : v = sh.env
  BY DEF TypeOK, ShType, Output
<1>3. PICK x \in Text : x = Says(Line("set")) /\ Len(x) = 3 /\ x[1] = v /\ x[2] = "cr" /\ x[3] = "nl"
  <2>1. Says(Line("set")) = <<v>> \o <<"cr", "nl">>
    BY <1>1, <1>2 DEF Says, EndOfLine
  <2>2. "cr" \in Output /\ "nl" \in Output
    BY DEF Output, Words
  <2>3. <<v>> \in Seq(Output) /\ <<"cr", "nl">> \in Seq(Output)
    BY <2>2
  <2>4. PICK b \in Text : b = <<v>> /\ Len(b) = 1 /\ b[1] = v
    BY <2>3, OutputText
  <2>5. PICK c \in Text : c = <<"cr", "nl">> /\ Len(c) = 2 /\ c[1] = "cr" /\ c[2] = "nl"
    BY <2>3, OutputText
  <2>6. PICK y \in Text : y = b \o c
    BY CatText
  <2>7. Len(y) = 3
    BY <2>4, <2>5, <2>6, CatLength
  <2>8. y[1] = v
    <3>1. 1 \in 1 .. Len(b)
      BY <2>4
    <3>2. QED
      BY <2>4, <2>6, <3>1, CatFirst
  <2>9. \A j \in 1 .. Len(c) : y[Len(b) + j] = c[j]
    BY <2>6, CatSecond
  <2>10. y[2] = "cr" /\ y[3] = "nl"
    BY <2>4, <2>5, <2>9
  <2>11. y = Says(Line("set"))
    BY <2>1, <2>4, <2>5, <2>6
  <2>12. QED
    BY <2>7, <2>8, <2>10, <2>11
<1>4. CASE sh.echo
  <2>1. Repeated(Line("set")) = <<"text", "nl">>
    BY <1>1, <1>4 DEF Repeated
  <2>2. Len(p) = 5 /\ p[1] = "text" /\ p[2] = "nl" /\ p[3] = v /\ p[4] = "cr" /\ p[5] = "nl"
    <3>1. PICK r \in Text : r = <<"text", "nl">> /\ Len(r) = 2 /\ r[1] = "text" /\ r[2] = "nl"
      <4>1. "text" \in Output /\ "nl" \in Output
        BY DEF Output, Words
      <4>2. <<"text", "nl">> \in Seq(Output)
        BY <4>1
      <4>3. QED
        BY <4>2, OutputText
    <3>2. PICK y \in Text : y = r \o x
      BY CatText
    <3>3. p = y
      BY <1>3, <2>1, <3>1, <3>2
    <3>4. Len(y) = 5
      <4>1. Len(y) = Len(r) + Len(x)
        BY <3>2, CatLength
      <4>2. QED
        BY <1>3, <3>1, <4>1
    <3>5. \A j \in 1 .. Len(r) : y[j] = r[j]
      BY <3>2, CatFirst
    <3>6. \A j \in 1 .. Len(x) : y[Len(r) + j] = x[j]
      BY <3>2, CatSecond
    <3>7. y[1] = "text" /\ y[2] = "nl"
      BY <3>1, <3>5
    <3>8. \A j \in 1 .. 3 : y[2 + j] = x[j]
      BY <1>3, <3>1, <3>6
    <3>9. y[2 + 1] = x[1] /\ y[2 + 2] = x[2] /\ y[2 + 3] = x[3]
      BY <3>8
    <3>10. 2 + 1 = 3 /\ 2 + 2 = 4 /\ 2 + 3 = 5
      OBVIOUS
    <3>11. y[3] = x[1] /\ y[4] = x[2] /\ y[5] = x[3]
      BY <3>9, <3>10
    <3>12. QED
      BY <1>3, <3>3, <3>4, <3>7, <3>11
  <2>3. Block[6 + 1] = "text" /\ Block[6 + 2] = "nl" /\ Block[6 + 3] = sh.env /\ Block[6 + 4] = "cr" /\ Block[6 + 5] = "nl"
    BY <1>4 DEF Block, Echoed
  <2>4. QED
    BY <1>2, <1>4, <2>2, <2>3
<1>5. CASE ~sh.echo
  <2>1. Repeated(Line("set")) = <<>>
    BY <1>1, <1>5 DEF Repeated
  <2>2. Len(p) = 3 /\ p[1] = v /\ p[2] = "cr" /\ p[3] = "nl"
    <3>1. p = x
      BY <1>3, <2>1, NilCat
    <3>2. QED
      BY <1>3, <3>1
  <2>3. Block[3 + 1] = sh.env /\ Block[3 + 2] = "cr" /\ Block[3 + 3] = "nl"
    BY <1>5 DEF Block, Plain
  <2>4. QED
    BY <1>2, <1>5, <2>2, <2>3
<1>6. QED
  BY <1>4, <1>5

LEMMA EndPiece ==
  ASSUME NEW p, p = Repeated(Line("end")) \o Says(Line("end"))
  PROVE  IF sh.echo THEN Len(p) = 6 /\ \A i \in 1 .. 6 : p[i] = Block[11 + i]
         ELSE Len(p) = 3 /\ \A i \in 1 .. 3 : p[i] = Block[6 + i]
<1>1. Line("end").op = "end" /\ Line("end").kind = ""
  BY DEF Line
<1>2. Says(Line("end")) = <<"END">> \o <<"cr", "nl">>
  BY <1>1 DEF Says, EndOfLine
<1>3. CASE sh.echo
  <2>1. Repeated(Line("end")) = <<"text", "END", "nl">>
    BY <1>1, <1>3 DEF Repeated
  <2>2. Len(p) = 6 /\ p[1] = "text" /\ p[2] = "END" /\ p[3] = "nl" /\ p[4] = "END" /\ p[5] = "cr" /\ p[6] = "nl"
    BY <1>2, <2>1
  <2>3. /\ Block[11 + 1] = "text" /\ Block[11 + 2] = "END" /\ Block[11 + 3] = "nl"
        /\ Block[11 + 4] = "END" /\ Block[11 + 5] = "cr" /\ Block[11 + 6] = "nl"
    BY <1>3 DEF Block, Echoed
  <2>4. ASSUME NEW i \in 1 .. 6 PROVE p[i] = Block[11 + i]
    <3>1. i = 1 \/ i = 2 \/ i = 3 \/ i = 4 \/ i = 5 \/ i = 6
      OBVIOUS
    <3>2. QED
      BY <2>2, <2>3, <3>1
  <2>5. QED
    BY <1>3, <2>2, <2>4
<1>4. CASE ~sh.echo
  <2>1. Repeated(Line("end")) = <<>>
    BY <1>1, <1>4 DEF Repeated
  <2>2. Len(p) = 3 /\ p[1] = "END" /\ p[2] = "cr" /\ p[3] = "nl"
    BY <1>2, <2>1
  <2>3. Block[6 + 1] = "END" /\ Block[6 + 2] = "cr" /\ Block[6 + 3] = "nl"
    BY <1>4 DEF Block, Plain
  <2>4. QED
    BY <1>4, <2>2, <2>3
<1>5. QED
  BY <1>3, <1>4

\* p is what a dump says next.
NextPiece(p) ==
  /\ Len(p) \in Nat /\ Said \in Nat /\ Said' = Said + Len(p) /\ Said + Len(p) <= Len(Block)
  /\ \A i \in 1 .. Len(p) : p[i] = Block[Said + i]

LEMMA ReadPiece ==
  ASSUME TypeOK, ReadLine, ReadDump
  PROVE  /\ NextPiece(sh'.writing)
         /\ Block' = Block /\ EndAt' = EndAt /\ Alive'
         /\ sh'.echo = sh.echo /\ sh'.state = "runs"
         /\ sh'.hidden = Len(sh'.writing) /\ (~sh'.noisy => ~sh.noisy /\ ~(sh.echo /\ Len(Sent) = 3))
<1>1. PICK op \in {"begin", "set", "end"} :
        /\ Head(stdin) = Line(op)
        /\ op = "begin" => Len(Sent) = 3 /\ Sent' = <<Line("set"), Line("end")>>
        /\ op = "set" => Len(Sent) = 2 /\ Sent' = <<Line("end")>>
        /\ op = "end" => Len(Sent) = 1 /\ Sent' = <<>>
  BY DEF ReadDump
<1>2. /\ sh'.state = "runs" /\ sh'.env = sh.env
      /\ sh'.echo = (sh.echo /\ op # "off")
      /\ sh'.writing = Repeated(Line(op)) \o Says(Line(op))
      /\ sh'.hidden = Hidden(Line(op))
      /\ sh'.noisy = (sh.noisy \/ (sh.echo /\ op = "begin"))
  BY <1>1, ReadOther
<1>3. sh'.echo = sh.echo
  BY <1>2 DEF TypeOK, ShType
<1>4. Block' = Block
  BY <1>2, <1>3 DEF Block, Echoed, Plain
<1>5. EndAt' = EndAt
  BY <1>3 DEF EndAt
<1>6. Alive'
  BY <1>2 DEF Alive
<1>7. sh'.hidden = Len(sh'.writing)
  <2>1. Line(op).op = op
    BY DEF Line
  <2>2. QED
    BY <1>2, <2>1 DEF Hidden
<1>8. ~sh'.noisy => ~sh.noisy /\ ~(sh.echo /\ Len(Sent) = 3)
  <2>1. ~sh'.noisy => ~sh.noisy /\ ~(sh.echo /\ op = "begin")
    BY <1>2
  <2>2. op # "begin" => Len(Sent) # 3
    BY <1>1
  <2>3. QED
    BY <2>1, <2>2
<1>9. NextPiece(sh'.writing)
  <2>1. PICK p : p = sh'.writing
    OBVIOUS
  <2>2. CASE op = "begin"
    <3>1. Len(Sent) = 3 /\ Len(Sent') = 2
      BY <1>1, <2>2
    <3>2. Said = 0 /\ Said' = IF sh.echo THEN 6 ELSE 3
      BY <1>3, <3>1 DEF Said
    <3>3. IF sh.echo THEN Len(p) = 6 /\ \A i \in 1 .. 6 : p[i] = Block[i]
          ELSE Len(p) = 3 /\ \A i \in 1 .. 3 : p[i] = Block[i]
      BY <1>2, <2>1, <2>2, BeginPiece
    <3>4. \A i \in 1 .. Len(p) : p[i] = Block[Said + i]
      BY <3>2, <3>3
    <3>5. Said + Len(p) <= Len(Block) /\ Len(p) \in Nat /\ Said \in Nat /\ Said' = Said + Len(p)
      <4>1. CASE sh.echo
        <5>1. Len(p) = 6
          BY <3>3, <4>1
        <5>2. Said = 0 /\ Said' = 6 /\ Len(Block) = 17
          BY <3>2, <4>1, BlockLength
        <5>3. QED
          BY <5>1, <5>2
      <4>2. CASE ~sh.echo
        <5>1. Len(p) = 3
          BY <3>3, <4>2
        <5>2. Said = 0 /\ Said' = 3 /\ Len(Block) = 9
          BY <3>2, <4>2, BlockLength
        <5>3. QED
          BY <5>1, <5>2
      <4>3. QED
        BY <4>1, <4>2
    <3>6. QED
      BY <2>1, <3>4, <3>5 DEF NextPiece
  <2>3. CASE op = "set"
    <3>1. Len(Sent) = 2 /\ Len(Sent') = 1
      BY <1>1, <2>3
    <3>2. Said = (IF sh.echo THEN 6 ELSE 3) /\ Said' = IF sh.echo THEN 11 ELSE 6
      BY <1>3, <3>1 DEF Said
    <3>3. IF sh.echo THEN Len(p) = 5 /\ \A i \in 1 .. 5 : p[i] = Block[6 + i]
          ELSE Len(p) = 3 /\ \A i \in 1 .. 3 : p[i] = Block[3 + i]
      BY <1>2, <2>1, <2>3, SetPiece
    <3>4. \A i \in 1 .. Len(p) : p[i] = Block[Said + i]
      BY <3>2, <3>3
    <3>5. Said + Len(p) <= Len(Block) /\ Len(p) \in Nat /\ Said \in Nat /\ Said' = Said + Len(p)
      <4>1. CASE sh.echo
        <5>1. Len(p) = 5
          BY <3>3, <4>1
        <5>2. Said = 6 /\ Said' = 11 /\ Len(Block) = 17
          BY <3>2, <4>1, BlockLength
        <5>3. QED
          BY <5>1, <5>2
      <4>2. CASE ~sh.echo
        <5>1. Len(p) = 3
          BY <3>3, <4>2
        <5>2. Said = 3 /\ Said' = 6 /\ Len(Block) = 9
          BY <3>2, <4>2, BlockLength
        <5>3. QED
          BY <5>1, <5>2
      <4>3. QED
        BY <4>1, <4>2
    <3>6. QED
      BY <2>1, <3>4, <3>5 DEF NextPiece
  <2>4. CASE op = "end"
    <3>1. Len(Sent) = 1 /\ Len(Sent') = 0
      BY <1>1, <2>4
    <3>2. Said = (IF sh.echo THEN 11 ELSE 6) /\ Said' = IF sh.echo THEN 17 ELSE 9
      BY <1>3, <3>1 DEF Said
    <3>3. IF sh.echo THEN Len(p) = 6 /\ \A i \in 1 .. 6 : p[i] = Block[11 + i]
          ELSE Len(p) = 3 /\ \A i \in 1 .. 3 : p[i] = Block[6 + i]
      BY <1>2, <2>1, <2>4, EndPiece
    <3>4. \A i \in 1 .. Len(p) : p[i] = Block[Said + i]
      BY <3>2, <3>3
    <3>5. Said + Len(p) <= Len(Block) /\ Len(p) \in Nat /\ Said \in Nat /\ Said' = Said + Len(p)
      <4>1. CASE sh.echo
        <5>1. Len(p) = 6
          BY <3>3, <4>1
        <5>2. Said = 11 /\ Said' = 17 /\ Len(Block) = 17
          BY <3>2, <4>1, BlockLength
        <5>3. QED
          BY <5>1, <5>2
      <4>2. CASE ~sh.echo
        <5>1. Len(p) = 3
          BY <3>3, <4>2
        <5>2. Said = 6 /\ Said' = 9 /\ Len(Block) = 9
          BY <3>2, <4>2, BlockLength
        <5>3. QED
          BY <5>1, <5>2
      <4>3. QED
        BY <4>1, <4>2
    <3>6. QED
      BY <2>1, <3>4, <3>5 DEF NextPiece
  <2>5. QED
    BY <2>2, <2>3, <2>4
<1>10. QED
  BY <1>2, <1>3, <1>4, <1>5, <1>6, <1>7, <1>8, <1>9

\* The next piece of a dump goes on with what was said.
LEMMA ReadDumpNext ==
  ASSUME TypeOK, Handles, TypeOK', ReadLine, ReadDump, NEW g \in Int, NEW m \in 0 .. Len(Stream),
         \A i \in m + 1 .. Len(Stream) : Stream[i] = Block[g + i],
         g + Len(Stream) = Said
  PROVE  /\ \A i \in m + 1 .. Len(Stream') : Stream'[i] = Block[g + i]
         /\ g + Len(Stream') = Said' /\ g + Len(Stream') <= Len(Block)
         /\ \A i \in 1 .. m : Stream'[i] = Stream[i]
         /\ Len(Stream) <= Len(Stream') /\ Len(Stream') \in Nat
<1>1. Stream' = Stream \o sh'.writing /\ sh'.writing \in Seq(Output)
  BY ReadStream
<1>2. PICK p \in Text : p = sh'.writing
  BY <1>1, OutputText
<1>3. NextPiece(p)
  BY <1>2, ReadPiece
<1>4. Stream \in Text /\ Len(Stream) \in Nat /\ Len(p) \in Nat /\ Said \in Nat
  BY <1>3, Pieces, Length DEF NextPiece
<1>5. PICK y \in Text : y = Stream \o p /\ Len(y) = Len(Stream) + Len(p)
  BY <1>4, CatText, CatLength
<1>6. Stream' = y
  BY <1>1, <1>2, <1>5
<1>7. \A i \in 1 .. Len(Stream) : y[i] = Stream[i]
  BY <1>4, <1>5, CatFirst
<1>8. ASSUME NEW i \in m + 1 .. Len(y) PROVE y[i] = Block[g + i]
  <2>1. CASE i <= Len(Stream)
    <3>1. i \in 1 .. Len(Stream) /\ i \in m + 1 .. Len(Stream)
      BY <1>4, <2>1
    <3>2. QED
      BY <1>7, <3>1
  <2>2. CASE i > Len(Stream)
    <3>1. PICK j \in 1 .. Len(p) : i = Len(Stream) + j
      <4>1. i - Len(Stream) \in 1 .. Len(p) /\ i = Len(Stream) + (i - Len(Stream))
        BY <1>4, <1>5, <2>2
      <4>2. QED
        BY <4>1
    <3>2. y[Len(Stream) + j] = p[j]
      BY <1>4, <1>5, CatSecond
    <3>3. p[j] = Block[Said + j]
      BY <1>3 DEF NextPiece
    <3>4. Said + j = g + i
      BY <1>4, <3>1
    <3>5. QED
      BY <3>1, <3>2, <3>3, <3>4
  <2>3. i <= Len(Stream) \/ i > Len(Stream)
    BY <1>4, <1>5
  <2>4. QED
    BY <2>1, <2>2, <2>3
<1>9. g + Len(y) = Said + Len(p)
  <2>1. Len(y) = Len(Stream) + Len(p)
    BY <1>5
  <2>2. g + (Len(Stream) + Len(p)) = g + Len(Stream) + Len(p)
    BY <1>4
  <2>3. QED
    BY <2>1, <2>2
<1>10. g + Len(y) = Said' /\ g + Len(y) <= Len(Block)
  BY <1>3, <1>9 DEF NextPiece
<1>11. \A i \in 1 .. m : y[i] = Stream[i]
  <2>1. \A i \in 1 .. m : i \in 1 .. Len(Stream)
    BY <1>4
  <2>2. QED
    BY <1>7, <2>1
<1>12. Len(Stream) <= Len(y) /\ Len(y) \in Nat
  <2>1. Len(y) = Len(Stream) + Len(p)
    BY <1>5
  <2>2. QED
    BY <1>4, <2>1
<1>13. QED
  BY <1>6, <1>8, <1>10, <1>11, <1>12

LEMMA ReadDumpAfter ==
  ASSUME TypeOK, Handles, TypeOK', ReadLine, ReadDump, NEW k \in 0 .. Len(Stream), DumpAfter(k)
  PROVE  DumpAfter(k)' /\ k \in 0 .. Len(Stream')
<1>1. /\ Block' = Block /\ Alive' /\ Alive /\ call' = call
  BY ReadPiece, ReadStream
<1>2. Len(Stream) \in Nat /\ k \in Nat /\ Said \in Nat /\ Len(Block) \in Nat
  BY Pieces, Length, BlockLen DEF Said
<1>3. Quiet(Stream, k) /\ Spells(Stream, k, Block) /\ Len(Stream) = k + Said
  BY <1>1 DEF DumpAfter
<1>4. PICK g \in Int : g = 0 - k
  BY <1>2
<1>5. ASSUME NEW i \in k + 1 .. Len(Stream) PROVE Stream[i] = Block[g + i]
  <2>1. g + i = i - k
    BY <1>2, <1>4
  <2>2. QED
    BY <1>3, <2>1 DEF Spells
<1>6. g + Len(Stream) = Said
  BY <1>2, <1>3, <1>4
<1>7. /\ \A i \in k + 1 .. Len(Stream') : Stream'[i] = Block[g + i]
      /\ g + Len(Stream') = Said' /\ g + Len(Stream') <= Len(Block)
      /\ \A i \in 1 .. k : Stream'[i] = Stream[i]
      /\ Len(Stream) <= Len(Stream') /\ Len(Stream') \in Nat
  BY <1>5, <1>6, ReadDumpNext
<1>8. Quiet(Stream', k)
  BY <1>3, <1>7 DEF Quiet
<1>9. Spells(Stream', k, Block)
  <2>1. ASSUME NEW i \in k + 1 .. Len(Stream') PROVE Stream'[i] = Block[i - k]
    <3>1. g + i = i - k
      BY <1>2, <1>4, <1>7
    <3>2. QED
      BY <1>7, <3>1
  <2>2. Len(Stream') - k <= Len(Block)
    BY <1>2, <1>4, <1>7
  <2>3. QED
    BY <2>1, <2>2 DEF Spells
<1>10. Len(Stream') = k + Said'
  BY <1>2, <1>4, <1>7
<1>11. DumpAfter(k)'
  <2>1. Quiet(Stream, k)' /\ Spells(Stream, k, Block)'
    BY <1>1, <1>8, <1>9 DEF Quiet, Spells
  <2>2. call'.got = <<>>
    BY <1>1 DEF DumpAfter
  <2>3. QED
    BY <1>10, <2>1, <2>2 DEF DumpAfter
<1>12. k \in 0 .. Len(Stream')
  BY <1>2, <1>7
<1>13. QED
  BY <1>11, <1>12

LEMMA ReadInDump ==
  ASSUME TypeOK, Handles, TypeOK', ReadLine, ReadDump, InDump
  PROVE  InDump'
<1>1. /\ Block' = Block /\ EndAt' = EndAt /\ Alive' /\ Alive /\ call' = call
  BY ReadPiece, ReadStream
<1>2. PICK g \in Nat : g = 3 + Len(call.got)
  BY DumpStart
<1>3. Len(Stream) \in Nat
  BY Pieces, Length
<1>4. /\ \A i \in 1 .. Len(Stream) : Stream[i] = Block[g + i]
      /\ g < EndAt /\ g + Len(Stream) = Said
      /\ \A i \in DOMAIN call.got : call.got[i] = Block[3 + i]
  BY <1>1, <1>2 DEF InDump
<1>5. PICK m \in 0 .. Len(Stream) : m = 0
  BY <1>3
<1>6. \A i \in m + 1 .. Len(Stream) : Stream[i] = Block[g + i]
  BY <1>4, <1>5
<1>7. /\ \A i \in m + 1 .. Len(Stream') : Stream'[i] = Block[g + i]
      /\ g + Len(Stream') = Said' /\ g + Len(Stream') <= Len(Block)
  <2>1. g \in Int /\ g + Len(Stream) = Said
    BY <1>4
  <2>2. QED
    BY <1>6, <2>1, ReadDumpNext
<1>8. \A i \in 1 .. Len(Stream') : Stream'[i] = Block[g + i]
  BY <1>5, <1>7
<1>9. QED
  BY <1>1, <1>2, <1>4, <1>7, <1>8 DEF InDump

LEMMA ReadDumpStreams ==
  ASSUME TypeOK, Handles, Streams, TypeOK', ReadLine, ReadDump
  PROVE  Streams'
<1>1. Dumping /\ ~Probing
  BY DEF ReadDump, Dumping, Probing
<1>2. ~handle.dead /\ call' = call /\ Dumping' /\ ~Probing'
  BY <1>1, ReadStream
<1>3. CASE call.inBlock
  BY <1>1, <1>2, <1>3, ReadInDump DEF Streams
<1>4. CASE ~call.inBlock
  <2>1. PICK k \in 0 .. Len(Stream) : DumpAfter(k)
    BY <1>1, <1>2, <1>4 DEF Streams
  <2>2. DumpAfter(k)' /\ k \in 0 .. Len(Stream')
    BY <2>1, ReadDumpAfter
  <2>3. QED
    BY <1>2, <1>4, <2>2 DEF Streams
<1>5. QED
  BY <1>3, <1>4

LEMMA StreamsStep ==
  ASSUME TypeOK, Handles, Lines, Streams, TypeOK', Next
  PROVE  Streams'
<1>1. CASE ReadLine
  <2>1. ReadOff \/ ReadProbe \/ ReadCommand \/ ReadDump
    BY <1>1, ReadCases
  <2>2. QED
    BY <1>1, <2>1, ReadOffStreams, ReadProbeStreams, ReadCommandStreams, ReadDumpStreams
<1>2. CASE Open \/ (\E kind \in Kinds \cup Values : Run(kind)) \/ DumpEnv \/ Close
  BY <1>2, OpenStreams, RunStreams, DumpEnvStreams, CloseStreams
<1>3. CASE Write \/ WaitStatus \/ FindBlock \/ ReadBlock
  BY <1>3, WriteStreams, WaitStatusStreams, FindBlockStreams, ReadBlockStreams
<1>4. CASE DumpFails \/ Drain \/ Return
  BY <1>4, DumpFailsStreams, DrainStreams, ReturnStreams
<1>5. CASE WriteToken \/ Swallow \/ EndOfInput \/ Killed \/ DaemonEnds
  BY <1>5, WriteTokenStreams, SwallowStreams, EndOfInputStreams, KilledStreams, DaemonEndsStreams
<1>6. QED
  BY <1>1, <1>2, <1>3, <1>4, <1>5 DEF Next, Venv, Shell

-----------------------------------------------------------------------------
(* How a shell, a command and a dump end                                   *)

\* The three parts of it.
GoneEnd ==
  sh.state = "gone" /\ handle.open /\ ~handle.dead /\ call.op # "close" =>
     \/ sh.code = KILLED /\ sh.noisy
     \/ Probing /\ call.op = "run" /\ sh.code = Own(asked) /\ HasRun
RunEnd ==
  at = "return" /\ call.op = "run" =>
     IF call.ok THEN (call.code = Own(asked) /\ HasRun) \/ (call.code = KILLED /\ ~Alive)
     ELSE ~Alive

LEMMA EndedParts ==
  Ended <=> GoneEnd /\ RunEnd /\ DumpIsLive
BY DEF Ended, GoneEnd, RunEnd

LEMMA EndedPartsNow ==
  ASSUME GoneEnd', RunEnd', DumpIsLive'
  PROVE  Ended'
BY DEF Ended, GoneEnd, RunEnd

LEMMA SameEnded ==
  ASSUME Ended, UNCHANGED <<at, call, asked, ran>>,
         handle'.open = handle.open, handle'.dead = handle.dead, sh'.state = sh.state,
         sh'.code = sh.code, sh'.noisy = sh.noisy, sh'.env = sh.env
  PROVE  Ended'
<1>1. HasRun' = HasRun /\ Probing' = Probing /\ Alive' = Alive
  BY DEF HasRun, Probing, Alive
<1>2. GoneEnd'
  BY <1>1, EndedParts DEF GoneEnd, KILLED, Own
<1>3. RunEnd'
  BY <1>1, EndedParts DEF RunEnd, KILLED, Own
<1>4. DumpIsLive'
  BY EndedParts DEF DumpIsLive
<1>5. QED
  BY <1>2, <1>3, <1>4, EndedPartsNow

\* A call starts, or goes on.
LEMMA NoReturnEnded ==
  ASSUME at' # "return", GoneEnd'
  PROVE  Ended'
BY EndedPartsNow DEF RunEnd, DumpIsLive

LEMMA OpenEnded ==
  ASSUME TypeOK, Open
  PROVE  Ended'
<1>1. at' = "write" /\ sh'.state = "runs"
  BY DEF Open, NoShell
<1>2. QED
  BY <1>1, NoReturnEnded DEF GoneEnd

LEMMA SendEnded ==
  ASSUME TypeOK, Handles, Ended, at = "config", NEW op \in {"run", "dump"}, NEW lines, Send(op, lines),
         UNCHANGED <<handle, sh>>
  PROVE  Ended'
<1>1. call.op # "close" /\ ~Probing
  BY DEF Handles, Probing
<1>2. CASE handle.dead
  <2>1. at' = "return" /\ ~call'.ok /\ ~Alive'
    BY <1>2 DEF Send, Idle, Handles, Alive
  <2>2. RunEnd' /\ DumpIsLive'
    BY <2>1 DEF RunEnd, DumpIsLive
  <2>3. GoneEnd'
    BY <1>2 DEF GoneEnd
  <2>4. QED
    BY <2>2, <2>3, EndedPartsNow
<1>3. CASE ~handle.dead
  <2>1. at' = "write"
    BY <1>3 DEF Send
  <2>2. GoneEnd'
    BY <1>1, EndedParts DEF GoneEnd, KILLED
  <2>3. QED
    BY <2>1, <2>2, NoReturnEnded
<1>4. QED
  BY <1>2, <1>3

LEMMA WriteEnded ==
  ASSUME TypeOK, Handles, Ended, Write
  PROVE  Ended'
<1>1. CASE Alive \/ daemon
  <2>1. /\ call'.op = call.op /\ Probing' = Probing
        /\ UNCHANGED <<handle, sh, out, daemon, term, history>>
    BY <1>1, WriteSent
  <2>2. HasRun' = HasRun /\ asked' = asked
    BY <2>1 DEF HasRun, history
  <2>3. at' # "return"
    BY <1>1 DEF Write
  <2>4. GoneEnd'
    BY <2>1, <2>2, EndedParts DEF GoneEnd, KILLED, Own
  <2>5. QED
    BY <2>3, <2>4, NoReturnEnded
<1>2. CASE ~(Alive \/ daemon)
  <2>1. handle' = [handle EXCEPT !.dead = TRUE] /\ call' = [call EXCEPT !.ok = FALSE] /\ sh' = sh
    BY <1>2 DEF Write
  <2>2. handle'.dead /\ ~call'.ok /\ ~Alive'
    BY <1>2, <2>1 DEF TypeOK, HandleType, CallType, Alive
  <2>3. QED
    BY <2>2, EndedPartsNow DEF GoneEnd, RunEnd, DumpIsLive
<1>3. QED
  BY <1>1, <1>2

LEMMA WaitStatusEnded ==
  ASSUME TypeOK, Handles, Streams, Ended, WaitStatus
  PROVE  Ended'
<1>1. at = "status" /\ Probing /\ call.ok /\ ~handle.dead /\ handle.open /\ sh.state # "none"
  BY WaitCases DEF Handles, Probing, Dumping
<1>2. ASSUME NEW k \in 0 .. Len(Stream), Found(k) PROVE Ended'
  <2>1. StatusAfter(k) /\ at' = "return" /\ UNCHANGED <<sh, ran, asked>>
        /\ call' = [call EXCEPT !.code = sh.last] /\ handle' = [handle EXCEPT !.pending = <<>>]
    BY <1>2 DEF Found, history
  <2>2. call'.op = call.op /\ call'.ok = call.ok /\ call'.code = sh.last
    BY <2>1 DEF TypeOK, CallType
  <2>3. HasRun' = HasRun
    BY <2>1 DEF HasRun
  <2>4. RunEnd'
    BY <1>1, <2>1, <2>2, <2>3 DEF RunEnd, StatusAfter, Own
  <2>5. GoneEnd'
    <3>1. sh.state = "gone" => sh.code = KILLED /\ sh.noisy
      BY <2>1 DEF StatusAfter, Alive
    <3>2. QED
      BY <2>1, <3>1 DEF GoneEnd, KILLED
  <2>6. DumpIsLive'
    BY <1>1, <2>2 DEF DumpIsLive, Probing
  <2>7. QED
    BY <2>4, <2>5, <2>6, EndedPartsNow
<1>3. CASE NotFound
  <2>1. UNCHANGED <<at, call, sh, asked, ran>> /\ Fill(LastNewline(handle.pending))
    BY <1>3 DEF NotFound, history
  <2>2. handle'.open = handle.open /\ handle'.dead = handle.dead
    BY <2>1 DEF Fill, TypeOK, HandleType
  <2>3. QED
    BY <2>1, <2>2, SameEnded
<1>4. CASE ShellGone /\ UNCHANGED <<sh, stdin, daemon, history>>
  <2>1. at' = "return" /\ ~Alive /\ UNCHANGED <<sh, asked, ran>>
        /\ handle' = [handle EXCEPT !.dead = TRUE, !.pending = <<>>]
        /\ call' = [call EXCEPT !.code = sh.code, !.ok = call.op # "open"]
    BY <1>4 DEF ShellGone, EofOnOut, history
  <2>2. handle'.dead /\ call'.op = call.op /\ call'.code = sh.code /\ call'.ok = (call.op # "open")
    BY <2>1 DEF TypeOK, HandleType, CallType
  <2>3. sh.state = "gone"
    BY <1>1, <2>1 DEF Alive, TypeOK, ShType
  <2>4. call.op = "run" => (sh.code = KILLED \/ (sh.code = Own(asked) /\ HasRun))
    BY <1>1, <2>3, EndedParts DEF GoneEnd
  <2>5. HasRun' = HasRun /\ ~Alive' /\ Own(asked)' = Own(asked)
    BY <2>1 DEF HasRun, Alive, Own
  <2>6. RunEnd'
    BY <2>2, <2>4, <2>5 DEF RunEnd, KILLED
  <2>7. GoneEnd'
    BY <2>2 DEF GoneEnd
  <2>8. DumpIsLive'
    BY <1>1, <2>2 DEF DumpIsLive, Probing
  <2>9. QED
    BY <2>6, <2>7, <2>8, EndedPartsNow
<1>5. QED
  BY <1>2, <1>3, <1>4, WaitCases

LEMMA FindBlockEnded ==
  ASSUME TypeOK, Handles, Streams, Ended, FindBlock
  PROVE  Ended'
<1>1. Dumping /\ at' = at /\ UNCHANGED <<sh, asked, ran>>
  BY FindBlockCases DEF history
<1>2. at # "return" /\ ~Probing
  BY <1>1 DEF Dumping, Probing
<1>3. call'.op = call.op /\ handle'.open = handle.open /\ handle'.dead = handle.dead
  BY DEF FindBlock, Fill, TypeOK, CallType, HandleType
<1>4. GoneEnd'
  BY <1>1, <1>2, <1>3, EndedParts DEF GoneEnd, KILLED
<1>5. QED
  BY <1>1, <1>2, <1>4, NoReturnEnded

\* The variables are in the block, once.
LEMMA BlockEndLive ==
  ASSUME TypeOK, InDump, NEW i, NEW e, BlockEnd(i, e), sh' = sh
  PROVE  DumpIsLive'
<1>1. PICK d \in 0 .. Len(handle.pending) : d = i - 1
  BY Pieces DEF BlockEnd
<1>2. call'.got = call.got \o Upto(handle.pending, d)
  BY <1>1 DEF BlockEnd, TypeOK, CallType
<1>3. PICK y \in Text : y = call'.got
  BY <1>2, CollectedBlock, OutputText
<1>4. PICK l \in Nat : l = Len(call.got) + d
  BY <1>1, CollectedBlock, Pieces
<1>5. Len(y) = l /\ \A j \in 1 .. l : y[j] = Block[3 + j] /\ 3 + j \in 1 .. Len(Block)
  BY <1>2, <1>3, <1>4, CollectedBlock
<1>6. 3 + l + 1 = EndAt
  <2>1. Len(call.got) \in Nat /\ i \in Nat /\ 3 + Len(call.got) + i = EndAt
    BY CollectedBlock, Pieces DEF BlockEnd
  <2>2. QED
    BY <1>1, <1>4, <2>1
<1>7. PICK j \in Nat : EnvAt = 3 + j
  BY DEF EnvAt
<1>8. j \in 1 .. l
  BY <1>6, <1>7, BlockMarks
<1>9. y[j] = sh.env
  BY <1>5, <1>7, <1>8, BlockTokens
<1>10. ASSUME NEW m \in 1 .. l, m # j PROVE y[m] \notin Values
  <2>1. 3 + m # EnvAt
    BY <1>7, <1>10
  <2>2. y[m] \in Words
    BY <1>5, <2>1, BlockTokens
  <2>3. QED
    BY <2>2, ValuesAssumption
<1>11. DOMAIN call'.got = 1 .. l
  BY <1>3, <1>5, Domain
<1>12. \E k \in DOMAIN call'.got :
         /\ call'.got[k] = sh'.env
         /\ \A m \in DOMAIN call'.got \ {k} : call'.got[m] \notin Values
  BY <1>3, <1>8, <1>9, <1>10, <1>11
<1>13. QED
  BY <1>12 DEF DumpIsLive

LEMMA ReadBlockEnded ==
  ASSUME TypeOK, Handles, Streams, Ended, ReadBlock
  PROVE  Ended'
<1>1. /\ at = "dump" /\ Dumping /\ ~handle.dead /\ InDump /\ ~Probing
      /\ UNCHANGED <<sh, asked, ran>>
  BY ReadBlockCases DEF history, Dumping, Probing
<1>2. call'.op = call.op /\ handle'.open = handle.open /\ handle'.dead = handle.dead
  BY DEF ReadBlock, Fill, TypeOK, CallType, HandleType
<1>3. GoneEnd'
  BY <1>1, <1>2, EndedParts DEF GoneEnd, KILLED
<1>4. RunEnd'
  BY <1>1, <1>2 DEF RunEnd, Dumping
<1>5. ASSUME NEW i, NEW e, BlockEnd(i, e) PROVE Ended'
  BY <1>1, <1>3, <1>4, <1>5, BlockEndLive, EndedPartsNow
<1>6. ASSUME NEW d, BlockLines(d) PROVE Ended'
  BY <1>1, <1>3, <1>6, NoReturnEnded DEF BlockLines
<1>7. QED
  BY <1>5, <1>6, ReadBlockCases

LEMMA DumpFailsEnded ==
  ASSUME TypeOK, Handles, Ended, DumpFails
  PROVE  Ended'
<1>1. handle'.dead /\ ~call'.ok /\ call'.op = call.op
  BY DEF DumpFails, TypeOK, HandleType, CallType
<1>2. call.op = "dump"
  BY DEF DumpFails, Handles, Dumping, Probing
<1>3. QED
  BY <1>1, <1>2, EndedPartsNow DEF GoneEnd, RunEnd, DumpIsLive

LEMMA CloseEnded ==
  ASSUME Close
  PROVE  Ended'
<1>1. call'.op = "close"
  BY DEF Close, Idle
<1>2. QED
  BY <1>1, EndedPartsNow DEF GoneEnd, RunEnd, DumpIsLive

LEMMA DrainEnded ==
  ASSUME Handles, Drain
  PROVE  Ended'
<1>1. call'.op = "close"
  BY DEF Drain, Handles
<1>2. QED
  BY <1>1, EndedPartsNow DEF GoneEnd, RunEnd, DumpIsLive

LEMMA ReturnEnded ==
  ASSUME TypeOK, Handles, Ended, Return
  PROVE  Ended'
<1>1. at = "return" /\ at' # "return" /\ ~Probing /\ sh' = sh
  BY DEF Return, Probing
<1>2. handle'.open = handle.open /\ handle'.dead = handle.dead
  BY DEF Return, TypeOK, HandleType
<1>3. call.op = "close" => ~handle.open
  BY <1>1 DEF Handles
<1>4. GoneEnd'
  BY <1>1, <1>2, <1>3, EndedParts DEF GoneEnd, KILLED
<1>5. QED
  BY <1>1, <1>4, NoReturnEnded

LEMMA WriteTokenEnded ==
  ASSUME TypeOK, Ended, WriteToken
  PROVE  Ended'
<1>1. UNCHANGED <<at, call, handle, asked, ran>> /\ sh' = [sh EXCEPT !.writing = Tail(sh.writing)]
  BY DEF WriteToken, ShellOnly
<1>2. sh'.state = sh.state /\ sh'.code = sh.code /\ sh'.noisy = sh.noisy /\ sh'.env = sh.env
  BY <1>1 DEF TypeOK, ShType
<1>3. QED
  BY <1>1, <1>2, SameEnded

LEMMA ReadLineEnded ==
  ASSUME TypeOK, Handles, Lines, ReadLine
  PROVE  Ended'
<1>1. UNCHANGED <<at, call, handle, asked>>
  BY DEF ReadLine, ShellOnly
<1>2. ReadOff \/ ReadProbe \/ ReadCommand \/ ReadDump
  BY ReadCases
<1>3. Probing \/ Dumping
  BY <1>2 DEF ReadOff, ReadProbe, ReadCommand, ReadDump
<1>4. at' # "return"
  BY <1>1, <1>3 DEF Probing, Dumping
<1>5. CASE ReadCommand
  <2>1. PICK kind \in Kinds \cup Values : Head(stdin) = Cmd(kind)
    BY <1>5 DEF ReadCommand
  <2>2. Probing' /\ call'.op = "run" /\ HasRun'
    <3>1. ran' = Append(ran, asked)
      BY <2>1, ReadCmd
    <3>2. HasRun'
      BY <1>1, <3>1, HasRunNow
    <3>3. QED
      BY <1>1, <1>5, <3>2 DEF ReadCommand, Probing
  <2>3. sh'.state = "gone" => sh'.code = Own(asked)
    BY <2>1, ReadCmd
  <2>4. GoneEnd'
    BY <1>1, <2>2, <2>3 DEF GoneEnd, Own
  <2>5. QED
    BY <1>4, <2>4, NoReturnEnded
<1>6. CASE ReadOff \/ ReadProbe \/ ReadDump
  <2>1. PICK op \in {"off", "probe", "begin", "set", "end"} : Head(stdin) = Line(op)
    BY <1>6 DEF ReadOff, ReadProbe, ReadDump
  <2>2. sh'.state = "runs"
    BY <2>1, ReadOther
  <2>3. QED
    BY <1>4, <2>2, NoReturnEnded DEF GoneEnd
<1>7. QED
  BY <1>2, <1>5, <1>6

LEMMA SwallowEnded ==
  ASSUME TypeOK, Lines, Swallow
  PROVE  Ended'
<1>1. UNCHANGED <<at, call, handle>> /\ sh' = [sh EXCEPT !.state = "runs", !.ate = TRUE]
      /\ sh.state = "swallows"
  BY DEF Swallow, ShellOnly
<1>2. Probing
  BY <1>1 DEF Lines, Alive
<1>3. at' # "return" /\ sh'.state = "runs"
  BY <1>1, <1>2 DEF Probing, TypeOK, ShType
<1>4. QED
  BY <1>3, NoReturnEnded DEF GoneEnd

LEMMA EndOfInputEnded ==
  ASSUME Handles, EndOfInput
  PROVE  Ended'
<1>1. call' = call /\ Alive /\ ~handle.in
  BY DEF EndOfInput, ShellOnly
<1>2. call'.op = "close"
  BY <1>1 DEF Handles
<1>3. QED
  BY <1>2, EndedPartsNow DEF GoneEnd, RunEnd, DumpIsLive

LEMMA KilledEnded ==
  ASSUME TypeOK, Ended, Killed
  PROVE  Ended'
<1>1. UNCHANGED <<at, call, handle, asked, ran>> /\ Alive /\ sh' = [Dies(KILLED) EXCEPT !.noisy = TRUE]
  BY DEF Killed, ShellOnly
<1>2. sh'.code = KILLED /\ sh'.noisy /\ sh'.env = sh.env /\ sh'.state = "gone"
  BY <1>1 DEF Dies, TypeOK, ShType
<1>3. GoneEnd'
  BY <1>2 DEF GoneEnd, KILLED
<1>4. HasRun' = HasRun /\ ~Alive'
  BY <1>1, <1>2 DEF HasRun, Alive
<1>5. RunEnd'
  BY <1>1, <1>4, EndedParts DEF RunEnd, Own
<1>6. DumpIsLive'
  BY <1>1, <1>2, EndedParts DEF DumpIsLive
<1>7. QED
  BY <1>3, <1>5, <1>6, EndedPartsNow

LEMMA EndedStep ==
  ASSUME TypeOK, Handles, Lines, Streams, Ended, Next
  PROVE  Ended'
<1>1. ASSUME NEW kind, Run(kind) PROVE Ended'
  <2>1. at = "config" /\ UNCHANGED <<handle, sh>>
        /\ Send("run", <<[op |-> "cmd", n |-> asked + 1, kind |-> kind], Line("probe")>>)
    BY <1>1 DEF Run
  <2>2. QED
    BY <2>1, SendEnded
<1>2. CASE DumpEnv
  <2>1. at = "config" /\ UNCHANGED <<handle, sh>>
        /\ Send("dump", <<Line("begin"), Line("set"), Line("end")>>)
    BY <1>2 DEF DumpEnv
  <2>2. QED
    BY <2>1, SendEnded
<1>3. CASE DaemonEnds
  <2>1. UNCHANGED <<at, call, asked, ran, handle, sh>>
    BY <1>3 DEF DaemonEnds, ShellOnly
  <2>2. QED
    BY <2>1, SameEnded
<1>4. CASE Open \/ Close \/ Write \/ WaitStatus
  BY <1>4, OpenEnded, CloseEnded, WriteEnded, WaitStatusEnded
<1>5. CASE FindBlock \/ ReadBlock \/ DumpFails \/ Drain \/ Return
  BY <1>5, FindBlockEnded, ReadBlockEnded, DumpFailsEnded, DrainEnded, ReturnEnded
<1>6. CASE WriteToken \/ ReadLine \/ Swallow \/ EndOfInput \/ Killed
  BY <1>6, WriteTokenEnded, ReadLineEnded, SwallowEnded, EndOfInputEnded, KilledEnded
<1>7. QED
  BY <1>1, <1>2, <1>3, <1>4, <1>5, <1>6 DEF Next, Venv, Shell

-----------------------------------------------------------------------------
(* What is shown                                                           *)

LEMMA NoStream ==
  ASSUME TypeOK
  PROVE  Stream = <<>> <=> handle.pending = <<>> /\ out = <<>> /\ sh.writing = <<>>
<1>1. /\ Len(Unread) = Len(handle.pending) + Len(out) /\ Len(Stream) = Len(Unread) + Len(sh.writing)
      /\ Len(handle.pending) \in Nat /\ Len(out) \in Nat /\ Len(sh.writing) \in Nat
      /\ handle.pending \in Text /\ out \in Text /\ sh.writing \in Text /\ Stream \in Text
  BY Pieces
<1>2. PICK a \in Nat, b \in Nat, c \in Nat :
        a = Len(handle.pending) /\ b = Len(out) /\ c = Len(sh.writing) /\ Len(Stream) = a + b + c
  BY <1>1
<1>3. a + b + c = 0 <=> a = 0 /\ b = 0 /\ c = 0
  OBVIOUS
<1>4. (Stream = <<>> <=> Len(Stream) = 0) /\ (handle.pending = <<>> <=> Len(handle.pending) = 0)
      /\ (out = <<>> <=> Len(out) = 0) /\ (sh.writing = <<>> <=> Len(sh.writing) = 0)
  BY <1>1, NoText
<1>5. QED
  BY <1>2, <1>3, <1>4

LEMMA UnreadNil ==
  ASSUME TypeOK, Stream = <<>>
  PROVE  Unread = <<>> /\ Len(Unread) = 0
<1>1. <<>> \o <<>> = <<>>
  OBVIOUS
<1>2. QED
  BY <1>1, NoStream DEF Unread

LEMMA NilStream ==
  ASSUME handle'.pending = <<>>, out' = <<>>, sh'.writing = <<>>
  PROVE  Stream' = <<>> /\ Unread' = <<>>
<1>1. (<<>> \o <<>>) \o <<>> = <<>> /\ <<>> \o <<>> = <<>>
  OBVIOUS
<1>2. QED
  BY <1>1 DEF Stream, Unread

\* A shell that ended by itself did so while a command ran.
LEMMA NotGone ==
  ASSUME TypeOK, Handles, Ended, ~sh.noisy, handle.open, ~handle.dead, call.op # "close", ~Probing
  PROVE  Alive
<1>1. sh.state # "gone" /\ sh.state # "none"
  BY DEF Ended, Handles
<1>2. QED
  BY <1>1 DEF TypeOK, ShType, Alive

LEMMA ShowingTypes ==
  ASSUME TypeOK
  PROVE  /\ Shown(term) \in Seq(Output) /\ Shown(term) \in Text /\ wrote \in Text /\ Unread \in Text
         /\ Len(Unread) \in Nat
<1>1. Shown(term) \in Seq(Output) /\ wrote \in Seq(Output)
  BY ShownText DEF TypeOK
<1>2. QED
  BY <1>1, OutputText, Pieces, Length

\* Between calls, everything has been shown.
LEMMA IdleShowing ==
  ASSUME ~Dumping', ~Probing', ~sh'.noisy => Stream' = <<>> /\ Shown(term') = wrote'
  PROVE  Showing'
BY DEF Showing, Shown

\* During a call that waits for a status,
LEMMA ProbingShowing ==
  ASSUME ~Dumping', Probing',
         ~sh'.noisy => /\ (sh'.state = "gone" => Stream' = <<>>)
                       /\ (call'.op = "run" /\ ~HasRun' => Stream' = <<>>)
                       /\ ShowingOutput' \/ (\E k \in 0 .. Len(Stream) : ShowingStatus(k))'
  PROVE  Showing'
BY DEF Showing

\* and during a dump.
LEMMA DumpingShowing ==
  ASSUME Dumping', ~Probing', ~sh'.noisy => ShowingDump' /\ sh'.state # "gone"
  PROVE  Showing'
BY DEF Showing

LEMMA QuietZero ==
  ASSUME NEW s, s = <<>>
  PROVE  Quiet(s, Len(s))
BY DEF Quiet

LEMMA OpenShowing ==
  ASSUME TypeOK, Handles, Streams, Showing, TypeOK', Open
  PROVE  Showing'
<1>1. /\ at = "config" /\ at' = "write" /\ call'.op = "open" /\ handle'.pending = <<>> /\ out' = <<>>
      /\ sh'.writing = <<"text">> /\ sh'.hidden = 0 /\ sh'.noisy = sh.noisy /\ sh'.state = "runs"
      /\ term' = term /\ wrote' = wrote
  BY DEF Open, NoHandle, NoShell, Idle
<1>2. ~Dumping /\ ~Probing /\ Probing' /\ ~Dumping'
  BY <1>1 DEF Dumping, Probing
<1>3. Unread' = <<>> \o <<>>
  BY <1>1 DEF Unread
<1>4. Unread' = <<>>
  BY <1>3
<1>5. Stream' = <<>> \o <<"text">>
  BY <1>1, <1>4 DEF Stream
<1>6. Stream' = <<"text">>
  BY <1>5
<1>7. Quiet(Stream, Len(Stream))'
  <2>1. "text" \in Calm
    BY DEF Calm, Output, Words, Digit
  <2>2. Quiet(<<"text">>, 1) /\ Len(<<"text">>) = 1
    BY <2>1 DEF Quiet
  <2>3. QED
    BY <2>2, <1>6 DEF Quiet
<1>8. ASSUME ~sh'.noisy PROVE Shown(term') \o Unread' = wrote'
  <2>1. Shown(term) = wrote
    BY <1>1, <1>2, <1>8 DEF Showing
  <2>2. Shown(term) \o <<>> = Shown(term)
    BY ShowingTypes, CatNil
  <2>3. Shown(term') = Shown(term)
    BY <1>1
  <2>4. QED
    BY <1>1, <1>4, <2>1, <2>2, <2>3
<1>9. ~sh'.noisy => ShowingOutput'
  BY <1>1, <1>7, <1>8 DEF ShowingOutput, Shown
<1>10. QED
  BY <1>1, <1>2, <1>9, ProbingShowing

\* A call starts with nothing in the stream.
LEMMA SendShowing ==
  ASSUME TypeOK, Handles, Showing, at = "config", ~sh'.noisy, UNCHANGED <<handle, sh, out, term, wrote>>
  PROVE  /\ ~sh.noisy /\ Stream = <<>> /\ Stream' = <<>> /\ Unread' = <<>>
         /\ Shown(term') = wrote' /\ ShowingOutput'
<1>1. ~sh.noisy /\ ~Dumping /\ ~Probing
  BY DEF Dumping, Probing
<1>2. Stream = <<>> /\ Shown(term) = wrote
  BY <1>1 DEF Showing
<1>3. Stream' = <<>> /\ Unread' = <<>> /\ sh'.writing = <<>>
  BY <1>2, NoStream, UnreadNil DEF Stream, Unread
<1>4. Shown(term') = wrote'
  <2>1. Shown(term') = Shown(term)
    OBVIOUS
  <2>2. QED
    BY <1>2, <2>1
<1>5. Shown(term) \o <<>> = Shown(term)
  BY ShowingTypes, CatNil
<1>6. (Shown(term) \o Unread = wrote)'
  BY <1>3, <1>2, <1>5
<1>7. ShowingOutput'
  BY <1>3, <1>6, QuietZero DEF ShowingOutput, Quiet
<1>8. QED
  BY <1>1, <1>2, <1>3, <1>4, <1>7

LEMMA RunShowing ==
  ASSUME TypeOK, Handles, Showing, NEW kind, Run(kind)
  PROVE  Showing'
<1>1. at = "config" /\ UNCHANGED <<handle, sh, out, term, wrote>> /\ call'.op = "run" /\ at' \in {"return", "write"}
  BY DEF Run, Send, Idle
<1>2. ~Dumping'
  BY <1>1 DEF Dumping
<1>3. CASE at' = "write"
  <2>1. Probing'
    BY <1>1, <1>3 DEF Probing
  <2>2. QED
    BY <1>1, <1>2, <2>1, SendShowing, ProbingShowing
<1>4. CASE at' = "return"
  <2>1. ~Probing'
    BY <1>4 DEF Probing
  <2>2. QED
    BY <1>1, <1>2, <2>1, SendShowing, IdleShowing
<1>5. QED
  BY <1>1, <1>3, <1>4

LEMMA DumpEnvShowing ==
  ASSUME TypeOK, Handles, Lines, Streams, Ended, Showing, DumpEnv
  PROVE  Showing'
<1>1. /\ at = "config" /\ handle.open /\ UNCHANGED <<handle, sh, out, term, wrote, stdin>> /\ call'.op = "dump"
      /\ Send("dump", <<Line("begin"), Line("set"), Line("end")>>)
  BY DEF DumpEnv, Send, Idle
<1>2. ~Probing' /\ ~Probing /\ call.op # "close"
  BY <1>1 DEF Probing, Handles
<1>3. CASE handle.dead
  <2>1. at' = "return"
    BY <1>1, <1>3 DEF Send
  <2>2. ~Dumping'
    BY <2>1 DEF Dumping
  <2>3. QED
    BY <1>1, <1>2, <2>2, SendShowing, IdleShowing
<1>4. CASE ~handle.dead
  <2>1. at' = "write" /\ Dumping' /\ call'.inBlock = FALSE /\ handle'.dead = handle.dead
    BY <1>1, <1>4 DEF Send, Dumping, Idle
  <2>2. ASSUME ~sh'.noisy PROVE ShowingDump' /\ sh'.state # "gone"
    <3>1. Stream' = <<>> /\ Shown(term') = wrote'
      BY <1>1, <2>2, SendShowing
    <3>2. Alive
      BY <1>1, <1>2, <1>4, <2>2, NotGone
    <3>3. Len(Sent') = 3
      <4>1. <<Line("begin"), Line("set"), Line("end")>> \in Seq(Input)
        BY LineInput
      <4>2. Sent' = <<Line("begin"), Line("set"), Line("end")>>
        BY <1>1, <3>2, <4>1, SendLines
      <4>3. QED
        BY <4>2
    <3>4. sh'.writing = <<>> /\ sh'.hidden \in Nat
      BY <1>1, <2>2, SendShowing, NoStream DEF TypeOK, ShType
    <3>5. DumpAfter(0)'
      <4>1. PICK k \in 0 .. Len(Stream') : DumpAfter(k)'
        BY <1>4, <2>1, DumpEnvStreams DEF Streams
      <4>2. k = 0
        BY <3>1, <4>1
      <4>3. QED
        BY <4>1, <4>2
    <3>6. Shown(term)' = wrote'
      BY <3>1 DEF Shown
    <3>7. (sh.hidden >= Len(sh.writing))'
      BY <3>4
    <3>8. (Len(Sent) < 3 => ~sh.echo)'
      BY <3>3
    <3>9. sh'.state # "gone"
      BY <1>1, <3>2 DEF Alive
    <3>10. QED
      BY <3>5, <3>6, <3>7, <3>8, <3>9 DEF ShowingDump
  <2>3. QED
    BY <1>2, <2>1, <2>2, DumpingShowing
<1>5. QED
  BY <1>3, <1>4

\* Nothing of what is shown or in the stream changes, nor does the call.
LEMMA SameShowing ==
  ASSUME TypeOK, Showing, Stream' = Stream, Unread' = Unread, SameShell, SameCall, Sent' = Sent,
         Probing' = Probing, Dumping' = Dumping, at = "status" => at' = "status",
         sh'.writing = sh.writing, sh'.hidden = sh.hidden,
         UNCHANGED <<term, wrote, ran, asked>>
  PROVE  Showing'
<1>1. Stream \in Text /\ Len(Stream) \in Nat /\ Past(Stream, 0) = Stream /\ 0 \in 0 .. Len(Stream)
  BY Pieces, Length, CutNone
<1>2. SUFFICES ASSUME ~sh'.noisy PROVE Showing'
  BY DEF Showing
<1>3. ~sh.noisy /\ sh'.state = sh.state /\ sh'.last = sh.last /\ sh'.echo = sh.echo /\ call'.op = call.op
      /\ call'.inBlock = call.inBlock
  BY <1>2 DEF SameShell, SameCall
<1>4. HasRun' = HasRun /\ Shown(term') = Shown(term)
  BY DEF HasRun
<1>5. ShowingOutput => ShowingOutput'
  BY <1>4 DEF ShowingOutput, Quiet, Shown
<1>6. ASSUME NEW k \in 0 .. Len(Stream), ShowingStatus(k) PROVE ShowingStatus(k)'
  <2>1. StatusAfter(k)'
    <3>1. StatusAfter(k) /\ at' = "status" /\ k - 0 = k /\ k \in 0 .. Len(Stream)
      BY <1>1, <1>6 DEF ShowingStatus, StatusAfter
    <3>2. StatusAfter(k - 0)'
      BY <1>1, <1>3, <3>1, StatusAfterPast
    <3>3. QED
      BY <3>1, <3>2
  <2>2. QED
    BY <1>3, <1>4, <1>6, <2>1 DEF ShowingStatus, Status, Upto, Least, Shown
<1>7. ShowingDump => ShowingDump'
  <2>1. DumpAfter(0) => DumpAfter(0)'
    <3>1. ASSUME DumpAfter(0) PROVE DumpAfter(0 - 0)'
      BY <1>1, <3>1, DumpAfterPast DEF SameCall
    <3>2. 0 - 0 = 0
      OBVIOUS
    <3>3. QED
      BY <3>1, <3>2
  <2>2. QED
    BY <1>3, <1>4, <2>1 DEF ShowingDump, Shown
<1>8. Probing => ShowingOutput' \/ (\E k \in 0 .. Len(Stream) : ShowingStatus(k))'
  <2>1. Probing => ShowingOutput \/ \E k \in 0 .. Len(Stream) : ShowingStatus(k)
    BY <1>3 DEF Showing
  <2>2. QED
    BY <1>5, <1>6, <2>1
<1>9. ~Dumping /\ ~Probing => (Stream = <<>> /\ Shown(term) = wrote)'
  BY <1>3, <1>4 DEF Showing, Shown
<1>10. (sh.state = "gone" => Stream = <<>>)' /\ (Probing /\ call.op = "run" /\ ~HasRun => Stream = <<>>)'
  BY <1>3, <1>4 DEF Showing
<1>11. Dumping => ShowingDump'
  BY <1>3, <1>7 DEF Showing
<1>12. QED
  BY <1>8, <1>9, <1>10, <1>11 DEF Showing

LEMMA WriteShowing ==
  ASSUME TypeOK, Handles, Ended, Showing, Write
  PROVE  Showing'
<1>1. CASE Alive \/ daemon
  <2>1. /\ Sent' = Sent /\ call'.op = call.op /\ Probing' = Probing /\ Dumping' = Dumping
        /\ UNCHANGED <<handle, sh, out, daemon, term, history>>
    BY <1>1, WriteSent
  <2>2. at = "write" /\ call' = [call EXCEPT !.left = Tail(call.left)]
    BY <1>1 DEF Write
  <2>3. SameCall
    BY <2>2 DEF SameCall, TypeOK, CallType
  <2>4. SameShell /\ Stream' = Stream /\ Unread' = Unread /\ UNCHANGED <<ran, asked, wrote>>
    BY <2>1 DEF SameShell, Stream, Unread, history
  <2>5. QED
    BY <2>1, <2>2, <2>3, <2>4, SameShowing
<1>2. CASE ~(Alive \/ daemon)
  <2>1. at = "write" /\ at' = "return" /\ UNCHANGED <<sh, out, term, wrote>>
        /\ handle' = [handle EXCEPT !.dead = TRUE]
    BY <1>2 DEF Write, history
  <2>2. handle'.pending = handle.pending
    BY <2>1 DEF TypeOK, HandleType
  <2>3. Stream' = Stream /\ ~Dumping' /\ ~Probing'
    BY <2>1, <2>2 DEF Stream, Unread, Dumping, Probing
  <2>4. ASSUME ~sh'.noisy PROVE Stream' = <<>> /\ Shown(term') = wrote'
    <3>1. ~sh.noisy /\ handle.open /\ ~handle.dead /\ call.op # "close" /\ (Probing \/ Dumping)
      BY <2>1, <2>4 DEF Handles, Probing, Dumping
    <3>2. Probing
      BY <1>2, <3>1, NotGone
    <3>3. sh.state = "gone"
      BY <1>2, <3>1 DEF Alive, TypeOK, ShType, Handles
    <3>4. Stream = <<>>
      BY <3>1, <3>3 DEF Showing
    <3>5. ShowingOutput
      BY <2>1, <3>1, <3>2 DEF Showing, ShowingStatus, StatusAfter
    <3>6. Unread = <<>> /\ Shown(term) \o <<>> = Shown(term)
      BY <3>4, UnreadNil, ShowingTypes, CatNil
    <3>7. Shown(term) = wrote
      BY <3>5, <3>6 DEF ShowingOutput
    <3>8. Shown(term') = Shown(term) /\ wrote' = wrote
      BY <2>1
    <3>9. QED
      BY <2>3, <3>4, <3>7, <3>8
  <2>5. QED
    BY <2>3, <2>4, IdleShowing
<1>3. QED
  BY <1>1, <1>2

LEMMA DaemonEndsShowing ==
  ASSUME TypeOK, Showing, DaemonEnds
  PROVE  Showing'
<1>1. UNCHANGED <<at, call, handle, asked, ran, stdin, sh, out, term, wrote>>
  BY DEF DaemonEnds, ShellOnly
<1>2. /\ SameShell /\ SameCall /\ Sent' = Sent /\ Probing' = Probing /\ Dumping' = Dumping
      /\ Stream' = Stream /\ Unread' = Unread
  BY <1>1 DEF SameShell, SameCall, Sent, Probing, Dumping, Stream, Unread
<1>3. QED
  BY <1>1, <1>2, SameShowing

LEMMA KilledShowing ==
  ASSUME TypeOK, Killed
  PROVE  Showing'
<1>1. sh'.noisy
  BY DEF Killed, Dies, TypeOK, ShType
<1>2. QED
  BY <1>1 DEF Showing

\* venv is between calls, or at the end of one.
LEMMA StillShowing ==
  ASSUME Showing, ~Dumping, ~Probing, ~Dumping', ~Probing', Stream' = Stream, sh'.noisy = sh.noisy,
         UNCHANGED <<term, wrote>>
  PROVE  Showing'
<1>1. Shown(term') = Shown(term)
  OBVIOUS
<1>2. QED
  BY <1>1, IdleShowing DEF Showing

LEMMA CloseShowing ==
  ASSUME TypeOK, Showing, Close
  PROVE  Showing'
<1>1. at = "config" /\ at' = "drain" /\ UNCHANGED <<out, sh, term, wrote>>
      /\ handle' = [handle EXCEPT !.in = FALSE]
  BY DEF Close, history
<1>2. handle'.pending = handle.pending
  BY <1>1 DEF TypeOK, HandleType
<1>3. Stream' = Stream /\ ~Dumping /\ ~Probing /\ ~Dumping' /\ ~Probing'
  BY <1>1, <1>2 DEF Stream, Unread, Dumping, Probing
<1>4. QED
  BY <1>1, <1>3, StillShowing

LEMMA ReturnShowing ==
  ASSUME TypeOK, Showing, Return
  PROVE  Showing'
<1>1. at = "return" /\ at' \in {"drain", "config"} /\ UNCHANGED <<out, sh, term, wrote>>
      /\ (handle' = [handle EXCEPT !.in = FALSE] \/ handle' = handle)
  BY DEF Return
<1>2. handle'.pending = handle.pending
  BY <1>1 DEF TypeOK, HandleType
<1>3. Stream' = Stream /\ ~Dumping /\ ~Probing /\ ~Dumping' /\ ~Probing'
  BY <1>1, <1>2 DEF Stream, Unread, Dumping, Probing
<1>4. QED
  BY <1>1, <1>3, StillShowing

LEMMA EndOfInputShowing ==
  ASSUME TypeOK, Handles, Showing, EndOfInput
  PROVE  Showing'
<1>1. Alive /\ sh.writing = <<>> /\ ~handle.in /\ UNCHANGED <<at, call, handle, out, term, wrote>>
      /\ sh' = Dies(sh.last)
  BY DEF EndOfInput, ShellOnly
<1>2. call.op = "close"
  BY <1>1 DEF Handles
<1>3. ~Dumping /\ ~Probing /\ ~Dumping' /\ ~Probing'
  BY <1>1, <1>2 DEF Dumping, Probing
<1>4. sh'.writing = <<>> /\ sh'.noisy = sh.noisy
  BY <1>1 DEF Dies, TypeOK, ShType
<1>5. Stream' = Stream
  BY <1>1, <1>4 DEF Stream, Unread
<1>6. QED
  BY <1>1, <1>3, <1>4, <1>5, StillShowing

\* What is drained of a shell that was not killed is nothing.
LEMMA DrainShowing ==
  ASSUME TypeOK, Handles, Showing, Drain
  PROVE  Showing'
<1>1. at = "drain" /\ at' \in {"drain", "return"} /\ sh' = sh /\ wrote' = wrote
  BY DEF Drain, history
<1>2. ~Dumping /\ ~Probing /\ ~Dumping' /\ ~Probing'
  BY <1>1 DEF Dumping, Probing
<1>3. ASSUME ~sh'.noisy PROVE Stream' = <<>> /\ Shown(term') = wrote'
  <2>1. Stream = <<>> /\ Shown(term) = wrote
    BY <1>1, <1>2, <1>3 DEF Showing
  <2>2. handle.pending = <<>> /\ out = <<>> /\ sh.writing = <<>>
    BY <2>1, NoStream
  <2>3. /\ term' = EndLine(term \o handle.pending) /\ handle' = NoHandle /\ out' = out
    BY <2>2 DEF Drain, Fill
  <2>4. term \in Text /\ term \o <<>> = term
    BY CatNil DEF TypeOK
  <2>5. Shown(EndLine(term)) = Shown(term)
    BY <2>4, ShownEndLine
  <2>6. handle'.pending = <<>> /\ out' = <<>> /\ sh'.writing = <<>>
    BY <1>1, <2>2, <2>3 DEF NoHandle
  <2>7. term' = EndLine(term)
    BY <2>2, <2>3, <2>4
  <2>8. Shown(term') = wrote'
    BY <1>1, <2>1, <2>5, <2>7
  <2>9. QED
    BY <2>6, <2>8, NilStream
<1>4. QED
  BY <1>2, <1>3, IdleShowing

LEMMA SwallowShowing ==
  ASSUME TypeOK, Handles, Lines, Streams, Showing, Swallow
  PROVE  Showing'
<1>1. sh.state = "swallows" /\ Alive /\ UNCHANGED <<at, call, handle, out, term, wrote, ran, asked>>
      /\ sh' = [sh EXCEPT !.state = "runs", !.ate = TRUE]
  BY DEF Swallow, ShellOnly, Alive
<1>2. Probing /\ ~Dumping /\ Sent = <<Line("probe")>>
  BY <1>1 DEF Lines, Probing, Dumping
<1>3. /\ sh'.writing = sh.writing /\ sh'.noisy = sh.noisy /\ sh'.hidden = sh.hidden /\ sh'.state = "runs"
  BY <1>1 DEF TypeOK, ShType
<1>4. Probing' /\ ~Dumping' /\ HasRun' = HasRun /\ Stream' = Stream /\ Unread' = Unread
      /\ call'.op = call.op
  BY <1>1, <1>2, <1>3 DEF Probing, Dumping, HasRun, Stream, Unread
<1>5. ASSUME ~sh'.noisy PROVE (call'.op = "run" /\ ~HasRun' => Stream' = <<>>) /\ ShowingOutput'
  <2>1. ~sh.noisy
    BY <1>3, <1>5
  <2>2. ShowingOutput
    BY <1>1, <1>2, <2>1 DEF Showing, ShowingStatus, StatusAfter
  <2>3. Shown(term') = Shown(term)
    BY <1>1
  <2>4. ShowingOutput'
    BY <1>1, <1>3, <1>4, <2>2, <2>3 DEF ShowingOutput, Quiet, Shown
  <2>5. QED
    BY <1>2, <1>4, <2>1, <2>4 DEF Showing
<1>6. QED
  BY <1>3, <1>4, <1>5, ProbingShowing

\* A piece and the start of the rest.
LEMMA UptoSplit ==
  ASSUME NEW s \in Text, NEW d \in 0 .. Len(s), NEW m \in 0 .. Len(s), d <= m
  PROVE  Upto(s, d) \o Upto(Past(s, d), m - d) = Upto(s, m)
<1>1. Len(s) \in Nat /\ d \in Nat /\ m \in Nat
  BY Length
<1>2. PICK a \in Text : a = Upto(s, d) /\ Len(a) = d
  BY UptoText, UptoLength
<1>3. PICK r \in Text : r = Past(s, d) /\ Len(r) = Len(s) - d
  BY PastText, PastLength
<1>4. PICK n \in Nat : n = m - d
  BY <1>1
<1>5. n \in 0 .. Len(r) /\ n \in 0 .. Len(s) - d
  BY <1>1, <1>3, <1>4
<1>6. PICK b \in Text : b = Upto(r, n) /\ Len(b) = n
  BY <1>5, UptoText, UptoLength
<1>7. PICK y \in Text : y = a \o b
  BY CatText
<1>8. Len(y) = d + n
  <2>1. Len(y) = Len(a) + Len(b)
    BY <1>7, CatLength
  <2>2. QED
    BY <1>2, <1>6, <2>1
<1>9. PICK u \in Text : u = Upto(s, m) /\ Len(u) = m
  BY UptoText, UptoLength
<1>10. ASSUME NEW i \in 1 .. Len(y) PROVE y[i] = u[i]
  <2>1. i \in 1 .. m /\ i \in 1 .. d + n
    BY <1>1, <1>4, <1>8
  <2>2. u[i] = s[i]
    BY <1>9, <2>1, UptoAt
  <2>3. CASE i <= d
    <3>1. i \in 1 .. Len(a) /\ i \in 1 .. d
      BY <1>1, <1>2, <2>1, <2>3
    <3>2. y[i] = a[i] /\ a[i] = s[i]
      BY <1>2, <1>7, <3>1, CatFirst, UptoAt
    <3>3. QED
      BY <2>2, <3>2
  <2>4. CASE i > d
    <3>1. PICK j \in 1 .. n : i = d + j
      <4>1. i - d \in 1 .. n /\ i = d + (i - d)
        BY <1>1, <2>1, <2>4
      <4>2. QED
        BY <4>1
    <3>2. j \in 1 .. Len(b) /\ j \in 1 .. Len(s) - d
      BY <1>1, <1>5, <1>6
    <3>3. y[Len(a) + j] = b[j]
      BY <1>7, <3>2, CatSecond
    <3>4. b[j] = r[j]
      BY <1>5, <1>6, UptoAt
    <3>5. r[j] = s[d + j]
      BY <1>3, <3>2, PastAt
    <3>6. QED
      BY <1>2, <2>2, <3>1, <3>3, <3>4, <3>5
  <2>5. i <= d \/ i > d
    BY <1>1, <2>1
  <2>6. QED
    BY <2>3, <2>4, <2>5
<1>11. Len(y) = Len(u)
  BY <1>1, <1>4, <1>8, <1>9
<1>12. y = u
  BY <1>10, <1>11, SameText
<1>13. QED
  BY <1>2, <1>3, <1>4, <1>6, <1>7, <1>9, <1>12

\* A status that is found comes after everything that the command printed.
LEMMA FoundShown ==
  ASSUME TypeOK, Handles, Showing, Probing, ~sh.noisy, NEW k \in 0 .. Len(Stream), Found(k)
  PROVE  Shown(term') = wrote
<1>1. StatusAfter(k) /\ Len(handle.pending) = k + Len(Status(sh.last))
      /\ term' = EndLine(term \o Upto(handle.pending, k))
  BY DEF Found
<1>2. handle.pending \in Text /\ Len(handle.pending) \in Nat /\ Len(Status(sh.last)) \in Nat
  BY Pieces, StatusLen
<1>3. Begins(handle.pending, k, sh.last)
  BY <1>1, PendingBegins
<1>4. FindStatus(handle.pending) # 0
  BY <1>1, <1>2, <1>3, StatusComplete
<1>5. ~ShowingOutput
  BY <1>4, PendingQuiet DEF ShowingOutput
<1>6. PICK m \in 0 .. Len(Stream) : ShowingStatus(m)
  BY <1>5 DEF Showing
<1>7. Begins(handle.pending, m, sh.last)
  BY <1>6, PendingBegins DEF ShowingStatus
<1>8. m = k
  <2>1. FindStatus(handle.pending) = k + 1
    BY <1>2, <1>3, <1>4, StatusFound
  <2>2. FindStatus(handle.pending) = m + 1
    BY <1>2, <1>4, <1>7, StatusFound
  <2>3. k \in Nat /\ m \in Nat
    BY <1>3, <1>7 DEF Begins
  <2>4. QED
    BY <2>1, <2>2, <2>3
<1>9. Unread = handle.pending
  <2>1. out = <<>>
    BY <1>1, StatusIsLast
  <2>2. QED
    BY <1>2, <2>1, CatNil DEF Unread
<1>10. k \in Nat /\ k <= Len(handle.pending)
  BY <1>1, <1>2, <1>3 DEF Begins
<1>11. Least(k, Len(handle.pending)) = k
  BY <1>2, <1>10 DEF Least
<1>12. Shown(term) \o Upto(handle.pending, k) = wrote
  BY <1>6, <1>8, <1>9, <1>11 DEF ShowingStatus
<1>13. k \in 0 .. Len(handle.pending)
  BY <1>2, <1>10
<1>14. QED
  BY <1>1, <1>12, <1>13, TermCat

\* Lines that are forwarded go from the stream to what is shown.
LEMMA ForwardShown ==
  ASSUME TypeOK, NEW d \in 0 .. Len(handle.pending), NEW m \in 0 .. Len(Unread), d <= m,
         term' = term \o Upto(handle.pending, d), Unread' = Past(Unread, d)
  PROVE  Shown(term') \o Upto(Unread', m - d) = Shown(term) \o Upto(Unread, m)
<1>1. Unread \in Text /\ handle.pending \in Text /\ out \in Text /\ Len(Unread) \in Nat
      /\ d \in 0 .. Len(Unread) /\ Shown(term) \in Text
  BY Pieces, ShowingTypes
<1>2. Shown(term') = Shown(term) \o Upto(handle.pending, d)
  BY TermCat
<1>3. Upto(Unread, d) = Upto(handle.pending, d)
  BY <1>1, UptoCat DEF Unread
<1>4. PICK a \in Text : a = Upto(Unread, d)
  BY <1>1, UptoText
<1>5. PICK r \in Text : r = Past(Unread, d) /\ Len(r) = Len(Unread) - d
  BY <1>1, PastText, PastLength
<1>6. m - d \in 0 .. Len(r)
  BY <1>1, <1>5
<1>7. PICK b \in Text : b = Upto(r, m - d)
  BY <1>6, UptoText
<1>8. a \o b = Upto(Unread, m)
  BY <1>1, <1>4, <1>5, <1>7, UptoSplit
<1>9. PICK t \in Text : t = Shown(term)
  BY <1>1
<1>10. (t \o a) \o b = t \o (a \o b)
  BY Assoc
<1>11. QED
  BY <1>2, <1>3, <1>4, <1>5, <1>7, <1>8, <1>9, <1>10

LEMMA WaitNotFoundShowing ==
  ASSUME TypeOK, Handles, Streams, Showing, at = "status", Probing, ~Dumping, NotFound
  PROVE  Showing'
<1>1. PICK d \in 0 .. Len(handle.pending) : d = LastNewline(handle.pending)
  BY Pieces, LastNewlineIn
<1>2. Fill(d) /\ term' = term \o Upto(handle.pending, d) /\ FindStatus(handle.pending) = 0
      /\ UNCHANGED <<at, call, sh, stdin, wrote, ran, asked>>
  BY <1>1 DEF NotFound, history
<1>3. Unread' = Past(Unread, d) /\ Stream' = Past(Stream, d)
      /\ d \in 0 .. Len(Unread) /\ d \in 0 .. Len(Stream)
  BY <1>2, FillStream
<1>4. Unread \in Text /\ Stream \in Text /\ Len(Unread) \in Nat /\ Len(Stream) \in Nat
  BY Pieces, Length
<1>5. Probing' /\ ~Dumping' /\ Sent' = Sent /\ SameShell /\ HasRun' = HasRun
  BY <1>2 DEF Probing, Dumping, Sent, SameShell, HasRun
<1>6. ASSUME ~sh'.noisy, ShowingOutput PROVE ShowingOutput'
  <2>1. Quiet(Stream, Len(Stream))'
    BY <1>3, <1>6, QuietPiece DEF ShowingOutput
  <2>2. PICK l \in Nat : l = Len(Unread)
    BY <1>4
  <2>3. Shown(term') \o Upto(Unread', l - d) = Shown(term) \o Upto(Unread, l)
    <3>1. l \in 0 .. Len(Unread) /\ d <= l
      BY <1>3, <1>4, <2>2
    <3>2. QED
      BY <1>2, <1>3, <3>1, ForwardShown
  <2>4. Upto(Unread, l) = Unread
    BY <1>4, <2>2, CutAll
  <2>5. Upto(Unread', l - d) = Unread'
    <3>1. PICK r \in Text : r = Past(Unread, d) /\ Len(r) = Len(Unread) - d
      BY <1>3, <1>4, PastText, PastLength
    <3>2. Upto(r, Len(r)) = r
      BY CutAll
    <3>3. QED
      BY <1>3, <2>2, <3>1, <3>2
  <2>6. Shown(term') \o Unread' = wrote'
    BY <1>2, <1>6, <2>3, <2>4, <2>5 DEF ShowingOutput
  <2>7. (sh.writing # <<>> => sh.hidden = 0)'
    BY <1>2, <1>6 DEF ShowingOutput
  <2>8. QED
    BY <2>1, <2>6, <2>7 DEF ShowingOutput, Shown
<1>7. ASSUME ~sh'.noisy, NEW k \in 0 .. Len(Stream), ShowingStatus(k)
      PROVE  (\E j \in 0 .. Len(Stream) : ShowingStatus(j))'
  <2>1. StatusAfter(k)
    BY <1>7 DEF ShowingStatus
  <2>2. d <= k /\ k \in Nat /\ d \in Nat
    BY <1>1, <1>2, <1>3, <1>4, <2>1, LinesBeforeStatus
  <2>3. PICK j \in Nat : j = k - d
    BY <2>2
  <2>4. StatusAfter(j)'
    <3>1. k \in d .. Len(Stream)
      BY <1>4, <2>2
    <3>2. StatusAfter(k - d)'
      BY <1>2, <1>3, <1>5, <2>1, <3>1, StatusAfterPast
    <3>3. QED
      BY <2>3, <3>2
  <2>5. Len(Stream') = Len(Stream) - d /\ Len(Unread') = Len(Unread) - d
    BY <1>3, <1>4, PastLength
  <2>6. j \in 0 .. Len(Stream')
    BY <1>4, <2>2, <2>3, <2>5
  <2>7. PICK m \in 0 .. Len(Unread) : m = Least(k, Len(Unread)) /\ d <= m
    BY <1>3, <1>4, <2>2 DEF Least
  <2>8. Least(j, Len(Unread')) = m - d
    BY <1>4, <2>2, <2>3, <2>5, <2>7 DEF Least
  <2>9. Shown(term') \o Upto(Unread', m - d) = Shown(term) \o Upto(Unread, m)
    BY <1>2, <1>3, <2>7, ForwardShown
  <2>10. Shown(term') \o Upto(Unread', Least(j, Len(Unread'))) = wrote'
    BY <1>2, <1>7, <2>7, <2>8, <2>9 DEF ShowingStatus
  <2>11. (sh.hidden = Len(Status(sh.last)))'
    BY <1>2, <1>7 DEF ShowingStatus, Status
  <2>12. ShowingStatus(j)'
    BY <2>4, <2>10, <2>11 DEF ShowingStatus, Shown, Upto, Least
  <2>13. QED
    BY <2>6, <2>12
<1>8. ASSUME ~sh'.noisy PROVE ShowingOutput' \/ (\E k \in 0 .. Len(Stream) : ShowingStatus(k))'
  <2>1. ShowingOutput \/ \E k \in 0 .. Len(Stream) : ShowingStatus(k)
    BY <1>2, <1>8 DEF Showing
  <2>2. QED
    BY <1>6, <1>7, <1>8, <2>1
<1>9. ASSUME Stream = <<>> PROVE Stream' = <<>>
  <2>1. handle.pending = <<>>
    BY <1>9, NoStream
  <2>2. d = 0
    BY <1>4, <1>9, <1>3
  <2>3. QED
    BY <1>3, <1>4, <1>9, <2>2, CutNone
<1>10. ASSUME ~sh'.noisy
       PROVE  (sh'.state = "gone" => Stream' = <<>>) /\ (call'.op = "run" /\ ~HasRun' => Stream' = <<>>)
  BY <1>2, <1>5, <1>9, <1>10 DEF Showing
<1>11. QED
  BY <1>5, <1>8, <1>10, ProbingShowing

LEMMA WaitStatusShowing ==
  ASSUME TypeOK, Handles, Streams, Ended, Showing, WaitStatus
  PROVE  Showing'
<1>1. at = "status" /\ Probing /\ ~Dumping /\ ~handle.dead /\ handle.open /\ sh.state # "none"
  <2>1. at = "status"
    BY WaitCases
  <2>2. Probing /\ ~Dumping /\ ~handle.dead
    BY <2>1 DEF Handles, Dumping
  <2>3. handle.open /\ sh.state # "none"
    BY <2>2 DEF Handles, Probing
  <2>4. QED
    BY <2>1, <2>2, <2>3
<1>2. ASSUME NEW k \in 0 .. Len(Stream), Found(k) PROVE Showing'
  <2>1. Stream' = <<>> /\ ~Dumping' /\ ~Probing'
    BY <1>2, FoundStream
  <2>2. sh' = sh /\ wrote' = wrote
    BY <1>2 DEF Found, history
  <2>3. ~sh'.noisy => Shown(term') = wrote'
    BY <1>1, <1>2, <2>2, FoundShown
  <2>4. QED
    BY <2>1, <2>3, IdleShowing
<1>3. CASE NotFound
  BY <1>1, <1>3, WaitNotFoundShowing
<1>4. CASE ShellGone /\ UNCHANGED <<sh, stdin, daemon, history>>
  <2>1. /\ at' = "return" /\ ~Alive /\ sh' = sh /\ wrote' = wrote /\ out = <<>> /\ out' = out
        /\ term' = EndLine(term \o handle.pending)
        /\ handle' = [handle EXCEPT !.dead = TRUE, !.pending = <<>>]
    BY <1>4 DEF ShellGone, EofOnOut, history
  <2>2. handle'.pending = <<>> /\ ~Dumping' /\ ~Probing' /\ sh'.writing = <<>>
    BY <2>1 DEF TypeOK, HandleType, Dumping, Probing, Handles
  <2>3. ASSUME ~sh'.noisy PROVE Stream' = <<>> /\ Shown(term') = wrote'
    <3>1. sh.state = "gone" /\ ~sh.noisy
      BY <1>1, <2>1, <2>3 DEF Alive, TypeOK, ShType
    <3>2. Stream = <<>>
      BY <3>1 DEF Showing
    <3>3. handle.pending = <<>> /\ Unread = <<>>
      BY <3>2, NoStream, UnreadNil
    <3>4. ShowingOutput
      BY <1>1, <2>1, <3>1 DEF Showing, ShowingStatus, StatusAfter
    <3>5. Shown(term) \o <<>> = Shown(term) /\ term \o <<>> = term /\ term \in Text
      BY ShowingTypes, CatNil DEF TypeOK
    <3>6. Shown(term) = wrote
      BY <3>3, <3>4, <3>5 DEF ShowingOutput
    <3>7. Shown(EndLine(term)) = Shown(term)
      BY <3>5, ShownEndLine
    <3>8. term' = EndLine(term)
      BY <2>1, <3>3, <3>5
    <3>9. QED
      BY <2>1, <2>2, <3>6, <3>7, <3>8, NilStream
  <2>4. QED
    BY <2>2, <2>3, IdleShowing
<1>5. QED
  BY <1>2, <1>3, <1>4, WaitCases

\* Without echo, and unless the shell was killed, a dump starts with its block.
LEMMA BlockFoundFirst ==
  ASSUME TypeOK, Handles, Lines, Ended, Showing, ~sh.noisy, Dumping, ~call.inBlock, ~handle.dead,
         NEW k \in 0 .. Len(Stream), BlockFound(k)
  PROVE  k = 0 /\ ~sh.echo
<1>1. DumpAfter(0) /\ (Len(Sent) < 3 => ~sh.echo) /\ DumpAfter(k) /\ k + 3 <= Len(handle.pending)
  BY DEF Showing, ShowingDump, BlockFound
<1>2. handle.pending \in Text /\ Len(handle.pending) \in Nat /\ Len(Stream) \in Nat /\ k \in Nat
      /\ Len(handle.pending) <= Len(Stream)
  BY Pieces, Length
<1>3. Alive
  BY NotGone DEF Handles, Dumping, Probing
<1>4. Len(Sent) # 3
  <2>1. Len(Sent) = 3 => Said = 0
    BY DEF Said
  <2>2. Len(Stream) = k + Said
    BY <1>1, <1>3 DEF DumpAfter
  <2>3. Len(Sent) = 3 => Len(Stream) = k
    BY <1>2, <2>1, <2>2
  <2>4. QED
    BY <1>1, <1>2, <2>3
<1>5. Len(Sent) < 3
  <2>1. Sent \in {<<Line("begin"), Line("set"), Line("end")>>, <<Line("set"), Line("end")>>, <<Line("end")>>, <<>>}
    BY <1>3 DEF Lines
  <2>2. PICK n \in {0, 1, 2, 3} : n = Len(Sent)
    BY <2>1
  <2>3. n < 3
    BY <1>4, <2>2
  <2>4. QED
    BY <2>2, <2>3
<1>6. ~sh.echo
  BY <1>1, <1>5
<1>7. k < 1
  <2>1. Stream[1] = Block[1]
    <3>1. Spells(Stream, 0, Block) /\ 1 \in 0 + 1 .. Len(Stream) /\ 1 - 0 = 1
      BY <1>1, <1>2 DEF DumpAfter
    <3>2. QED
      BY <3>1 DEF Spells
  <2>2. Block[1] = "BEGIN"
    BY <1>6, BlockMarks
  <2>3. "BEGIN" \notin Calm
    BY DEF Calm
  <2>4. ~(1 \in 1 .. k)
    BY <1>1, <2>1, <2>2, <2>3 DEF DumpAfter, Quiet
  <2>5. QED
    BY <1>2, <2>4
<1>8. QED
  BY <1>2, <1>6, <1>7

LEMMA FindBlockShowing ==
  ASSUME TypeOK, Handles, Lines, Streams, Ended, Showing, FindBlock
  PROVE  Showing'
<1>1. /\ Dumping /\ ~handle.dead /\ at' = at /\ ~call.inBlock
      /\ UNCHANGED <<sh, stdin, daemon, wrote, ran, asked>>
  BY FindBlockCases DEF history, FindBlock
<1>2. ASSUME NEW k \in 0 .. Len(Stream), BlockFound(k) PROVE Showing'
  <2>1. call'.inBlock /\ call'.op = call.op /\ Sent' = Sent
    BY <1>1, <1>2, BlockFoundStream
  <2>2. Dumping' /\ ~Probing'
    BY <1>1, <2>1 DEF Dumping, Probing
  <2>3. ASSUME ~sh'.noisy PROVE ShowingDump' /\ sh'.state # "gone"
    <3>1. ~sh.noisy
      BY <1>1, <2>3
    <3>2. k = 0 /\ ~sh.echo
      BY <1>1, <1>2, <3>1, BlockFoundFirst
    <3>3. term' = term \o Upto(handle.pending, 0)
      BY <1>2, <3>2 DEF BlockFound
    <3>4. Upto(handle.pending, 0) = <<>> /\ term \o <<>> = term
      BY Pieces, CutNone, CatNil DEF TypeOK
    <3>5. Shown(term) = wrote /\ sh.hidden >= Len(sh.writing)
      BY <1>1, <3>1 DEF Showing, ShowingDump
    <3>6. Shown(term') = wrote'
      BY <1>1, <3>3, <3>4, <3>5
    <3>7. (sh.hidden >= Len(sh.writing))' /\ ~sh'.echo
      BY <1>1, <3>2, <3>5
    <3>8. Alive
      BY <1>1, <3>1, NotGone DEF Handles, Dumping, Probing
    <3>9. QED
      BY <1>1, <2>1, <3>6, <3>7, <3>8 DEF ShowingDump, Shown, Alive
  <2>4. QED
    BY <2>2, <2>3, DumpingShowing
<1>3. CASE BlockAwaited
  <2>1. Fill(0) /\ UNCHANGED <<call, term>> /\ 0 \in 0 .. Len(handle.pending)
    BY <1>3, Pieces DEF BlockAwaited
  <2>2. Stream' = Past(Stream, 0) /\ Unread' = Past(Unread, 0)
    BY <1>1, <2>1, FillStream
  <2>3. Stream' = Stream /\ Unread' = Unread
    BY <2>2, Pieces, CutNone
  <2>4. SameShell /\ SameCall /\ Sent' = Sent /\ Dumping' = Dumping /\ Probing' = Probing
    BY <1>1, <2>1 DEF SameShell, SameCall, Sent, Dumping, Probing
  <2>5. QED
    BY <1>1, <2>1, <2>3, <2>4, SameShowing
<1>4. QED
  BY <1>2, <1>3, FindBlockCases

LEMMA ReadBlockShowing ==
  ASSUME TypeOK, Handles, Lines, Streams, Ended, Showing, ReadBlock
  PROVE  Showing'
<1>1. /\ at = "dump" /\ call.inBlock /\ Dumping /\ ~handle.dead /\ InDump
      /\ UNCHANGED <<term, sh, stdin, wrote>>
  BY ReadBlockCases DEF history
<1>2. Shown(term') = Shown(term)
  BY <1>1
<1>3. ~sh.noisy => Alive
  BY <1>1, NotGone DEF Handles, Dumping, Probing
<1>4. ASSUME NEW i, NEW e, BlockEnd(i, e) PROVE Showing'
  <2>1. ~Dumping' /\ ~Probing'
    BY <1>4 DEF BlockEnd, Dumping, Probing
  <2>2. ASSUME ~sh'.noisy PROVE Stream' = <<>> /\ Shown(term') = wrote'
    <3>1. Shown(term) = wrote /\ (Len(Sent) < 3 => ~sh.echo)
      BY <1>1, <2>2 DEF Showing, ShowingDump
    <3>2. Sent = <<>>
      BY <1>1, <1>3, <1>4, <2>2, AllSaid DEF BlockEnd
    <3>3. ~sh.echo
      BY <3>1, <3>2
    <3>4. Len(Stream') = Len(Stream) - e /\ e \in 0 .. Len(Stream) /\ Stream' = Past(Stream, e)
      BY <1>1, <1>4, BlockEndStream
    <3>5. PICK g \in Nat : g = 3 + Len(call.got)
      BY <1>1, DumpStart
    <3>6. g + e = Len(Block) /\ g + Len(Stream) <= Len(Block)
      BY <1>1, <1>4, <3>3, <3>5 DEF BlockEnd, InDump
    <3>7. Len(Stream) \in Nat /\ Len(Block) \in Nat /\ Stream \in Text
      BY Pieces, Length, BlockLen
    <3>8. e = Len(Stream)
      BY <3>4, <3>6, <3>7
    <3>9. Stream' = <<>>
      BY <3>4, <3>7, <3>8, CutAll
    <3>10. QED
      BY <1>1, <1>2, <3>1, <3>9
  <2>3. QED
    BY <2>1, <2>2, IdleShowing
<1>5. ASSUME NEW d \in 0 .. Len(handle.pending), BlockLines(d) PROVE Showing'
  <2>1. Sent' = Sent /\ call'.op = call.op /\ call'.inBlock = call.inBlock /\ at' = at
    BY <1>1, <1>5, BlockLinesIn
  <2>2. Dumping' /\ ~Probing'
    BY <1>1, <2>1 DEF Dumping, Probing
  <2>3. ASSUME ~sh'.noisy PROVE ShowingDump' /\ sh'.state # "gone"
    <3>1. ShowingDump
      BY <1>1, <2>3 DEF Showing
    <3>2. ShowingDump'
      BY <1>1, <2>1, <3>1 DEF ShowingDump, Shown
    <3>3. QED
      BY <1>1, <1>3, <2>3, <3>2 DEF Alive
  <2>4. QED
    BY <2>2, <2>3, DumpingShowing
<1>6. QED
  BY <1>4, <1>5, ReadBlockCases

LEMMA DumpFailsShowing ==
  ASSUME TypeOK, Handles, Ended, Showing, DumpFails
  PROVE  Showing'
<1>1. at = "dump" /\ ~Alive /\ sh' = sh /\ at' = "return"
  BY DEF DumpFails, EofOnOut
<1>2. Dumping /\ ~Probing /\ ~handle.dead /\ handle.open /\ call.op # "close"
  BY <1>1 DEF Handles, Dumping, Probing
<1>3. sh'.noisy
  BY <1>1, <1>2, NotGone
<1>4. QED
  BY <1>3 DEF Showing

\* A token moves from what the shell still has to write into the pipe.
LEMMA WriteTokenMoves ==
  ASSUME TypeOK, WriteToken
  PROVE  /\ SameShell /\ Sent' = Sent /\ Alive /\ sh.writing # <<>> /\ sh'.hidden = sh.hidden
         /\ UNCHANGED <<at, call, term, asked, ran>>
         /\ Stream' = Stream /\ Unread' = Unread \o <<Head(sh.writing)>> /\ Stream # <<>>
         /\ <<Head(sh.writing)>> \in Text /\ Len(<<Head(sh.writing)>>) = 1
         /\ Len(sh'.writing) = Len(sh.writing) - 1
         /\ wrote' = IF Len(sh.writing) > sh.hidden THEN wrote \o <<Head(sh.writing)>> ELSE wrote
<1>1. /\ Alive /\ sh.writing # <<>> /\ UNCHANGED <<at, call, term, asked, ran, stdin>>
      /\ sh' = [sh EXCEPT !.writing = Tail(sh.writing)]
      /\ wrote' = IF Len(sh.writing) > sh.hidden THEN Append(wrote, Head(sh.writing)) ELSE wrote
  BY DEF WriteToken, ShellOnly
<1>2. SameShell /\ sh'.hidden = sh.hidden /\ sh'.writing = Tail(sh.writing)
  BY <1>1 DEF SameShell, TypeOK, ShType
<1>3. Sent' = Sent
  BY <1>1 DEF Sent
<1>4. Stream' = Stream /\ Unread' = Unread \o <<Head(sh.writing)>>
  BY StreamWrite
<1>5. Stream # <<>>
  BY <1>1, NoStream
<1>6. Head(sh.writing) \in Output \cup {"added"} /\ Len(Tail(sh.writing)) = Len(sh.writing) - 1
  BY <1>1, Pieces, HeadTail
<1>7. PICK h \in Output \cup {"added"} : h = Head(sh.writing)
  BY <1>6
<1>8. <<h>> \in Text /\ Len(<<h>>) = 1
  BY DEF Text
<1>9. Append(wrote, h) = wrote \o <<h>>
  BY ShowingTypes, AppendIsCat
<1>10. QED
  BY <1>1, <1>2, <1>3, <1>4, <1>5, <1>6, <1>7, <1>8, <1>9

\* Before the status, it is output;
LEMMA WriteTokenStatus ==
  ASSUME TypeOK, WriteToken, Probing, NEW k \in 0 .. Len(Stream), ShowingStatus(k)
  PROVE  ShowingStatus(k)'
<1>1. PICK x \in Text : x = <<Head(sh.writing)>> /\ Len(x) = 1
  BY WriteTokenMoves
<1>2. /\ SameShell /\ Sent' = Sent /\ Alive /\ sh'.hidden = sh.hidden
      /\ UNCHANGED <<at, call, term, asked, ran>>
      /\ Stream' = Stream /\ Unread' = Unread \o x
      /\ wrote' = IF Len(sh.writing) > sh.hidden THEN wrote \o x ELSE wrote
  BY <1>1, WriteTokenMoves
<1>3. Unread \in Text /\ Stream \in Text /\ Len(Unread) \in Nat /\ Len(Stream) \in Nat
      /\ Len(Stream) = Len(Unread) + Len(sh.writing) /\ Len(sh.writing) \in Nat /\ k \in Nat
  BY Pieces, Length
<1>4. StatusAfter(k)'
  <2>1. StatusAfter(k) /\ at' = "status" /\ k - 0 = k /\ k \in 0 .. Len(Stream) /\ 0 \in 0 .. Len(Stream)
    BY <1>2, <1>3 DEF ShowingStatus, StatusAfter
  <2>2. Stream' = Past(Stream, 0)
    BY <1>2, <1>3, CutNone
  <2>3. StatusAfter(k - 0)'
    BY <1>2, <2>1, <2>2, StatusAfterPast
  <2>4. QED
    BY <2>1, <2>3
<1>5. (sh.hidden = Len(Status(sh.last)))'
  BY <1>2 DEF ShowingStatus, SameShell, Status
<1>6. PICK n \in Nat : n = Len(Unread)
  BY <1>3
<1>7. Len(Unread') = n + 1
  BY <1>1, <1>2, <1>3, <1>6, CatLength
<1>8. Len(sh.writing) > sh.hidden <=> n < k
  <2>1. Len(Stream) = k + Len(Status(sh.last)) /\ sh.hidden = Len(Status(sh.last))
    BY <1>2 DEF ShowingStatus, StatusAfter
  <2>2. sh.hidden \in Nat
    BY DEF TypeOK, ShType
  <2>3. Len(Stream) = k + sh.hidden
    BY <2>1
  <2>4. QED
    BY <1>3, <1>6, <2>2, <2>3
<1>9. Shown(term) \o Upto(Unread, Least(k, n)) = wrote
  BY <1>6 DEF ShowingStatus
<1>10. PICK t \in Text : t = Shown(term)
  BY ShowingTypes
<1>11. t \o Upto(Unread', Least(k, n + 1)) = wrote'
  <2>1. CASE n < k
    <3>1. Least(k, n) = n /\ Least(k, n + 1) = n + 1
      BY <1>3, <2>1 DEF Least
    <3>2. Upto(Unread, n) = Unread
      BY <1>3, <1>6, CutAll
    <3>3. PICK u \in Text : u = Unread'
      BY <1>1, <1>2, <1>3, CatText
    <3>4. Upto(u, Len(u)) = u
      BY CutAll
    <3>5. Upto(Unread', n + 1) = Unread'
      BY <1>7, <3>3, <3>4
    <3>6. t \o Unread = wrote
      BY <1>9, <1>10, <3>1, <3>2
    <3>7. wrote' = (t \o Unread) \o x
      BY <1>2, <1>8, <2>1, <3>6
    <3>8. (t \o Unread) \o x = t \o (Unread \o x)
      BY <1>3, Assoc
    <3>9. QED
      BY <1>2, <3>1, <3>5, <3>7, <3>8
  <2>2. CASE ~(n < k)
    <3>1. Least(k, n) = k /\ Least(k, n + 1) = k /\ k \in 0 .. Len(Unread)
      BY <1>3, <1>6, <2>2 DEF Least
    <3>2. Upto(Unread \o x, k) = Upto(Unread, k)
      BY <1>3, <3>1, UptoCat
    <3>3. wrote' = wrote
      BY <1>2, <1>8, <2>2
    <3>4. QED
      BY <1>2, <1>9, <1>10, <3>1, <3>2, <3>3
  <2>3. QED
    BY <2>1, <2>2
<1>12. Shown(term') \o Upto(Unread', Least(k, Len(Unread'))) = wrote'
  BY <1>2, <1>7, <1>10, <1>11
<1>13. QED
  BY <1>4, <1>5, <1>12 DEF ShowingStatus, Shown, Upto, Least

LEMMA WriteTokenShowing ==
  ASSUME TypeOK, Handles, Showing, WriteToken
  PROVE  Showing'
<1>1. PICK x \in Text : x = <<Head(sh.writing)>> /\ Len(x) = 1
  BY WriteTokenMoves
<1>2. /\ SameShell /\ Sent' = Sent /\ Alive /\ sh.writing # <<>> /\ sh'.hidden = sh.hidden
      /\ UNCHANGED <<at, call, term, asked, ran>>
      /\ Stream' = Stream /\ Unread' = Unread \o x /\ Stream # <<>>
      /\ Len(sh'.writing) = Len(sh.writing) - 1
      /\ wrote' = IF Len(sh.writing) > sh.hidden THEN wrote \o x ELSE wrote
  BY <1>1, WriteTokenMoves
<1>3. Unread \in Text /\ Stream \in Text /\ Len(Stream) \in Nat /\ Len(sh.writing) \in Nat
      /\ sh.hidden \in Nat
  BY Pieces, Length DEF TypeOK, ShType
<1>4. Probing' = Probing /\ Dumping' = Dumping /\ HasRun' = HasRun /\ sh'.noisy = sh.noisy
      /\ sh'.state = sh.state /\ sh'.echo = sh.echo
  BY <1>2 DEF Probing, Dumping, HasRun, SameShell
<1>5. CASE sh.noisy
  BY <1>4, <1>5 DEF Showing
<1>6. CASE ~sh.noisy /\ Probing
  <2>1. ~Dumping
    BY <1>6 DEF Probing, Dumping
  <2>2. ASSUME ShowingOutput PROVE ShowingOutput'
    <3>1. sh.hidden = 0 /\ Len(sh.writing) # 0
      BY <1>2, <1>3, <2>2, Pieces, NoText DEF ShowingOutput
    <3>2. Len(sh.writing) > sh.hidden
      BY <1>3, <3>1
    <3>3. wrote' = wrote \o x
      BY <1>2, <3>2
    <3>4. PICK t \in Text : t = Shown(term)
      BY ShowingTypes
    <3>5. (t \o Unread) \o x = t \o (Unread \o x)
      BY <1>3, Assoc
    <3>6. Shown(term') \o Unread' = wrote'
      BY <1>2, <2>2, <3>3, <3>4, <3>5 DEF ShowingOutput
    <3>7. sh'.hidden = 0 /\ Quiet(Stream, Len(Stream))'
      BY <1>2, <2>2, <3>1 DEF ShowingOutput, Quiet
    <3>8. QED
      BY <3>6, <3>7 DEF ShowingOutput, Shown
  <2>3. ShowingOutput' \/ (\E k \in 0 .. Len(Stream) : ShowingStatus(k))'
    <3>1. CASE ShowingOutput
      BY <2>2, <3>1
    <3>2. CASE \E k \in 0 .. Len(Stream) : ShowingStatus(k)
      <4>1. PICK k \in 0 .. Len(Stream) : ShowingStatus(k)
        BY <3>2
      <4>2. ShowingStatus(k)'
        BY <1>6, <4>1, WriteTokenStatus
      <4>3. QED
        BY <1>2, <4>2
    <3>3. QED
      BY <1>6, <3>1, <3>2 DEF Showing
  <2>4. (sh'.state = "gone" => Stream' = <<>>) /\ (call'.op = "run" /\ ~HasRun' => Stream' = <<>>)
    BY <1>2, <1>4, <1>6 DEF Showing
  <2>5. QED
    BY <1>4, <1>6, <2>1, <2>3, <2>4, ProbingShowing
<1>7. CASE ~sh.noisy /\ Dumping
  <2>1. ~Probing
    BY <1>7 DEF Probing, Dumping
  <2>2. ShowingDump
    BY <1>7 DEF Showing
  <2>3. wrote' = wrote /\ sh'.hidden >= Len(sh'.writing)
    BY <1>2, <1>3, <2>2 DEF ShowingDump
  <2>4. DumpAfter(0) => DumpAfter(0)'
    <3>1. 0 - 0 = 0 /\ 0 \in 0 .. Len(Stream) /\ Stream' = Past(Stream, 0)
      BY <1>2, <1>3, CutNone
    <3>2. ASSUME DumpAfter(0) PROVE DumpAfter(0 - 0)'
      BY <1>2, <3>1, <3>2, DumpAfterPast
    <3>3. QED
      BY <3>1, <3>2
  <2>5. ShowingDump'
    BY <1>2, <1>4, <2>2, <2>3, <2>4 DEF ShowingDump, Shown
  <2>6. sh'.state # "gone"
    BY <1>2, <1>4 DEF Alive
  <2>7. QED
    BY <1>4, <1>7, <2>1, <2>5, <2>6, DumpingShowing
<1>8. CASE ~sh.noisy /\ ~Probing /\ ~Dumping
  BY <1>2, <1>8 DEF Showing
<1>9. QED
  BY <1>5, <1>6, <1>7, <1>8

\* Before the shell has read the probe, everything it wrote is output.
LEMMA ReadShown ==
  ASSUME TypeOK, Handles, Showing, ReadLine, Probing, ~sh.noisy
  PROVE  ShowingOutput /\ ~Dumping
<1>1. Sent # <<>> /\ Alive
  BY ReadSent DEF ReadLine, Alive
<1>2. \A k : ~ShowingStatus(k)
  BY <1>1 DEF ShowingStatus, StatusAfter
<1>3. ~Dumping
  BY DEF Probing, Dumping
<1>4. QED
  BY <1>2, <1>3 DEF Showing

LEMMA ReadKeepsShown ==
  ASSUME TypeOK, Handles, TypeOK', Showing, ReadLine, Probing, ~sh.noisy,
         Quiet(Stream, Len(Stream))', sh'.hidden = 0
  PROVE  ShowingOutput'
<1>1. ShowingOutput
  BY ReadShown
<1>2. Unread' = Unread /\ term' = term /\ wrote' = wrote
  BY ReadStream DEF ReadLine, ShellOnly
<1>3. Shown(term') \o Unread' = wrote'
  BY <1>1, <1>2 DEF ShowingOutput
<1>4. (sh.writing # <<>> => sh.hidden = 0)'
  OBVIOUS
<1>5. QED
  BY <1>3, <1>4 DEF ShowingOutput, Shown

LEMMA ReadOffShowing ==
  ASSUME TypeOK, Handles, Streams, Showing, TypeOK', ReadLine, ReadOff
  PROVE  Showing'
<1>1. Head(stdin) = Line("off") /\ Probing /\ call.op = "open"
  BY DEF ReadOff
<1>2. Quiet(Stream, Len(Stream))' /\ sh'.noisy = sh.noisy
  BY ReadOffStreams
<1>3. sh'.hidden = 0 /\ sh'.state = "runs"
  <2>1. Line("off").op = "off"
    BY DEF Line
  <2>2. QED
    BY <1>1, <2>1, ReadOther DEF Hidden
<1>4. Probing' /\ ~Dumping' /\ call' = call
  BY <1>1, ReadStream, ReadQuiet
<1>5. ~sh'.noisy => ShowingOutput'
  BY <1>1, <1>2, <1>3, ReadKeepsShown
<1>6. QED
  BY <1>1, <1>3, <1>4, <1>5, ProbingShowing

LEMMA ReadCommandShowing ==
  ASSUME TypeOK, Handles, Streams, Showing, TypeOK', ReadLine, ReadCommand
  PROVE  Showing'
<1>1. Probing /\ call.op = "run" /\ ~HasRun
  BY DEF ReadCommand
<1>2. PICK kind \in Kinds \cup Values : Head(stdin) = Cmd(kind)
  BY DEF ReadCommand
<1>3. Quiet(Stream, Len(Stream))' /\ sh'.noisy = sh.noisy /\ sh'.hidden = 0
  BY ReadCommandStreams
<1>4. Probing' /\ ~Dumping' /\ Stream' = Stream \o sh'.writing /\ asked' = asked
  BY <1>1, ReadStream, ReadQuiet
<1>5. HasRun'
  BY <1>2, <1>4, ReadCmd, HasRunNow
<1>6. ASSUME ~sh'.noisy, sh'.state = "gone" PROVE Stream' = <<>>
  <2>1. Stream = <<>>
    BY <1>1, <1>3, <1>6 DEF Showing
  <2>2. sh'.writing = <<>>
    BY <1>6, ReadLineState
  <2>3. QED
    BY <1>4, <2>1, <2>2, NilIsText, CatNil
<1>7. ~sh'.noisy => ShowingOutput'
  BY <1>1, <1>3, ReadKeepsShown
<1>8. QED
  BY <1>4, <1>5, <1>6, <1>7, ProbingShowing

LEMMA ReadProbeShowing ==
  ASSUME TypeOK, Handles, Streams, Showing, TypeOK', ReadLine, ReadProbe
  PROVE  Showing'
<1>1. Head(stdin) = Line("probe") /\ Probing /\ (call.op = "run" => HasRun)
  BY DEF ReadProbe
<1>2. PICK k \in Nat : k = Len(Stream) + Len(Repeated(Line("probe")))
  BY Pieces, Length, ProbePiece
<1>3. StatusAfter(k)' /\ k \in 0 .. Len(Stream') /\ sh'.last = sh.last
  BY <1>2, ReadProbeStatus
<1>4. Line("probe").op = "probe" /\ sh.noisy \in BOOLEAN
  BY DEF Line, TypeOK, ShType
<1>5. sh'.hidden = Len(Status(sh.last)) /\ sh'.state = "runs" /\ sh'.noisy = sh.noisy /\ ran' = ran
  BY <1>1, <1>4, ReadOther, ProbePiece DEF Hidden
<1>6. Probing' /\ ~Dumping' /\ UNCHANGED <<call, asked>> /\ Stream = Unread /\ Unread' = Unread
  BY <1>1, ReadStream, ReadQuiet
<1>7. term' = term /\ wrote' = wrote
  BY DEF ReadLine, ShellOnly
<1>8. HasRun' = HasRun
  BY <1>5, <1>6 DEF HasRun
<1>9. ASSUME ~sh'.noisy PROVE ShowingStatus(k)'
  <2>1. ShowingOutput
    BY <1>1, <1>5, <1>9, ReadShown
  <2>2. PICK n \in Nat : n = Len(Unread)
    BY ShowingTypes
  <2>3. PICK r \in Nat : r = Len(Repeated(Line("probe")))
    BY ProbePiece, Length
  <2>4. k = n + r
    BY <1>2, <1>6, <2>2, <2>3
  <2>5. Least(k, n) = n
    BY <2>4 DEF Least
  <2>6. Upto(Unread, n) = Unread
    BY <2>2, ShowingTypes, CutAll
  <2>7. Shown(term') \o Upto(Unread', Least(k, Len(Unread'))) = wrote'
    BY <1>6, <1>7, <2>1, <2>2, <2>5, <2>6 DEF ShowingOutput
  <2>8. (sh.hidden = Len(Status(sh.last)))'
    BY <1>3, <1>5 DEF Status
  <2>9. QED
    BY <1>3, <2>7, <2>8 DEF ShowingStatus, Shown, Upto, Least
<1>10. ~sh'.noisy => (\E j \in 0 .. Len(Stream) : ShowingStatus(j))'
  BY <1>3, <1>9
<1>11. QED
  BY <1>1, <1>5, <1>6, <1>8, <1>10, ProbingShowing

LEMMA ReadDumpShowing ==
  ASSUME TypeOK, Handles, Showing, TypeOK', ReadLine, ReadDump
  PROVE  Showing'
<1>1. Dumping /\ ~Probing
  BY DEF ReadDump, Dumping, Probing
<1>2. /\ sh'.echo = sh.echo /\ sh'.state = "runs" /\ sh'.hidden = Len(sh'.writing)
      /\ (~sh'.noisy => ~sh.noisy /\ ~(sh.echo /\ Len(Sent) = 3))
  BY ReadPiece
<1>3. Dumping' /\ ~Probing' /\ call' = call /\ sh'.writing \in Seq(Output)
  BY <1>1, ReadStream
<1>4. ASSUME ~sh'.noisy PROVE ShowingDump' /\ sh'.state # "gone"
  <2>1. ShowingDump
    BY <1>1, <1>2, <1>4 DEF Showing
  <2>2. Shown(term') = wrote'
    <3>1. term' = term /\ wrote' = wrote
      BY DEF ReadLine, ShellOnly
    <3>2. QED
      BY <2>1, <3>1 DEF ShowingDump
  <2>3. (sh.hidden >= Len(sh.writing))'
    <3>1. PICK m \in Nat : m = Len(sh'.writing)
      BY <1>3
    <3>2. QED
      BY <1>2, <3>1
  <2>4. ~sh'.echo
    <3>1. Len(Sent) \in {1, 2, 3}
      <4>1. CASE Sent' = <<Line("set"), Line("end")>> /\ Len(Sent) = 3
        BY <4>1
      <4>2. CASE Sent' = <<Line("end")>> /\ Len(Sent) = 2
        BY <4>2
      <4>3. CASE Sent' = <<>> /\ Len(Sent) = 1
        BY <4>3
      <4>4. QED
        BY <4>1, <4>2, <4>3 DEF ReadDump
    <3>2. PICK n \in {1, 2, 3} : n = Len(Sent)
      BY <3>1
    <3>3. n < 3 => ~sh.echo
      BY <2>1, <3>2 DEF ShowingDump
    <3>4. n = 3 => ~sh.echo
      BY <1>2, <1>4, <3>2
    <3>5. QED
      BY <1>2, <3>3, <3>4
  <2>5. (call.inBlock \/ DumpAfter(0))'
    <3>1. CASE call.inBlock
      BY <1>3, <3>1
    <3>2. CASE DumpAfter(0)
      <4>1. 0 \in 0 .. Len(Stream)
        BY Pieces, Length
      <4>2. DumpAfter(0)'
        BY <3>2, <4>1, ReadDumpAfter
      <4>3. QED
        BY <4>2
    <3>3. QED
      BY <2>1, <3>1, <3>2 DEF ShowingDump
  <2>6. QED
    BY <1>2, <2>2, <2>3, <2>4, <2>5 DEF ShowingDump, Shown
<1>5. QED
  BY <1>3, <1>4, DumpingShowing

LEMMA ShowingStep ==
  ASSUME TypeOK, Handles, Lines, Streams, Ended, Showing, TypeOK', Next
  PROVE  Showing'
<1>1. CASE Open
  BY <1>1, OpenShowing
<1>2. CASE \E kind \in Kinds \cup Values : Run(kind)
  BY <1>2, RunShowing
<1>3. CASE DumpEnv
  BY <1>3, DumpEnvShowing
<1>4. CASE Close
  BY <1>4, CloseShowing
<1>5. CASE Venv
  BY <1>5, WriteShowing, WaitStatusShowing, FindBlockShowing, ReadBlockShowing, DumpFailsShowing,
     DrainShowing, ReturnShowing DEF Venv
<1>6. CASE ReadLine
  BY <1>6, ReadCases, ReadOffShowing, ReadProbeShowing, ReadCommandShowing, ReadDumpShowing
<1>7. CASE WriteToken \/ Swallow \/ EndOfInput
  BY <1>7, WriteTokenShowing, SwallowShowing, EndOfInputShowing
<1>8. CASE Killed
  BY <1>8, KilledShowing
<1>9. CASE DaemonEnds
  BY <1>9, DaemonEndsShowing
<1>10. QED
  BY <1>1, <1>2, <1>3, <1>4, <1>5, <1>6, <1>7, <1>8, <1>9 DEF Next, Shell
-----------------------------------------------------------------------------
(* The invariant holds                                                     *)

LEMMA InitInv ==
  ASSUME Init
  PROVE  IInv
<1>1. TypeOK /\ Handles
  BY InitType, InitHandles
<1>2. at = "config" /\ call.op = "none" /\ sh.state = "none" /\ ~Dumping /\ ~Probing
  BY DEF Init, Idle, NoShell, Dumping, Probing
<1>3. handle.pending = <<>> /\ out = <<>> /\ sh.writing = <<>>
  BY DEF Init, NoHandle, NoShell
<1>4. Stream = <<>>
  BY <1>1, <1>3, NoStream
<1>5. Counted
  BY <1>2 DEF Init, Counted
<1>6. Lines
  BY <1>2 DEF Lines, Alive
<1>7. Streams
  BY <1>2, <1>4, QuietZero DEF Streams
<1>8. Ended
  BY <1>2 DEF Ended, DumpIsLive
<1>9. Showing
  <2>1. Shown(term) = wrote
    BY ShownNil DEF Init
  <2>2. QED
    BY <1>2, <1>4, <2>1 DEF Showing
<1>10. QED
  BY <1>1, <1>5, <1>6, <1>7, <1>8, <1>9 DEF IInv

LEMMA StutterInv ==
  ASSUME IInv, UNCHANGED vars
  PROVE  IInv'
<1>1. UNCHANGED <<at, call, handle, sh, stdin, out, daemon, term, calls, wrote, asked, ran, answers>>
  BY DEF vars
<1>2. TypeOK' /\ Handles'
  BY <1>1 DEF IInv, TypeOK, Handles, Probing, Dumping, Alive
<1>3. Counted'
  BY <1>1 DEF IInv, Counted
<1>4. Sent' = Sent /\ Stream' = Stream /\ Unread' = Unread /\ SameShell /\ SameCall
      /\ Probing' = Probing /\ Dumping' = Dumping
  BY <1>1 DEF Sent, Stream, Unread, SameShell, SameCall, Probing, Dumping
<1>5. Lines'
  BY <1>1, <1>4, SameLines DEF IInv
<1>6. Streams'
  BY <1>1, <1>4, SameStreams DEF IInv
<1>7. Ended'
  BY <1>1, SameEnded DEF IInv
<1>8. Showing'
  BY <1>1, <1>4, SameShowing DEF IInv
<1>9. QED
  BY <1>2, <1>3, <1>5, <1>6, <1>7, <1>8 DEF IInv

LEMMA NextInv == IInv /\ [Next]_vars => IInv'
<1> SUFFICES ASSUME IInv, [Next]_vars PROVE IInv'
  OBVIOUS
<1>1. CASE UNCHANGED vars
  BY <1>1, StutterInv
<1>2. CASE Next
  <2>1. TypeOK /\ Handles /\ Counted /\ Lines /\ Streams /\ Ended /\ Showing
    BY DEF IInv
  <2>2. TypeOK'
    BY <1>2, <2>1, TypeStep
  <2>3. QED
    BY <1>2, <2>1, <2>2, HandlesStep, CountedStep, LinesStep, StreamsStep, EndedStep, ShowingStep DEF IInv
<1>3. QED
  BY <1>1, <1>2

\* What venv, the shell and the pipes between them know of each other stays
\* consistent: IInv.
THEOREM WinShellInv == Spec => []IInv
<1>1. Init => IInv
  BY InitInv
<1>2. QED
  BY <1>1, NextInv, PTL DEF Spec

-----------------------------------------------------------------------------
(* What follows                                                            *)

LEMMA PrefixCat ==
  ASSUME NEW a \in Text, NEW b \in Text
  PROVE  IsPrefix(a, a \o b)
<1>1. Len(a) \in Nat /\ Len(b) \in Nat /\ Len(a) \in 0 .. Len(a)
  BY Length
<1>2. Len(a \o b) = Len(a) + Len(b)
  BY CatLength
<1>3. Upto(a \o b, Len(a)) = Upto(a, Len(a))
  BY <1>1, UptoCat
<1>4. Len(a) <= Len(a \o b)
  BY <1>1, <1>2
<1>5. QED
  BY <1>3, <1>4 DEF IsPrefix, Upto

LEMMA AllIsShown ==
  ASSUME IInv
  PROVE  OutputShown
<1>1. TypeOK /\ Handles /\ Showing
  BY DEF IInv
<1>2. PICK t \in Text : t = Shown(term)
  BY <1>1, ShowingTypes
<1>3. Unread \in Text /\ Len(Unread) \in Nat
  BY <1>1, ShowingTypes
<1>4. at = "config" => ~Dumping /\ ~Probing
  BY DEF Dumping, Probing
<1>5. t = wrote => IsPrefix(Shown(term), wrote)
  <2>1. IsPrefix(t, t \o <<>>) /\ t \o <<>> = t
    BY NilIsText, PrefixCat, CatNil
  <2>2. QED
    BY <1>2, <2>1
<1>6. ASSUME ~sh.noisy PROVE IsPrefix(Shown(term), wrote)
  <2>1. CASE ~Dumping /\ ~Probing
    BY <1>1, <1>2, <1>5, <1>6, <2>1 DEF Showing
  <2>2. CASE Dumping
    BY <1>1, <1>2, <1>5, <1>6, <2>2 DEF Showing, ShowingDump
  <2>3. CASE Probing /\ ShowingOutput
    <3>1. t \o Unread = wrote
      BY <1>2, <2>3 DEF ShowingOutput
    <3>2. QED
      BY <1>2, <1>3, <3>1, PrefixCat
  <2>4. CASE \E k \in 0 .. Len(Stream) : ShowingStatus(k)
    <3>1. PICK k \in 0 .. Len(Stream) : ShowingStatus(k)
      BY <2>4
    <3>2. Len(Stream) \in Nat
      BY <1>1, Pieces, Length
    <3>3. PICK m \in 0 .. Len(Unread) : m = Least(k, Len(Unread))
      BY <1>3, <3>2 DEF Least
    <3>4. Upto(Unread, m) \in Text
      BY <1>3, UptoText
    <3>5. t \o Upto(Unread, m) = wrote
      BY <1>2, <3>1, <3>3 DEF ShowingStatus
    <3>6. QED
      BY <1>2, <3>4, <3>5, PrefixCat
  <2>5. QED
    BY <1>1, <1>6, <2>1, <2>2, <2>3, <2>4 DEF Showing
<1>7. ~sh.noisy /\ at = "config" => Shown(term) = wrote
  BY <1>1, <1>4 DEF Showing
<1>8. QED
  BY <1>6, <1>7 DEF OutputShown

\* shell_wait_status(), venv_shell_dump_env(): what the commands print, and
\* nothing else, reaches the terminal, in order, and all of it before the next
\* call, as long as the shell is not killed and no dump is taken with echo on.
THEOREM OutputIsShown == Spec => []OutputShown
<1>1. IInv => OutputShown
  BY AllIsShown
<1>2. QED
  BY <1>1, WinShellInv, PTL

\* venv_shell_dump_env(): a dump that succeeds has the shell's variable, once,
\* with echo on or off, and whatever pieces its block arrives in.
THEOREM DumpsAreLive == Spec => []DumpIsLive
<1>1. IInv => DumpIsLive
  BY DEF IInv, Ended
<1>2. QED
  BY <1>1, WinShellInv, PTL

-----------------------------------------------------------------------------
(* Every step is a step of the session, or none of its business            *)

SessionStep == [Session!Next]_(Session!vars)

\* A command waits for its answer exactly while venv is in its call.
LEMMA WaitingForCommand ==
  ASSUME IInv
  PROVE  Session!Waiting <=> call.op = "run"
<1>1. asked \in Nat /\ Len(answers) \in Nat
  BY LenProperties DEF IInv, TypeOK
<1>2. QED
  BY <1>1 DEF IInv, Counted, Session!Waiting

\* Whether there is a shell, and whether it lives, is all of `up`.
LEMMA NoOneSees ==
  ASSUME handle'.open = handle.open, Alive' <=> Alive, UNCHANGED <<asked, ran, answers>>
  PROVE  SessionStep
<1>1. SessionUp' = SessionUp
  BY DEF SessionUp
<1>2. QED
  BY <1>1 DEF SessionStep, Session!vars

\* A shell that ends does so with the session open.
LEMMA ShellEnds ==
  ASSUME IInv, Alive, ~Alive', UNCHANGED <<handle, asked, ran, answers>>
  PROVE  SessionStep
<1>1. SessionUp = "open" /\ SessionUp' = "ended"
  BY DEF SessionUp, IInv, Handles
<1>2. QED
  BY <1>1 DEF SessionStep, Session!Next, Session!End

LEMMA OpenSimulates ==
  ASSUME IInv, Open
  PROVE  SessionStep
<1>1. at = "config" /\ ~handle.open /\ handle'.open /\ sh'.state = "runs"
      /\ UNCHANGED <<asked, ran, answers>>
  BY DEF Open, NoHandle, NoShell
<1>2. SessionUp = "closed" /\ SessionUp' = "open"
  BY <1>1 DEF SessionUp, Alive
<1>3. ~Session!Waiting
  BY <1>1, WaitingForCommand DEF IInv, Handles
<1>4. QED
  BY <1>1, <1>2, <1>3 DEF SessionStep, Session!Next, Session!Open

\* A command is given.
LEMMA RunSimulates ==
  ASSUME IInv, NEW kind, Run(kind)
  PROVE  SessionStep
<1>1. at = "config" /\ handle.open /\ asked' = asked + 1 /\ UNCHANGED <<handle, sh, ran, answers>>
  BY DEF Run
<1>2. SessionUp' = SessionUp /\ SessionUp # "closed"
  BY <1>1 DEF SessionUp, Alive
<1>3. ~Session!Waiting
  BY <1>1, WaitingForCommand DEF IInv, Handles
<1>4. QED
  BY <1>1, <1>2, <1>3 DEF SessionStep, Session!Next, Session!Ask

\* The steps of venv in a call.
LEMMA CallSimulates ==
  ASSUME IInv, Write \/ WaitStatus \/ FindBlock \/ ReadBlock \/ DumpFails
  PROVE  SessionStep
<1>1. UNCHANGED <<sh, asked, ran, answers>>
  BY DEF Write, WaitStatus, FindBlock, ReadBlock, DumpFails, history
<1>2. handle'.open = handle.open
  <2>1. handle \in HandleType
    BY DEF IInv, TypeOK
  <2>2. CASE Write
    BY <2>1, <2>2 DEF Write, HandleType
  <2>3. CASE WaitStatus
    BY <2>1, <2>3 DEF WaitStatus, ShellGone, Fill, HandleType
  <2>4. CASE FindBlock
    BY <2>1, <2>4 DEF FindBlock, Fill, HandleType
  <2>5. CASE ReadBlock
    BY <2>1, <2>5 DEF ReadBlock, Fill, HandleType
  <2>6. CASE DumpFails
    BY <2>1, <2>6 DEF DumpFails, HandleType
  <2>7. QED
    BY <2>2, <2>3, <2>4, <2>5, <2>6
<1>3. QED
  BY <1>1, <1>2, NoOneSees DEF Alive

\* The session is closed when nothing more comes from the shell.
LEMMA DrainSimulates ==
  ASSUME IInv, Drain
  PROVE  SessionStep
<1>1. at = "drain" /\ UNCHANGED <<call, sh, asked, ran, answers>>
  BY DEF Drain, history
<1>2. handle.open /\ ~Session!Waiting
  BY <1>1, WaitingForCommand DEF IInv, Handles
<1>3. CASE handle' = NoHandle
  <2>1. SessionUp # "closed" /\ SessionUp' = "closed"
    BY <1>2, <1>3 DEF SessionUp, NoHandle
  <2>2. QED
    BY <1>1, <1>2, <2>1 DEF SessionStep, Session!Next, Session!Close
<1>4. CASE Fill(LastNewline(handle.pending))
  <2>1. handle'.open = handle.open
    BY <1>4 DEF Fill, IInv, TypeOK, HandleType
  <2>2. QED
    BY <1>1, <2>1, NoOneSees DEF Alive
<1>5. QED
  BY <1>3, <1>4 DEF Drain

\* What a command is answered with.
LEMMA ReturnSimulates ==
  ASSUME IInv, Return
  PROVE  SessionStep
<1>1. at = "return" /\ UNCHANGED <<sh, asked, ran>>
  BY DEF Return
<1>2. CASE call.op = "run"
  <2>1. handle.open /\ handle' = handle /\ answers' = Append(answers, Outcome)
    BY <1>1, <1>2 DEF Return, IInv, Handles
  <2>2. Session!Waiting /\ asked \in Nat
    BY <1>2, WaitingForCommand DEF IInv, TypeOK
  <2>3. SessionUp' = SessionUp
    BY <1>1, <2>1 DEF SessionUp, Alive
  <2>4. Own(asked) \notin {KILLED, FAILURE}
    BY <2>2, OwnIs DEF KILLED, FAILURE
  <2>5. \/ Outcome = Own(asked) /\ HasRun
        \/ Outcome \in {KILLED, FAILURE} /\ SessionUp = "ended"
    BY <1>1, <1>2, <2>1 DEF IInv, Ended, Outcome, SessionUp
  <2>6. Session!Answer
    BY <1>1, <2>1, <2>2, <2>3, <2>4, <2>5 DEF Session!Answer, HasRun
  <2>7. QED
    BY <2>6 DEF SessionStep, Session!Next
<1>3. CASE call.op # "run"
  <2>1. answers' = answers /\ handle'.open = handle.open
    BY <1>3 DEF Return, IInv, TypeOK, HandleType
  <2>2. QED
    BY <1>1, <2>1, NoOneSees DEF Alive
<1>4. QED
  BY <1>2, <1>3

\* The shell runs the command that waits, and it has not been run before.
LEMMA ReadLineSimulates ==
  ASSUME IInv, ReadLine
  PROVE  SessionStep
<1>1. TypeOK /\ Handles /\ Lines
  BY DEF IInv
<1>2. sh.state = "runs" /\ Alive /\ UNCHANGED <<handle, asked, answers>>
  BY DEF ReadLine, ShellOnly, Alive
<1>3. CASE ReadCommand
  <2>1. call.op = "run" /\ ~HasRun
    BY <1>3 DEF ReadCommand
  <2>2. ran' = Append(ran, asked)
    BY <1>1, <1>3, ReadCmd DEF ReadCommand
  <2>3. Session!Waiting /\ \A i \in DOMAIN ran : ran[i] # asked
    BY <2>1, WaitingForCommand DEF HasRun
  <2>4. SessionUp = "open" /\ SessionUp' \in {"open", "ended"}
    BY <1>1, <1>2, <2>1 DEF SessionUp, Handles
  <2>5. QED
    BY <1>2, <2>2, <2>3, <2>4 DEF SessionStep, Session!Next, Session!Run
<1>4. CASE ReadOff \/ ReadProbe \/ ReadDump
  <2>1. PICK op \in {"off", "probe", "begin", "set", "end"} : Head(stdin) = Line(op)
    BY <1>4 DEF ReadOff, ReadProbe, ReadDump
  <2>2. sh'.state = "runs" /\ ran' = ran
    BY <1>1, <2>1, ReadOther
  <2>3. QED
    BY <1>2, <2>2, NoOneSees DEF Alive
<1>5. QED
  BY <1>1, <1>3, <1>4, ReadCases

\* The other steps of the shell.
LEMMA ShellSimulates ==
  ASSUME IInv, WriteToken \/ Swallow \/ EndOfInput \/ Killed \/ DaemonEnds
  PROVE  SessionStep
<1>1. UNCHANGED <<handle, asked, ran, answers>>
  BY DEF WriteToken, Swallow, EndOfInput, Killed, DaemonEnds, ShellOnly
<1>2. sh \in ShType
  BY DEF IInv, TypeOK
<1>3. CASE WriteToken
  <2>1. sh'.state = sh.state
    BY <1>2, <1>3 DEF WriteToken, ShType
  <2>2. QED
    BY <1>1, <2>1, NoOneSees DEF Alive
<1>4. CASE Swallow
  <2>1. Alive /\ sh'.state = "runs"
    BY <1>2, <1>4 DEF Swallow, Alive, ShType
  <2>2. QED
    BY <1>1, <2>1, NoOneSees DEF Alive
<1>5. CASE EndOfInput \/ Killed
  <2>1. Alive /\ sh'.state = "gone"
    BY <1>2, <1>5 DEF EndOfInput, Killed, Dies, ShType
  <2>2. QED
    BY <1>1, <2>1, ShellEnds DEF Alive
<1>6. CASE DaemonEnds
  BY <1>1, <1>6, NoOneSees DEF DaemonEnds, Alive
<1>7. QED
  BY <1>3, <1>4, <1>5, <1>6

LEMMA Simulation == IInv /\ [Next]_vars => SessionStep
<1> SUFFICES ASSUME IInv, [Next]_vars PROVE SessionStep
  OBVIOUS
<1>1. CASE UNCHANGED vars
  BY <1>1, NoOneSees DEF vars, Alive
<1>2. CASE Open \/ \E kind \in Kinds \cup Values : Run(kind)
  BY <1>2, OpenSimulates, RunSimulates
<1>3. CASE DumpEnv
  <2>1. UNCHANGED <<handle, sh, asked, ran, answers>>
    BY <1>3 DEF DumpEnv
  <2>2. QED
    BY <2>1, NoOneSees DEF Alive
<1>4. CASE Close
  <2>1. UNCHANGED <<sh, asked, ran, answers>> /\ handle'.open = handle.open
    BY <1>4 DEF Close, history, IInv, TypeOK, HandleType
  <2>2. QED
    BY <2>1, NoOneSees DEF Alive
<1>5. CASE Venv
  BY <1>5, CallSimulates, DrainSimulates, ReturnSimulates DEF Venv
<1>6. CASE Shell \/ Killed \/ DaemonEnds
  BY <1>6, ReadLineSimulates, ShellSimulates DEF Shell
<1>7. CASE Next
  BY <1>2, <1>3, <1>4, <1>5, <1>6, <1>7 DEF Next
<1>8. QED
  BY <1>1, <1>7

LEMMA InitSimulates == Init => Session!Init
  BY DEF Init, Session!Init, SessionUp, NoHandle

\* venv_shell_run(): with statuses filtered out of the output, each command runs
\* once, in order, and is answered with its own status or the end of the shell.
THEOREM SessionImplemented == Spec => SessionKept
<1>1. IInv /\ [Next]_vars => [Session!Next]_(Session!vars)
  BY Simulation DEF SessionStep
<1>2. QED
  BY <1>1, InitSimulates, WinShellInv, PTL DEF Spec, SessionKept, Session!Spec
=============================================================================
