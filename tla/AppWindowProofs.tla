-------------------------- MODULE AppWindowProofs --------------------------
(* What a key does to a text field, whatever the text: a text of whole     *)
(* characters stays one, and the caret stays between them.  Then the name  *)
(* fields of the window under everything that is typed, written and heard  *)
(* of: handler by handler, what the file, the loaded config, the curve     *)
(* being dragged and the fields hold are names.                            *)
EXTENDS AppWindow, CurveProofs

-----------------------------------------------------------------------------
(* Texts.                                                                  *)

(* The least and the greatest of some places.                              *)
LEMMA MinIn ==
  ASSUME NEW S \in SUBSET Nat, S # {}
  PROVE  Min(S) \in S /\ \A i \in S : Min(S) <= i
<1>1. \E i \in S : \A j \in S : i <= j
  BY LeastIndex
<1> QED
  BY <1>1 DEF Min

(* And the greatest.                                                       *)
LEMMA MaxIn ==
  ASSUME NEW n \in Nat, NEW S \in SUBSET (0..n), S # {}
  PROVE  Max(S) \in S /\ \A i \in S : i <= Max(S)
<1> DEFINE T == {i \in 0..n : n - i \in S}
<1>1. PICK s \in S : TRUE
  OBVIOUS
<1>2. T \in SUBSET Nat /\ n - s \in T
  BY <1>1
<1>3. T # {}
  BY <1>2
<1> HIDE DEF T
<1>4. PICK t \in T : \A j \in T : t <= j
  BY <1>2, <1>3, LeastIndex
<1>5. n - t \in S /\ t \in 0..n
  BY <1>4 DEF T
<1>6. ASSUME NEW j \in S
      PROVE  j <= n - t
  <2>1. j \in 0..n /\ n - j \in T
    BY DEF T
  <2>2. t <= n - j
    BY <1>4, <2>1
  <2> QED
    BY <1>5, <2>1, <2>2
<1>7. \E i \in S : \A j \in S : i >= j
  BY <1>5, <1>6
<1> QED
  BY <1>7 DEF Max

Listed(s) == \E S : s \in Seq(S)

(* A sequence, whatever it lists, is a function on its places, ...         *)
LEMMA ListedFunction ==
  ASSUME NEW s, NEW n \in Nat, s = [i \in 1..n |-> s[i]]
  PROVE  Listed(s) /\ Len(s) = n /\ DOMAIN s = 1..n
<1> DEFINE S == {s[i] : i \in 1..n}
           t == [i \in 1..n |-> s[i]]
<1>1. \A i \in 1..n : s[i] \in S
  OBVIOUS
<1> HIDE DEF S
<1>2. t \in Seq(S) /\ Len(t) = n /\ DOMAIN t = 1..n
  BY <1>1
<1> HIDE DEF t
<1>3. t = s
  BY Zenon DEF t
<1> QED
  BY <1>2, <1>3, Zenon DEF Listed

(* ... and the other way round.                                            *)
LEMMA ListedLen ==
  ASSUME NEW s, Listed(s)
  PROVE  Len(s) \in Nat /\ DOMAIN s = 1..Len(s) /\ s = [i \in 1..Len(s) |-> s[i]]
<1>1. PICK S : s \in Seq(S)
  BY DEF Listed
<1> QED
  BY <1>1

(* Two sequences one after the other.                                      *)
LEMMA Joined ==
  ASSUME NEW s, NEW t, Listed(s), Listed(t)
  PROVE  /\ Listed(s \o t) /\ Len(s \o t) = Len(s) + Len(t)
         /\ \A i \in 1..Len(s) : (s \o t)[i] = s[i]
         /\ \A i \in 1..Len(t) : (s \o t)[Len(s) + i] = t[i]
<1>1. PICK S : s \in Seq(S)
  BY DEF Listed
<1>2. PICK T : t \in Seq(T)
  BY DEF Listed
<1>3. s \in Seq(S \cup T) /\ t \in Seq(S \cup T)
  BY <1>1, <1>2
<1>4. s \o t \in Seq(S \cup T)
  BY <1>3
<1> QED
  BY <1>3, <1>4 DEF Listed

(* A part of a sequence.                                                   *)
LEMMA Cut ==
  ASSUME NEW s, Listed(s), NEW p \in Nat, NEW q \in Nat, p <= q, q <= Len(s)
  PROVE  LET c == SubSeq(s, p + 1, q)
         IN /\ Listed(c) /\ Len(c) = q - p
            /\ \A i \in 1..(q - p) : c[i] = s[p + i]
<1>1. PICK S : s \in Seq(S)
  BY DEF Listed
<1>2. \A i \in (p + 1)..q : s[i] \in S
  BY <1>1
<1>3. SubSeq(s, p + 1, q) \in Seq(S)
  BY <1>1, <1>2
<1> QED
  BY <1>1, <1>3 DEF Listed

Sound(text) == Listed(text) /\ Intact(text)

(* The ends of a text are between characters.                              *)
LEMMA BoundaryEnds ==
  ASSUME NEW text, Sound(text)
  PROVE  /\ {0, Len(text)} \subseteq Boundaries(text)
         /\ Len(text) \in Nat /\ Boundaries(text) \subseteq 0..Len(text)
<1>1. Len(text) \in Nat /\ DOMAIN text = 1..Len(text)
  BY ListedLen DEF Sound
<1>2. CASE Len(text) = 0
  BY <1>1, <1>2 DEF Boundaries
<1>3. CASE Len(text) # 0
  <2>1. 1 \in DOMAIN text /\ ~(0 \in DOMAIN text)
    BY <1>1, <1>3
  <2>2. StartsChar(text[1])
    BY <2>1 DEF Sound, Intact, StartsChar
  <2> QED
    BY <1>1, <2>2 DEF Boundaries
<1> QED
  BY <1>2, <1>3

(* A text that is cut between characters is whole on either side.          *)
LEMMA CutWhole ==
  ASSUME NEW text, Sound(text), NEW p \in Nat, NEW q \in Nat, p <= q,
         {p, q} \subseteq Boundaries(text)
  PROVE  Sound(SubSeq(text, p + 1, q)) /\ Len(SubSeq(text, p + 1, q)) = q - p
<1> DEFINE c == SubSeq(text, p + 1, q)
<1>1. /\ Len(text) \in Nat /\ DOMAIN text = 1..Len(text) /\ Listed(text)
      /\ p \in Nat /\ q \in Nat /\ q <= Len(text)
  BY BoundaryEnds, ListedLen DEF Sound
<1>2. Listed(c) /\ Len(c) = q - p /\ \A i \in 1..(q - p) : c[i] = text[p + i]
  BY <1>1, Cut
<1>3. DOMAIN c = 1..(q - p)
  BY <1>2, ListedLen
<1> HIDE DEF c
<1>5. /\ p # Len(text) => StartsChar(text[p + 1])
      /\ q # Len(text) => StartsChar(text[q + 1])
  BY DEF Boundaries
<1>4. ASSUME NEW i \in 1..(q - p)
      PROVE  LET x == c[i][1] IN
             \/ /\ c[i] = <<x, 1>>
                /\ x \in Wide => i + 1 \in DOMAIN c /\ c[i + 1] = <<x, 2>>
             \/ /\ x \in Wide /\ c[i] = <<x, 2>>
                /\ i - 1 \in DOMAIN c /\ c[i - 1] = <<x, 1>>
  <2> DEFINE x == text[p + i][1]
  <2>1. c[i] = text[p + i] /\ p + i \in DOMAIN text
    BY <1>1, <1>2
  <2>2. CASE /\ text[p + i] = <<x, 1>>
             /\ x \in Wide => p + i + 1 \in DOMAIN text /\ text[p + i + 1] = <<x, 2>>
    <3>1. CASE x \in Wide
      <4>1. p + i + 1 \in DOMAIN text /\ text[p + i + 1] = <<x, 2>>
        BY <2>2, <3>1
      <4>2. ~StartsChar(text[p + i + 1])
        BY <4>1 DEF StartsChar
      <4>3. ASSUME q = p + i PROVE FALSE
        <5>3. p + i + 1 \in DOMAIN text
          BY <4>1, Zenon
        <5>4. i \in Int
          OBVIOUS
        <5>5. p + i + 1 <= Len(text) /\ Len(text) \in Nat
          BY <1>1, <5>3
        <5>6. q + 1 = p + i + 1
          BY <4>3
        <5>7. q # Len(text)
          BY <4>3, <5>4, <5>5
        <5>1. q + 1 = p + i + 1 /\ q # Len(text)
          BY <5>6, <5>7
        <5>2. StartsChar(text[q + 1])
          BY <1>5, <5>1
        <5> QED
          BY <4>2, <5>1, <5>2
      <4>4. i + 1 \in 1..(q - p)
        BY <1>1, <4>3
      <4>5. c[i + 1] = text[p + i + 1]
        BY <1>1, <1>2, <4>4
      <4> QED
        BY <1>3, <2>1, <2>2, <4>1, <4>4, <4>5
    <3> QED
      BY <2>1, <2>2, <3>1
  <2>3. CASE /\ x \in Wide /\ text[p + i] = <<x, 2>>
             /\ p + i - 1 \in DOMAIN text /\ text[p + i - 1] = <<x, 1>>
    <3>1. ~StartsChar(text[p + i])
      BY <2>3 DEF StartsChar
    <3>2. ASSUME i = 1 PROVE FALSE
      <4>1. p + i = p + 1 /\ p # Len(text)
        BY <1>1, <2>1, <3>2
      <4>2. StartsChar(text[p + 1])
        BY <1>5, <4>1
      <4> QED
        BY <3>1, <4>1, <4>2
    <3>3. i - 1 \in 1..(q - p)
      BY <1>1, <3>2
    <3>4. c[i - 1] = text[p + i - 1]
      BY <1>1, <1>2, <3>3
    <3> QED
      BY <1>3, <2>1, <2>3, <3>3, <3>4
  <2>4. \/ /\ text[p + i] = <<x, 1>>
           /\ x \in Wide => p + i + 1 \in DOMAIN text /\ text[p + i + 1] = <<x, 2>>
        \/ /\ x \in Wide /\ text[p + i] = <<x, 2>>
           /\ p + i - 1 \in DOMAIN text /\ text[p + i - 1] = <<x, 1>>
    <3>1. LET d == text[p + i][1] IN
          \/ /\ text[p + i] = <<d, 1>>
             /\ d \in Wide => p + i + 1 \in DOMAIN text /\ text[p + i + 1] = <<d, 2>>
          \/ /\ d \in Wide /\ text[p + i] = <<d, 2>>
             /\ p + i - 1 \in DOMAIN text /\ text[p + i - 1] = <<d, 1>>
      <4>1. PICK k : k = p + i
        OBVIOUS
      <4>2. LET d == text[k][1] IN
            \/ /\ text[k] = <<d, 1>>
               /\ d \in Wide => k + 1 \in DOMAIN text /\ text[k + 1] = <<d, 2>>
            \/ /\ d \in Wide /\ text[k] = <<d, 2>>
               /\ k - 1 \in DOMAIN text /\ text[k - 1] = <<d, 1>>
        BY <2>1, <4>1, Zenon DEF Sound, Intact
      <4> QED
        BY <4>1, <4>2
    <3> QED
      BY <3>1
  <2> QED
    BY <2>2, <2>3, <2>4
<1> QED
  BY <1>2, <1>3, <1>4 DEF Sound, Intact, c

(* Whole texts one after the other are whole, and meet between characters. *)
LEMMA JoinWhole ==
  ASSUME NEW s, NEW t, Sound(s), Sound(t)
  PROVE  /\ Sound(s \o t) /\ Len(s \o t) = Len(s) + Len(t)
         /\ Len(s) \in Boundaries(s \o t)
<1> DEFINE c == s \o t
<1>1. /\ Listed(c) /\ Len(c) = Len(s) + Len(t)
      /\ \A i \in 1..Len(s) : c[i] = s[i]
      /\ \A i \in 1..Len(t) : c[Len(s) + i] = t[i]
  BY Joined DEF Sound
<1>2. /\ Len(s) \in Nat /\ Len(t) \in Nat
      /\ DOMAIN s = 1..Len(s) /\ DOMAIN t = 1..Len(t) /\ DOMAIN c = 1..(Len(s) + Len(t))
  BY <1>1, ListedLen DEF Sound
<1> HIDE DEF c
<1>3. ASSUME NEW i \in DOMAIN c
      PROVE  LET x == c[i][1] IN
             \/ /\ c[i] = <<x, 1>>
                /\ x \in Wide => i + 1 \in DOMAIN c /\ c[i + 1] = <<x, 2>>
             \/ /\ x \in Wide /\ c[i] = <<x, 2>>
                /\ i - 1 \in DOMAIN c /\ c[i - 1] = <<x, 1>>
  <2>1. CASE i <= Len(s)
    <3>1. i \in DOMAIN s /\ c[i] = s[i]
      BY <1>1, <1>2, <2>1
    <3>2. \A j \in DOMAIN s : j \in DOMAIN c /\ c[j] = s[j]
      BY <1>1, <1>2
    <3> QED
      BY <3>1, <3>2 DEF Sound, Intact
  <2>2. CASE i > Len(s)
    <3> DEFINE j == i - Len(s)
    <3>1. j \in DOMAIN t /\ c[i] = t[j] /\ i = Len(s) + j
      BY <1>1, <1>2, <2>2
    <3>2. \A k \in DOMAIN t : Len(s) + k \in DOMAIN c /\ c[Len(s) + k] = t[k]
      BY <1>1, <1>2
    <3> HIDE DEF j
    <3>3. \/ /\ t[j] = <<t[j][1], 1>>
             /\ t[j][1] \in Wide => j + 1 \in DOMAIN t /\ t[j + 1] = <<t[j][1], 2>>
          \/ /\ t[j][1] \in Wide /\ t[j] = <<t[j][1], 2>>
             /\ j - 1 \in DOMAIN t /\ t[j - 1] = <<t[j][1], 1>>
      BY <3>1 DEF Sound, Intact
    <3>4. /\ j + 1 \in DOMAIN t => i + 1 \in DOMAIN c /\ c[i + 1] = t[j + 1]
          /\ j - 1 \in DOMAIN t => i - 1 \in DOMAIN c /\ c[i - 1] = t[j - 1]
      <4>1. Len(s) + (j + 1) = i + 1 /\ Len(s) + (j - 1) = i - 1
        BY <3>1, <1>2
      <4> QED
        BY <3>2, <4>1
    <3> QED
      BY <3>1, <3>3, <3>4
  <2> QED
    BY <1>2, <2>1, <2>2
<1>4. Len(s) \in Boundaries(c)
  <2>1. CASE Len(t) = 0
    BY <1>1, <1>2, <2>1 DEF Boundaries
  <2>2. CASE Len(t) # 0
    <3>1. 0 \in Boundaries(t)
      BY BoundaryEnds
    <3>2. StartsChar(t[1])
      BY <1>2, <2>2, <3>1 DEF Boundaries
    <3>3. c[Len(s) + 1] = t[1]
      BY <1>1, <1>2, <2>2
    <3>4. Len(s) \in 0..Len(c)
      BY <1>1, <1>2
    <3> QED
      BY <3>2, <3>3, <3>4 DEF Boundaries
  <2> QED
    BY <2>1, <2>2
<1> QED
  BY <1>1, <1>3, <1>4 DEF Sound, Intact, c

(* FlattenSeq joins one sequence after the other.                          *)
LEMMA FlattenSteps ==
  ASSUME NEW seqs, NEW n \in Nat \ {0}, Len(seqs) = n
  PROVE  \E f : /\ f[1] = seqs[1]
                /\ \A i \in 2..n : f[i] = f[i - 1] \o seqs[i]
                /\ FlattenSeq(seqs) = f[n]
<1> DEFINE Flat(f, m) == f = [i \in 1..m |-> IF i = 1 THEN seqs[i] ELSE f[i - 1] \o seqs[i]]
           Brief == {m \in Nat \ {0} : ~\E f : Flat(f, m)}
<1>1. Brief = {}
  <2>1. SUFFICES ASSUME Brief # {} PROVE FALSE
    OBVIOUS
  <2>2. PICK m \in Brief : \A j \in Brief : m <= j
    <3>1. Brief \in SUBSET Nat
      OBVIOUS
    <3> QED
      BY <2>1, <3>1, LeastIndex
  <2>3. CASE m = 1
    <3> DEFINE f == [i \in 1..1 |-> seqs[i]]
    <3>1. f = [i \in 1..1 |-> IF i = 1 THEN seqs[i] ELSE f[i - 1] \o seqs[i]]
      OBVIOUS
    <3>2. Flat(f, 1)
      BY <3>1
    <3> QED
      BY <2>2, <2>3, <3>2
  <2>4. CASE m # 1
    <3>0. m \in Nat \ {0}
      BY <2>2
    <3>1. m - 1 \in Nat \ {0} /\ ~(m - 1 \in Brief)
      <4> HIDE DEF Brief
      <4> QED
        BY <2>2, <2>4, <3>0
    <3>2. PICK f : Flat(f, m - 1)
      <4> HIDE DEF Flat
      <4> QED
        BY <3>1
    <3> DEFINE g == [i \in 1..m |-> IF i = m THEN f[m - 1] \o seqs[m] ELSE f[i]]
    <3>3. \A i \in 1..(m - 1) : f[i] = IF i = 1 THEN seqs[i] ELSE f[i - 1] \o seqs[i]
      BY <3>2
    <3>4. \A i \in 1..m : g[i] = IF i = 1 THEN seqs[i] ELSE g[i - 1] \o seqs[i]
      BY <3>1, <3>3, <2>4
    <3>5. g = [i \in 1..m |-> g[i]]
      OBVIOUS
    <3> HIDE DEF g
    <3>6. Flat(g, m)
      BY <3>4, <3>5
    <3> QED
      BY <2>2, <3>6
  <2> QED
    BY <2>3, <2>4
<1>2. PICK f : Flat(f, n)
  <2> HIDE DEF Flat
  <2> QED
    BY <1>1
<1> DEFINE flatten[i \in 1..n] == IF i = 1 THEN seqs[i] ELSE flatten[i - 1] \o seqs[i]
<1>3. Flat(flatten, n)
  BY <1>2, Zenon
<1>4. FlattenSeq(seqs) = flatten[n]
  BY Zenon DEF FlattenSeq
<1> HIDE DEF flatten
<1>5. \A i \in 1..n : flatten[i] = IF i = 1 THEN seqs[i] ELSE flatten[i - 1] \o seqs[i]
  <2> DEFINE step == [i \in 1..n |-> IF i = 1 THEN seqs[i] ELSE flatten[i - 1] \o seqs[i]]
  <2>1. flatten = step
    BY <1>3
  <2>2. \A i \in 1..n : step[i] = IF i = 1 THEN seqs[i] ELSE flatten[i - 1] \o seqs[i]
    OBVIOUS
  <2> QED
    BY <2>1, <2>2, Zenon
<1>6. flatten[1] = seqs[1]
  BY <1>5
<1>7. ASSUME NEW i \in 2..n PROVE flatten[i] = flatten[i - 1] \o seqs[i]
  <2>1. i \in 1..n /\ i # 1
    OBVIOUS
  <2> QED
    BY <1>5, <2>1, Zenon
<1> QED
  BY <1>4, <1>6, <1>7, Zenon

(* As many characters as bytes that start one.                             *)
LEMMA CharsCounted ==
  ASSUME NEW text, Listed(text)
  PROVE  /\ IsFiniteSet(Starts(text)) /\ Cardinality(Starts(text)) \in Nat
         /\ Listed(Chars(text)) /\ Len(Chars(text)) = Cardinality(Starts(text))
<1>1. IsFiniteSet(1..Len(text)) /\ Starts(text) \in SUBSET (1..Len(text))
  <2>1. Len(text) \in Nat /\ DOMAIN text = 1..Len(text)
    BY ListedLen
  <2>2. IsFiniteSet(1..Len(text))
    BY <2>1, FS_Interval
  <2> QED
    BY <2>1, <2>2 DEF Starts
<1>2. IsFiniteSet(Starts(text)) /\ Cardinality(Starts(text)) \in Nat
  BY <1>1, FS_Subset, FS_CardinalityType
<1> DEFINE n == Cardinality(Starts(text))
           Of(k) == text[CHOOSE i \in Starts(text) : Cardinality(Starts(text) \cap 1..i) = k][1]
<1>3. Chars(text) = [k \in 1..n |-> Of(k)]
  BY DEF Chars
<1> HIDE DEF Of
<1>4. n \in Nat
  BY <1>2
<1> HIDE DEF n
<1>5. Chars(text) = [k \in 1..n |-> Chars(text)[k]]
  BY <1>3
<1>6. Listed(Chars(text)) /\ Len(Chars(text)) = n
  <2> HIDE DEF Chars
  <2> QED
    BY <1>4, <1>5, ListedFunction
<1> QED
  BY <1>2, <1>6 DEF n

(* Texts one after the other have the characters of both.                  *)
LEMMA JoinCount ==
  ASSUME NEW s, NEW t, Listed(s), Listed(t)
  PROVE  Cardinality(Starts(s \o t)) = Cardinality(Starts(s)) + Cardinality(Starts(t))
<1> DEFINE c == s \o t
           later == {Len(s) + i : i \in Starts(t)}
<1>1. /\ Listed(c) /\ Len(c) = Len(s) + Len(t)
      /\ \A i \in 1..Len(s) : c[i] = s[i]
      /\ \A i \in 1..Len(t) : c[Len(s) + i] = t[i]
  BY Joined
<1>2. /\ Len(s) \in Nat /\ Len(t) \in Nat
      /\ DOMAIN s = 1..Len(s) /\ DOMAIN t = 1..Len(t) /\ DOMAIN c = 1..(Len(s) + Len(t))
  BY <1>1, ListedLen
<1>3. /\ IsFiniteSet(Starts(s)) /\ Cardinality(Starts(s)) \in Nat
      /\ IsFiniteSet(Starts(t)) /\ Cardinality(Starts(t)) \in Nat
  BY CharsCounted
<1> HIDE DEF c
<1>4. Starts(c) = Starts(s) \cup later
  <2>1. ASSUME NEW i \in Starts(c) PROVE i \in Starts(s) \cup later
    <3>1. i \in DOMAIN c /\ StartsChar(c[i])
      BY DEF Starts
    <3>2. CASE i <= Len(s)
      <4>1. i \in DOMAIN s /\ c[i] = s[i]
        BY <1>1, <1>2, <3>1, <3>2
      <4> QED
        BY <3>1, <4>1 DEF Starts
    <3>3. CASE i > Len(s)
      <4>1. i - Len(s) \in DOMAIN t /\ i = Len(s) + (i - Len(s))
        BY <1>2, <3>1, <3>3
      <4>2. c[i] = t[i - Len(s)]
        BY <1>1, <1>2, <4>1
      <4> QED
        BY <3>1, <4>1, <4>2 DEF Starts
    <3> QED
      BY <1>2, <3>1, <3>2, <3>3
  <2>2. ASSUME NEW i \in Starts(s) PROVE i \in Starts(c)
    <3>1. i \in DOMAIN s /\ StartsChar(s[i])
      BY DEF Starts
    <3>2. i \in DOMAIN c /\ c[i] = s[i]
      BY <1>1, <1>2, <3>1
    <3> QED
      BY <3>1, <3>2 DEF Starts
  <2>3. ASSUME NEW j \in Starts(t) PROVE Len(s) + j \in Starts(c)
    <3>1. j \in DOMAIN t /\ StartsChar(t[j])
      BY DEF Starts
    <3>2. Len(s) + j \in DOMAIN c /\ c[Len(s) + j] = t[j]
      BY <1>1, <1>2, <3>1
    <3> QED
      BY <3>1, <3>2 DEF Starts
  <2> QED
    BY <2>1, <2>2, <2>3
<1>5. IsFiniteSet(later) /\ Cardinality(later) = Cardinality(Starts(t))
  <2> DEFINE f == [i \in Starts(t) |-> Len(s) + i]
  <2>1. Starts(t) \subseteq Nat
    BY <1>2 DEF Starts
  <2>2. f \in Bijection(Starts(t), later)
    BY <1>2, <2>1 DEF Bijection, Injection, Surjection, IsInjective
  <2> QED
    BY <1>3, <2>2, FS_Bijection DEF ExistsBijection
<1>6. Starts(s) \cap later = {}
  BY <1>2 DEF Starts
<1>7. Cardinality(Starts(s) \cup later) = Cardinality(Starts(s)) + Cardinality(later) - 0
  BY <1>3, <1>5, <1>6, FS_Union, FS_EmptySet
<1> QED
  BY <1>3, <1>4, <1>5, <1>7 DEF c

(* A character is a text of one.                                           *)
LEMMA Encoded ==
  ASSUME NEW c
  PROVE  Sound(Encode(c)) /\ Cardinality(Starts(Encode(c))) = 1
<1>1. CASE c \in Wide
  <2> DEFINE t == << <<c, 1>>, <<c, 2>> >>
  <2>1. Encode(c) = t
    BY <1>1 DEF Encode
  <2>2. t \in Seq({<<c, 1>>, <<c, 2>>}) /\ DOMAIN t = 1..2 /\ t[1] = <<c, 1>> /\ t[2] = <<c, 2>>
    OBVIOUS
  <2> HIDE DEF t
  <2>3. Starts(t) = {1}
    BY <2>2 DEF Starts, StartsChar
  <2>4. Intact(t)
    BY <1>1, <2>2 DEF Intact
  <2> QED
    BY <2>1, <2>2, <2>3, <2>4, FS_Singleton DEF Sound, Listed
<1>2. CASE ~(c \in Wide)
  <2> DEFINE t == << <<c, 1>> >>
  <2>1. Encode(c) = t
    BY <1>2 DEF Encode
  <2>2. t \in Seq({<<c, 1>>}) /\ DOMAIN t = 1..1 /\ t[1] = <<c, 1>>
    OBVIOUS
  <2> HIDE DEF t
  <2>3. Starts(t) = {1}
    BY <2>2 DEF Starts, StartsChar
  <2>4. Intact(t)
    BY <1>2, <2>2 DEF Intact
  <2> QED
    BY <2>1, <2>2, <2>3, <2>4, FS_Singleton DEF Sound, Listed
<1> QED
  BY <1>1, <1>2

(* What is typed or pasted is whole, and has as many characters.           *)
LEMMA TextWhole ==
  ASSUME NEW chars, Listed(chars)
  PROVE  Sound(Text(chars)) /\ Cardinality(Starts(Text(chars))) = Len(chars)
<1> DEFINE seqs == [i \in DOMAIN chars |-> Encode(chars[i])]
           n == Len(chars)
<1>1. n \in Nat /\ DOMAIN chars = 1..n
  BY ListedLen
<1>2. Len(seqs) = n /\ \A i \in 1..n : seqs[i] = Encode(chars[i])
  <2>1. seqs = [i \in 1..n |-> seqs[i]] /\ \A i \in 1..n : seqs[i] = Encode(chars[i])
    BY <1>1
  <2> HIDE DEF seqs, n
  <2> QED
    BY <1>1, <2>1, ListedFunction
<1>3. Text(chars) = FlattenSeq(seqs)
  BY DEF Text
<1> HIDE DEF seqs, n
<1>4. CASE n = 0
  <2>1. FlattenSeq(seqs) = seqs
    BY <1>2, <1>4, Zenon DEF FlattenSeq
  <2>2. DOMAIN seqs = 1..0 /\ seqs = [i \in 1..0 |-> seqs[i]]
    BY <1>1, <1>4 DEF seqs
  <2>3. Listed(seqs) /\ DOMAIN seqs = {}
    <3>1. 0 \in Nat /\ 1..0 = {}
      OBVIOUS
    <3> QED
      BY <2>2, <3>1, ListedFunction, Zenon
  <2>4. Starts(seqs) = {} /\ Intact(seqs)
    BY <2>3 DEF Starts, Intact
  <2> QED
    BY <1>3, <1>4, <2>1, <2>3, <2>4, FS_EmptySet DEF Sound, n
<1>5. CASE n # 0
  <2>1. PICK f : /\ f[1] = seqs[1]
                 /\ \A i \in 2..n : f[i] = f[i - 1] \o seqs[i]
                 /\ FlattenSeq(seqs) = f[n]
    <3>1. n \in Nat \ {0}
      BY <1>1, <1>5
    <3> QED
      BY <1>2, <3>1, FlattenSteps, Zenon
  <2> DEFINE Good(i) == Sound(f[i]) /\ Cardinality(Starts(f[i])) = i
             bad == {i \in 1..n : ~Good(i)}
  <2>2. bad = {}
    <3>1. SUFFICES ASSUME bad # {} PROVE FALSE
      OBVIOUS
    <3>2. bad \in SUBSET Nat
      BY <1>1
    <3>3. PICK i \in bad : \A j \in bad : i <= j
      BY <3>1, <3>2, LeastIndex
    <3>4. i \in 1..n /\ ~Good(i)
      BY <3>3
    <3>5. Sound(seqs[i]) /\ Cardinality(Starts(seqs[i])) = 1
      BY <1>2, <3>4, Encoded
    <3>6. CASE i = 1
      BY <2>1, <3>4, <3>5, <3>6
    <3>7. CASE i # 1
      <4>1. i - 1 \in 1..n /\ i \in 2..n /\ i \in Int
        BY <1>1, <3>4, <3>7
      <4>2. ~(i - 1 \in bad)
        <5> HIDE DEF bad
        <5> QED
          BY <3>3, <4>1
      <4>3. Good(i - 1)
        BY <4>1, <4>2
      <4>4. f[i] = f[i - 1] \o seqs[i]
        BY <2>1, <4>1
      <4>5. Sound(f[i])
        BY <3>5, <4>3, <4>4, JoinWhole
      <4>6. Cardinality(Starts(f[i])) = (i - 1) + 1
        <5>1. Listed(f[i - 1]) /\ Listed(seqs[i])
          BY <3>5, <4>3 DEF Sound
        <5> QED
          BY <3>5, <4>3, <4>4, <5>1, JoinCount
      <4> QED
        BY <3>4, <4>1, <4>5, <4>6
    <3> QED
      BY <3>6, <3>7
  <2>3. Good(n)
    BY <1>1, <1>5, <2>2
  <2> QED
    BY <1>3, <2>1, <2>3 DEF n
<1> QED
  BY <1>4, <1>5

-----------------------------------------------------------------------------
(* Numbers of characters that a field may have: any, or up to some limit.  *)
Room(Sizes) ==
  /\ Sizes \subseteq Nat /\ 0 \in Sizes
  /\ \A n \in Sizes : 0..n \subseteq Sizes

(* A field: a text of whole characters, as many as there may be, its caret *)
(* and its anchor between characters.                                      *)
IsField(e, Sizes) ==
  /\ e = [text |-> e.text, cursor |-> e.cursor, anchor |-> e.anchor]
  /\ Listed(e.text) /\ Sliceable(e)
  /\ Cardinality(Starts(e.text)) \in Sizes

(* Fewer characters than there may be may be, too.                         *)
LEMMA Fewer ==
  ASSUME NEW Sizes, Room(Sizes), NEW m \in Sizes, NEW n \in Nat, n <= m
  PROVE  n \in Sizes /\ m \in Nat
  BY DEF Room

(* A selection cuts a text into three, none of a character lost.           *)
LEMMA Pieces ==
  ASSUME NEW text, Sound(text), NEW p \in Nat, NEW q \in Nat, p <= q,
         {p, q} \subseteq Boundaries(text)
  PROVE  LET A == SubSeq(text, 1, p)
             S == SubSeq(text, p + 1, q)
             C == SubSeq(text, q + 1, Len(text))
         IN /\ Sound(A) /\ Sound(S) /\ Sound(C) /\ Len(A) = p
            /\ Cardinality(Starts(text)) = Cardinality(Starts(A)) + Cardinality(Starts(S))
                                             + Cardinality(Starts(C))
<1> DEFINE A == SubSeq(text, 1, p)
           S == SubSeq(text, p + 1, q)
           C == SubSeq(text, q + 1, Len(text))
<1>1. /\ {0, Len(text)} \subseteq Boundaries(text) /\ Len(text) \in Nat /\ q <= Len(text)
      /\ Listed(text)
  BY BoundaryEnds DEF Sound
<1>2. Sound(SubSeq(text, 0 + 1, p)) /\ Len(SubSeq(text, 0 + 1, p)) = p - 0
  <2>1. 0 \in Nat /\ 0 <= p /\ {0, p} \subseteq Boundaries(text)
    BY <1>1
  <2> QED
    BY <2>1, CutWhole
<1>3. Sound(A) /\ Len(A) = p
  <2>1. 0 + 1 = 1 /\ p - 0 = p
    OBVIOUS
  <2> QED
    BY <1>2, <2>1
<1>4. Sound(S) /\ Len(S) = q - p
  BY CutWhole
<1>5. Sound(C) /\ Len(C) = Len(text) - q
  <2>1. {q, Len(text)} \subseteq Boundaries(text)
    BY <1>1
  <2> QED
    BY <1>1, <2>1, CutWhole
<1>6. /\ \A i \in 1..p : A[i] = text[i]
      /\ \A i \in 1..(q - p) : S[i] = text[p + i]
      /\ \A i \in 1..(Len(text) - q) : C[i] = text[q + i]
  <2>1. \A i \in 1..(p - 0) : SubSeq(text, 0 + 1, p)[i] = text[0 + i]
    <3>1. 0 \in Nat /\ 0 <= p /\ p <= Len(text)
      BY <1>1
    <3> HIDE DEF A
    <3> QED
      BY <1>1, <3>1, Cut
  <2>2. \A i \in 1..p : A[i] = text[i]
    <3>1. \A i \in 1..p : 0 + i = i
      OBVIOUS
    <3>2. 0 + 1 = 1 /\ p - 0 = p
      OBVIOUS
    <3> QED
      BY <2>1, <3>1, <3>2
  <2>3. \A i \in 1..(q - p) : S[i] = text[p + i]
    BY <1>1, Cut
  <2>4. \A i \in 1..(Len(text) - q) : C[i] = text[q + i]
    BY <1>1, Cut
  <2> QED
    BY <2>2, <2>3, <2>4
<1> HIDE DEF A, S, C
<1>7. /\ Listed(A \o S) /\ Len(A \o S) = q
      /\ \A i \in 1..q : (A \o S)[i] = text[i]
  <2>1. /\ Listed(A \o S) /\ Len(A \o S) = Len(A) + Len(S)
        /\ \A i \in 1..Len(A) : (A \o S)[i] = A[i]
        /\ \A i \in 1..Len(S) : (A \o S)[Len(A) + i] = S[i]
    BY <1>3, <1>4, Joined DEF Sound
  <2>3. /\ \A i \in 1..p : (A \o S)[i] = A[i]
        /\ \A i \in 1..(q - p) : (A \o S)[p + i] = S[i]
    BY <1>3, <1>4, <2>1
  <2>2. ASSUME NEW i \in 1..q PROVE (A \o S)[i] = text[i]
    <3>0. i \in Int /\ 1 <= i /\ i <= q
      OBVIOUS
    <3>1. CASE i <= p
      <4>1. i \in 1..p
        BY <3>0, <3>1
      <4> QED
        BY <1>6, <2>3, <4>1
    <3>2. CASE i > p
      <4>1. i - p \in 1..(q - p) /\ p + (i - p) = i
        BY <3>0, <3>2
      <4>2. (A \o S)[p + (i - p)] = S[i - p] /\ S[i - p] = text[p + (i - p)]
        BY <1>6, <2>3, <4>1
      <4> QED
        BY <4>1, <4>2
    <3>3. i <= p \/ i > p
      BY <3>0
    <3> QED
      BY <3>1, <3>2, <3>3, Zenon
  <2> QED
    BY <1>3, <1>4, <2>1, <2>2
<1>8. text = (A \o S) \o C
  <2> DEFINE B == A \o S
             w == B \o C
  <2>1. /\ Listed(w) /\ Len(w) = Len(text)
        /\ \A i \in 1..q : w[i] = B[i]
        /\ \A i \in 1..(Len(text) - q) : w[q + i] = C[i]
    <3>1. /\ Listed(w) /\ Len(w) = Len(B) + Len(C)
          /\ \A i \in 1..Len(B) : w[i] = B[i]
          /\ \A i \in 1..Len(C) : w[Len(B) + i] = C[i]
      <4>1. Listed(B) /\ Listed(C)
        BY <1>5, <1>7 DEF Sound
      <4> HIDE DEF B
      <4> QED
        BY <4>1, Joined
    <3>2. Len(B) = q /\ Len(C) = Len(text) - q /\ Len(text) \in Nat /\ q <= Len(text)
      BY <1>1, <1>5, <1>7
    <3> HIDE DEF w, B
    <3> QED
      BY <3>1, <3>2
  <2> HIDE DEF w, B
  <2>2. ASSUME NEW i \in 1..Len(text) PROVE w[i] = text[i]
    <3>1. CASE i <= q
      BY <1>7, <2>1, <3>1 DEF B
    <3>2. CASE i > q
      <4>1. i - q \in 1..(Len(text) - q) /\ q + (i - q) = i
        BY <1>1, <3>2
      <4> QED
        BY <1>6, <2>1, <4>1
    <3> QED
      BY <1>1, <3>1, <3>2
  <2>3. w = [i \in 1..Len(text) |-> w[i]] /\ text = [i \in 1..Len(text) |-> text[i]]
    BY <1>1, <2>1, ListedLen, Zenon
  <2>4. w = text
    BY <2>2, <2>3
  <2> QED
    BY <2>4 DEF w, B
<1>9. /\ Cardinality(Starts((A \o S) \o C))
           = Cardinality(Starts(A \o S)) + Cardinality(Starts(C))
      /\ Cardinality(Starts(A \o S)) = Cardinality(Starts(A)) + Cardinality(Starts(S))
  BY <1>3, <1>4, <1>5, <1>7, JoinCount DEF Sound
<1> QED
  BY <1>3, <1>4, <1>5, <1>8, <1>9 DEF A, S, C

(* A selection has no more characters than the text.                       *)
LEMMA PieceCount ==
  ASSUME NEW text, Sound(text), NEW p \in Nat, NEW q \in Nat, p <= q,
         {p, q} \subseteq Boundaries(text)
  PROVE  LET n == Cardinality(Starts(SubSeq(text, p + 1, q)))
         IN n \in Nat /\ Cardinality(Starts(text)) - n \in Nat
<1> DEFINE A == SubSeq(text, 1, p)
           S == SubSeq(text, p + 1, q)
           C == SubSeq(text, q + 1, Len(text))
<1>1. /\ Sound(A) /\ Sound(S) /\ Sound(C)
      /\ Cardinality(Starts(text)) = Cardinality(Starts(A)) + Cardinality(Starts(S))
                                       + Cardinality(Starts(C))
  BY Pieces
<1> HIDE DEF A, S, C
<1>2. /\ Cardinality(Starts(A)) \in Nat /\ Cardinality(Starts(S)) \in Nat
      /\ Cardinality(Starts(C)) \in Nat
  BY <1>1, CharsCounted DEF Sound
<1>3. Cardinality(Starts(S)) \in Nat /\ Cardinality(Starts(text)) - Cardinality(Starts(S)) \in Nat
  BY <1>1, <1>2
<1> QED
  BY <1>3 DEF S

(* A selection is replaced, where there is room.                           *)
LEMMA Replaced ==
  ASSUME NEW e, NEW bytes, Sound(e.text), Sound(bytes), NEW Sizes,
         NEW p \in Nat, NEW q \in Nat, p <= q, {p, q} \subseteq Boundaries(e.text),
         Cardinality(Starts(e.text)) - Cardinality(Starts(SubSeq(e.text, p + 1, q)))
           + Cardinality(Starts(bytes)) \in Sizes
  PROVE  IsField(ReplaceRange(e, p, q, bytes), Sizes)
<1> DEFINE A == SubSeq(e.text, 1, p)
           S == SubSeq(e.text, p + 1, q)
           C == SubSeq(e.text, q + 1, Len(e.text))
           r == ReplaceRange(e, p, q, bytes)
<1>1. /\ Sound(A) /\ Sound(S) /\ Sound(C) /\ Len(A) = p
      /\ Cardinality(Starts(e.text)) = Cardinality(Starts(A)) + Cardinality(Starts(S))
                                         + Cardinality(Starts(C))
  BY Pieces
<1>2. r = [text |-> A \o bytes \o C, cursor |-> p + Len(bytes), anchor |-> NoAnchor]
  BY DEF ReplaceRange
<1>3. Cardinality(Starts(e.text)) - Cardinality(Starts(S)) + Cardinality(Starts(bytes)) \in Sizes
  OBVIOUS
<1> HIDE DEF A, S, C, r
<1>4. Sound(A \o bytes) /\ Len(A \o bytes) = p + Len(bytes)
  BY <1>1, JoinWhole
<1>5. Sound(A \o bytes \o C) /\ p + Len(bytes) \in Boundaries(A \o bytes \o C)
  BY <1>1, <1>4, JoinWhole
<1>6. Cardinality(Starts(A \o bytes \o C))
        = Cardinality(Starts(A)) + Cardinality(Starts(bytes)) + Cardinality(Starts(C))
  <2>1. Listed(A) /\ Listed(bytes) /\ Listed(C) /\ Listed(A \o bytes)
    BY <1>1, <1>4 DEF Sound
  <2>2. /\ Cardinality(Starts(A \o bytes \o C))
             = Cardinality(Starts(A \o bytes)) + Cardinality(Starts(C))
        /\ Cardinality(Starts(A \o bytes)) = Cardinality(Starts(A)) + Cardinality(Starts(bytes))
    BY <2>1, JoinCount
  <2> QED
    BY <2>2
<1>7. /\ Cardinality(Starts(A)) \in Nat /\ Cardinality(Starts(S)) \in Nat
      /\ Cardinality(Starts(C)) \in Nat /\ Cardinality(Starts(bytes)) \in Nat
  BY <1>1, CharsCounted DEF Sound
<1>8. Cardinality(Starts(A \o bytes \o C)) \in Sizes
  BY <1>1, <1>3, <1>6, <1>7
<1>9. /\ r = [text |-> r.text, cursor |-> r.cursor, anchor |-> r.anchor]
      /\ r.text = A \o bytes \o C /\ r.cursor = p + Len(bytes) /\ r.anchor = NoAnchor
  BY <1>2
<1> QED
  BY <1>5, <1>8, <1>9, Zenon DEF IsField, Sliceable, Sound, r

(* What a field is made of.                                                *)
LEMMA FieldIs ==
  ASSUME NEW e, NEW Sizes, Room(Sizes), IsField(e, Sizes)
  PROVE  /\ Sound(e.text) /\ Len(e.text) \in Nat
         /\ Boundaries(e.text) \subseteq 0..Len(e.text)
         /\ {0, Len(e.text), e.cursor} \subseteq Boundaries(e.text)
         /\ e.anchor \in Boundaries(e.text) \cup {NoAnchor}
         /\ Cardinality(Starts(e.text)) \in Nat /\ Cardinality(Starts(e.text)) \in Sizes
<1>1. Sound(e.text)
  BY DEF IsField, Sliceable, Sound
<1> QED
  BY <1>1, BoundaryEnds, CharsCounted DEF IsField, Sliceable, Sound

(* A selection begins and ends between characters.                         *)
LEMMA Selection ==
  ASSUME NEW e, NEW Sizes, Room(Sizes), IsField(e, Sizes)
  PROVE  /\ SelectionStart(e) \in Boundaries(e.text) /\ SelectionEnd(e) \in Boundaries(e.text)
         /\ SelectionStart(e) \in Nat /\ SelectionEnd(e) \in Nat
         /\ SelectionStart(e) <= SelectionEnd(e)
<1>1. /\ Boundaries(e.text) \subseteq Nat
      /\ e.cursor \in Boundaries(e.text) /\ e.anchor \in Boundaries(e.text) \cup {NoAnchor}
  BY FieldIs
<1> QED
  BY <1>1 DEF SelectionStart, SelectionEnd

(* The caret is moved to or just before some byte.                         *)
LEMMA Moved ==
  ASSUME NEW e, NEW Sizes, Room(Sizes), IsField(e, Sizes), NEW target \in Nat, NEW selecting
  PROVE  IsField(MoveTo(e, target, selecting), Sizes)
<1> DEFINE reach == {p \in Boundaries(e.text) : p <= target}
           at == Max(reach)
           r == MoveTo(e, target, selecting)
<1>1. /\ Len(e.text) \in Nat /\ Boundaries(e.text) \subseteq 0..Len(e.text)
      /\ {0, Len(e.text), e.cursor} \subseteq Boundaries(e.text)
      /\ e.anchor \in Boundaries(e.text) \cup {NoAnchor}
  BY FieldIs
<1>2. reach # {} /\ reach \in SUBSET (0..Len(e.text))
  BY <1>1
<1>3. at \in Boundaries(e.text)
  <2> HIDE DEF reach
  <2>1. at \in reach
    BY <1>1, <1>2, MaxIn
  <2> QED
    BY <2>1 DEF reach
<1> HIDE DEF at
<1>4. r = [e EXCEPT !.cursor = at,
                    !.anchor = IF ~selecting THEN NoAnchor
                               ELSE IF @ = NoAnchor THEN e.cursor ELSE @]
  BY DEF MoveTo, at
<1> HIDE DEF r
<1>5. e = [text |-> e.text, cursor |-> e.cursor, anchor |-> e.anchor]
  BY DEF IsField
<1>6. /\ r = [text |-> r.text, cursor |-> r.cursor, anchor |-> r.anchor]
      /\ r.text = e.text /\ r.cursor = at
      /\ r.anchor \in {NoAnchor, e.cursor, e.anchor}
  BY <1>4, <1>5
<1>7. r.anchor \in Boundaries(e.text) \cup {NoAnchor}
  BY <1>1, <1>6
<1> QED
  BY <1>3, <1>6, <1>7 DEF IsField, Sliceable, r

(* Where a caret goes by a character or a word is between characters, and  *)
(* on the side of the key.                                                 *)
LEMMA Before ==
  ASSUME NEW e, NEW Sizes, Room(Sizes), IsField(e, Sizes), NEW byWord
  PROVE  LET p == IF byWord THEN PrevWord(e) ELSE PrevChar(e)
         IN p \in Boundaries(e.text) /\ p \in Nat /\ p <= e.cursor
<1>1. /\ Len(e.text) \in Nat /\ Boundaries(e.text) \subseteq 0..Len(e.text)
      /\ {0, Len(e.text), e.cursor} \subseteq Boundaries(e.text)
  BY FieldIs
<1>2. PrevChar(e) \in Boundaries(e.text) /\ PrevChar(e) <= e.cursor
  <2> DEFINE S == {0} \cup {p \in Boundaries(e.text) : p < e.cursor}
  <2>1. S # {} /\ S \in SUBSET (0..Len(e.text))
    BY <1>1
  <2>2. \A p \in S : p \in Boundaries(e.text) /\ p <= e.cursor
    BY <1>1
  <2>3. PrevChar(e) = Max(S)
    BY DEF PrevChar
  <2> HIDE DEF S
  <2> QED
    BY <1>1, <2>1, <2>2, <2>3, MaxIn
<1>3. PrevWord(e) \in Boundaries(e.text) /\ PrevWord(e) <= e.cursor
  <2> DEFINE Crossed(p) == ~\E i, j \in p + 1..e.cursor :
                              i < j /\ Blank(e.text[i]) /\ ~Blank(e.text[j])
             S == {p \in Boundaries(e.text) : p <= e.cursor /\ Crossed(p)}
  <2>1. Crossed(e.cursor) /\ e.cursor <= e.cursor
    BY <1>1
  <2>2. S \in SUBSET Nat /\ e.cursor \in S
    <3> HIDE DEF Crossed
    <3> QED
      BY <1>1, <2>1
  <2>3. \A p \in S : p \in Boundaries(e.text) /\ p <= e.cursor
    OBVIOUS
  <2>4. PrevWord(e) = Min(S)
    BY DEF PrevWord
  <2> HIDE DEF S
  <2>5. S # {}
    BY <2>2
  <2> QED
    BY <2>2, <2>3, <2>4, <2>5, MinIn
<1> QED
  BY <1>1, <1>2, <1>3

(* To the right.                                                           *)
LEMMA Behind ==
  ASSUME NEW e, NEW Sizes, Room(Sizes), IsField(e, Sizes), NEW byWord
  PROVE  LET p == IF byWord THEN NextWord(e) ELSE NextChar(e)
         IN p \in Boundaries(e.text) /\ p \in Nat /\ e.cursor <= p
<1>1. /\ Len(e.text) \in Nat /\ Boundaries(e.text) \subseteq 0..Len(e.text)
      /\ {0, Len(e.text), e.cursor} \subseteq Boundaries(e.text)
  BY FieldIs
<1>2. NextChar(e) \in Boundaries(e.text) /\ NextChar(e) >= e.cursor
  <2> DEFINE S == {Len(e.text)} \cup {p \in Boundaries(e.text) : p > e.cursor}
  <2>1. S # {} /\ S \in SUBSET Nat
    BY <1>1
  <2>2. \A p \in S : p \in Boundaries(e.text) /\ p >= e.cursor
    BY <1>1
  <2>3. NextChar(e) = Min(S)
    BY DEF NextChar
  <2> HIDE DEF S
  <2> QED
    BY <2>1, <2>2, <2>3, MinIn
<1>3. NextWord(e) \in Boundaries(e.text) /\ NextWord(e) >= e.cursor
  <2> DEFINE Crossed(p) == ~\E i, j \in e.cursor + 1..p :
                              i < j /\ ~Blank(e.text[i]) /\ Blank(e.text[j])
             S == {p \in Boundaries(e.text) : p >= e.cursor /\ Crossed(p)}
  <2>1. Crossed(e.cursor) /\ e.cursor >= e.cursor
    BY <1>1
  <2>2. S \in SUBSET (0..Len(e.text)) /\ e.cursor \in S
    <3> HIDE DEF Crossed
    <3> QED
      BY <1>1, <2>1
  <2>3. \A p \in S : p \in Boundaries(e.text) /\ p >= e.cursor
    OBVIOUS
  <2>4. NextWord(e) = Max(S)
    BY DEF NextWord
  <2> HIDE DEF S
  <2>5. S # {}
    BY <2>2
  <2> QED
    BY <1>1, <2>2, <2>3, <2>4, <2>5, MaxIn
<1> QED
  BY <1>1, <1>2, <1>3

(* What is between two carets is deleted.                                  *)
LEMMA Deleted ==
  ASSUME NEW e, NEW Sizes, Room(Sizes), IsField(e, Sizes),
         NEW p \in Nat, NEW q \in Nat, p <= q, {p, q} \subseteq Boundaries(e.text)
  PROVE  IsField(DeleteRange(e, p, q), Sizes)
<1>1. Sound(e.text) /\ Cardinality(Starts(e.text)) \in Nat /\ Cardinality(Starts(e.text)) \in Sizes
  BY FieldIs
<1>2. Sound(<<>>) /\ Cardinality(Starts(<<>>)) = 0
  <2> DEFINE s == <<>>
  <2>1. DOMAIN s = {} /\ s \in Seq({})
    OBVIOUS
  <2> HIDE DEF s
  <2>2. Starts(s) = {} /\ Intact(s) /\ Listed(s)
    BY <2>1 DEF Starts, Intact, Listed
  <2> QED
    BY <2>2, FS_EmptySet DEF Sound, s
<1> DEFINE n == Cardinality(Starts(SubSeq(e.text, p + 1, q)))
<1>3. n \in Nat /\ Cardinality(Starts(e.text)) - n \in Nat
  BY <1>1, PieceCount
<1> HIDE DEF n
<1>4. Cardinality(Starts(e.text)) - n + Cardinality(Starts(<<>>)) \in Sizes
  <2>1. /\ Cardinality(Starts(e.text)) - n + Cardinality(Starts(<<>>)) \in Nat
        /\ Cardinality(Starts(e.text)) - n + Cardinality(Starts(<<>>))
             <= Cardinality(Starts(e.text))
    BY <1>1, <1>2, <1>3
  <2> QED
    BY <1>1, <2>1, Fewer
<1>5. IsField(ReplaceRange(e, p, q, <<>>), Sizes)
  BY <1>1, <1>2, <1>4, Replaced DEF n
<1> QED
  BY <1>5 DEF DeleteRange

(* Characters are inserted, as many as there is room for.                  *)
LEMMA Inserted ==
  ASSUME NEW e, NEW Sizes, Room(Sizes), IsField(e, Sizes), NEW max \in Sizes,
         NEW chars, Listed(chars)
  PROVE  IsField(InsertFiltered(e, chars, max), Sizes)
<1> DEFINE p == SelectionStart(e)
           q == SelectionEnd(e)
           room == max - (Len(Chars(e.text)) - Len(Chars(SelectedText(e))))
           n == Min({Len(chars), Max({room, 0})})
           taken == SubSeq(chars, 1, n)
<1>1. Sound(e.text) /\ Cardinality(Starts(e.text)) \in Nat /\ Cardinality(Starts(e.text)) \in Sizes
  BY FieldIs
<1>2. p \in Nat /\ q \in Nat /\ p <= q /\ {p, q} \subseteq Boundaries(e.text)
  BY Selection
<1> HIDE DEF p, q
<1>3. /\ SelectedText(e) = SubSeq(e.text, p + 1, q) /\ Sound(SelectedText(e))
      /\ Cardinality(Starts(SelectedText(e))) \in Nat
  <2>1. SelectedText(e) = SubSeq(e.text, p + 1, q)
    BY DEF SelectedText, p, q
  <2>2. Sound(SubSeq(e.text, p + 1, q))
    BY <1>1, <1>2, CutWhole
  <2> QED
    BY <2>1, <2>2, CharsCounted DEF Sound
<1>4. room = max - (Cardinality(Starts(e.text)) - Cardinality(Starts(SelectedText(e))))
  BY <1>1, <1>3, CharsCounted DEF Sound
<1>5. room \in Int /\ Len(chars) \in Nat /\ max \in Nat
  <2>1. max \in Nat
    BY DEF Room
  <2> HIDE DEF room
  <2> QED
    BY <1>1, <1>3, <1>4, <2>1, ListedLen
<1> HIDE DEF room
<1>6. n \in Nat /\ n <= Len(chars) /\ (n > 0 => n <= room)
  <2>1. Max({room, 0}) = IF room > 0 THEN room ELSE 0
    <3> DEFINE m == IF room > 0 THEN room ELSE 0
    <3>1. m \in {room, 0} /\ \A y \in {room, 0} : m >= y
      BY <1>5
    <3>2. ASSUME NEW x \in {room, 0}, \A y \in {room, 0} : x >= y PROVE x = m
      BY <1>5, <3>1, <3>2
    <3> HIDE DEF m
    <3> QED
      BY <3>1, <3>2, Zenon DEF Max, m
  <2> DEFINE m == Max({room, 0})
  <2>2. m \in Nat /\ (m > 0 => m <= room)
    BY <1>5, <2>1
  <2> HIDE DEF m
  <2>3. {Len(chars), m} \in SUBSET Nat /\ {Len(chars), m} # {}
    BY <1>5, <2>2
  <2>4. n \in {Len(chars), m} /\ \A i \in {Len(chars), m} : n <= i
    BY <2>3, MinIn DEF m
  <2> HIDE DEF n
  <2> QED
    BY <1>5, <2>2, <2>4
<1> HIDE DEF n
<1>7. Listed(taken) /\ Len(taken) = n
  <2>1. LET c == SubSeq(chars, 0 + 1, n) IN Listed(c) /\ Len(c) = n - 0
    <3>1. 0 \in Nat /\ 0 <= n
      BY <1>6
    <3> QED
      BY <1>5, <1>6, <3>1, Cut
  <2>2. 0 + 1 = 1 /\ n - 0 = n
    BY <1>6
  <2> QED
    BY <2>1, <2>2
<1> HIDE DEF taken
<1>8. InsertFiltered(e, chars, max)
        = IF taken = <<>> THEN e ELSE ReplaceRange(e, p, q, Text(taken))
  BY Zenon DEF InsertFiltered, taken, n, room, p, q
<1>9. CASE taken = <<>>
  BY <1>8, <1>9
<1>10. CASE taken # <<>>
  <2>1. n > 0
    <3>1. SUFFICES ASSUME n = 0 PROVE FALSE
      BY <1>6
    <3>2. PICK S : taken \in Seq(S)
      BY <1>7 DEF Listed
    <3> QED
      BY <1>7, <1>10, <3>1, <3>2
  <2>2. Sound(Text(taken)) /\ Cardinality(Starts(Text(taken))) = n
    BY <1>7, TextWhole
  <2> DEFINE kept == Cardinality(Starts(e.text)) - Cardinality(Starts(SubSeq(e.text, p + 1, q)))
  <2>5. kept \in Nat /\ room = max - kept
    BY <1>1, <1>2, <1>3, <1>4, PieceCount
  <2> HIDE DEF kept
  <2>6. kept + n \in Nat /\ kept + n <= max
    BY <1>5, <1>6, <2>1, <2>5
  <2>7. kept + Cardinality(Starts(Text(taken))) \in Sizes
    BY <2>2, <2>6, Fewer
  <2>3. Cardinality(Starts(e.text)) - Cardinality(Starts(SubSeq(e.text, p + 1, q)))
          + Cardinality(Starts(Text(taken))) \in Sizes
    BY <2>7 DEF kept
  <2>4. IsField(ReplaceRange(e, p, q, Text(taken)), Sizes)
    BY <1>1, <1>2, <2>2, <2>3, Replaced
  <2> QED
    BY <1>8, <1>10, <2>4
<1> QED
  BY <1>9, <1>10

(* Whatever key is pressed, with whatever on the clipboard, the field is   *)
(* still one.                                                              *)
LEMMA KeyKeepsField ==
  ASSUME NEW e, NEW Sizes, Room(Sizes), IsField(e, Sizes), NEW max \in Sizes,
         NEW k, Listed(k.chars), NEW clipboard, Listed(clipboard)
  PROVE  IsField(HandleTextKey(e, k, max, clipboard), Sizes)
<1> DEFINE Ok(r) == IsField(r, Sizes)
<1>1. Ok(e) /\ Ok(InsertFiltered(e, clipboard, max)) /\ Ok(InsertFiltered(e, k.chars, max))
  BY Inserted
<1>2. Ok(SelectAll(e))
  <2> DEFINE r == [e EXCEPT !.cursor = Len(e.text), !.anchor = 0]
  <2>1. e = [text |-> e.text, cursor |-> e.cursor, anchor |-> e.anchor]
    BY DEF IsField
  <2>6. r = [e EXCEPT !.cursor = Len(e.text), !.anchor = 0]
    OBVIOUS
  <2> HIDE DEF r
  <2>2. /\ r = [text |-> r.text, cursor |-> r.cursor, anchor |-> r.anchor]
        /\ r.text = e.text /\ r.cursor = Len(e.text) /\ r.anchor = 0
    BY <2>1, <2>6
  <2>3. {0, Len(e.text)} \subseteq Boundaries(e.text)
    BY FieldIs
  <2>4. Ok(r)
    BY <2>2, <2>3 DEF IsField, Sliceable
  <2>5. SelectAll(e) \in {e, r}
    BY DEF SelectAll, r
  <2> QED
    BY <1>1, <2>4, <2>5
<1>3. Ok(DeleteSelection(e))
  <2>1. /\ SelectionStart(e) \in Nat /\ SelectionEnd(e) \in Nat
        /\ SelectionStart(e) <= SelectionEnd(e)
        /\ {SelectionStart(e), SelectionEnd(e)} \subseteq Boundaries(e.text)
    BY Selection
  <2> QED
    BY <2>1, Deleted DEF DeleteSelection
<1>4. ASSUME NEW byWord
      PROVE  Ok(DeleteBackward(e, byWord)) /\ Ok(DeleteForward(e, byWord))
  <2> DEFINE p == IF byWord THEN PrevWord(e) ELSE PrevChar(e)
             q == IF byWord THEN NextWord(e) ELSE NextChar(e)
  <2>1. p \in Boundaries(e.text) /\ p \in Nat /\ p <= e.cursor
    BY Before
  <2>2. q \in Boundaries(e.text) /\ q \in Nat /\ e.cursor <= q
    BY Behind
  <2>3. DeleteBackward(e, byWord) \in {DeleteSelection(e), DeleteRange(e, p, e.cursor)}
    BY DEF DeleteBackward
  <2>4. DeleteForward(e, byWord) \in {DeleteSelection(e), DeleteRange(e, e.cursor, q)}
    BY DEF DeleteForward
  <2>5. e.cursor \in Boundaries(e.text) /\ e.cursor \in Nat
    BY FieldIs
  <2> HIDE DEF p, q
  <2>6. Ok(DeleteRange(e, p, e.cursor)) /\ Ok(DeleteRange(e, e.cursor, q))
    BY <2>1, <2>2, <2>5, Deleted
  <2> QED
    BY <1>3, <2>3, <2>4, <2>6
<1>5. ASSUME NEW byWord, NEW selecting
      PROVE  Ok(MoveLeft(e, selecting, byWord)) /\ Ok(MoveRight(e, selecting, byWord))
  <2> DEFINE p == IF byWord THEN PrevWord(e) ELSE PrevChar(e)
             q == IF byWord THEN NextWord(e) ELSE NextChar(e)
  <2>1. p \in Nat /\ q \in Nat
    BY Before, Behind
  <2>2. MoveLeft(e, selecting, byWord)
          \in {MoveTo(e, SelectionStart(e), FALSE), MoveTo(e, p, selecting)}
    BY DEF MoveLeft
  <2>3. MoveRight(e, selecting, byWord)
          \in {MoveTo(e, SelectionEnd(e), FALSE), MoveTo(e, q, selecting)}
    BY DEF MoveRight
  <2> HIDE DEF p, q
  <2>4. /\ Ok(MoveTo(e, SelectionStart(e), FALSE)) /\ Ok(MoveTo(e, p, selecting))
        /\ Ok(MoveTo(e, SelectionEnd(e), FALSE)) /\ Ok(MoveTo(e, q, selecting))
    BY <2>1, Selection, Moved
  <2> QED
    BY <2>2, <2>3, <2>4
<1>6. Ok(MoveTo(e, 0, k.shift)) /\ Ok(MoveTo(e, Len(e.text), k.shift))
  BY FieldIs, Moved
<1>7. \/ HandleTextKey(e, k, max, clipboard) = e
      \/ HandleTextKey(e, k, max, clipboard) = SelectAll(e)
      \/ HandleTextKey(e, k, max, clipboard) = InsertFiltered(e, clipboard, max)
      \/ HandleTextKey(e, k, max, clipboard) = InsertFiltered(e, k.chars, max)
      \/ \E w : HandleTextKey(e, k, max, clipboard) \in {DeleteBackward(e, w), DeleteForward(e, w)}
      \/ \E w, sel : HandleTextKey(e, k, max, clipboard)
                       \in {MoveLeft(e, sel, w), MoveRight(e, sel, w)}
      \/ HandleTextKey(e, k, max, clipboard) = MoveTo(e, 0, k.shift)
      \/ HandleTextKey(e, k, max, clipboard) = MoveTo(e, Len(e.text), k.shift)
  BY DEF HandleTextKey
<1> HIDE DEF Ok
<1> QED
  BY <1>1, <1>2, <1>4, <1>5, <1>6, <1>7 DEF Ok

(* What is cut or copied is a list of characters.                          *)
LEMMA KeyKeepsClipboard ==
  ASSUME NEW e, NEW Sizes, Room(Sizes), IsField(e, Sizes), NEW k, NEW clipboard, Listed(clipboard)
  PROVE  Listed(Clipped(e, k, clipboard))
<1>1. Sound(SelectedText(e))
  <2>1. /\ SelectionStart(e) \in Nat /\ SelectionEnd(e) \in Nat
        /\ SelectionStart(e) <= SelectionEnd(e)
        /\ {SelectionStart(e), SelectionEnd(e)} \subseteq Boundaries(e.text)
    BY Selection
  <2> QED
    BY <2>1, FieldIs, CutWhole DEF SelectedText
<1> QED
  BY <1>1, CharsCounted DEF Clipped, Sound

(* A name as it is kept: nothing, or a text that a field can show.         *)
IsName(text, Sizes) == Sound(text) /\ Cardinality(Starts(text)) \in Sizes

(* A name is put into a field.                                             *)
LEMMA FieldOfName ==
  ASSUME NEW text, NEW Sizes, Room(Sizes), IsName(text, Sizes)
  PROVE  IsField(Field(text), Sizes)
<1> DEFINE e == Field(text)
<1>1. /\ e = [text |-> e.text, cursor |-> e.cursor, anchor |-> e.anchor]
      /\ e.text = text /\ e.cursor = Len(text) /\ e.anchor = NoAnchor
  BY DEF Field
<1>2. Len(text) \in Boundaries(text)
  BY BoundaryEnds DEF IsName
<1> HIDE DEF e
<1> QED
  BY <1>1, <1>2 DEF IsField, IsName, Sliceable, Sound, e

(* Blanks are characters: without those at its ends a name is still one.   *)
LEMMA TrimmedName ==
  ASSUME NEW text, NEW Sizes, Room(Sizes), IsName(text, Sizes)
  PROVE  IsName(Trimmed(text), Sizes)
<1> DEFINE kept == {i \in DOMAIN text : ~Blank(text[i])}
<1>1. /\ Len(text) \in Nat /\ DOMAIN text = 1..Len(text) /\ Listed(text) /\ Sound(text)
      /\ Cardinality(Starts(text)) \in Nat /\ Cardinality(Starts(text)) \in Sizes
  BY ListedLen, CharsCounted DEF IsName, Sound
<1>2. CASE kept = {}
  <2> DEFINE s == <<>>
  <2>1. DOMAIN s = {} /\ s \in Seq({})
    OBVIOUS
  <2>0. Trimmed(text) = s
    BY <1>2 DEF Trimmed
  <2> HIDE DEF s
  <2>2. Starts(s) = {} /\ Intact(s) /\ Listed(s)
    BY <2>1 DEF Starts, Intact, Listed
  <2> QED
    BY <2>0, <2>2, FS_EmptySet DEF Sound, IsName, Room
<1>3. CASE kept # {}
  <2> DEFINE i == Min(kept)
             j == Max(kept)
  <2>0. Trimmed(text) = SubSeq(text, i, j)
    BY <1>3 DEF Trimmed
  <2>1. i \in kept /\ j \in kept /\ \A l \in kept : i <= l /\ l <= j
    <3>1. kept \in SUBSET Nat /\ kept \in SUBSET (0..Len(text))
      BY <1>1
    <3> HIDE DEF kept
    <3> QED
      BY <1>1, <1>3, <3>1, MinIn, MaxIn
  <2> HIDE DEF i, j
  <2>2. /\ i \in 1..Len(text) /\ j \in 1..Len(text) /\ i <= j
        /\ ~Blank(text[i]) /\ ~Blank(text[j])
        /\ \A l \in DOMAIN text : ~Blank(text[l]) => i <= l /\ l <= j
    BY <1>1, <2>1
  <2>3. \A l \in DOMAIN text : LET c == text[l][1] IN
          \/ /\ text[l] = <<c, 1>>
             /\ c \in Wide => l + 1 \in DOMAIN text /\ text[l + 1] = <<c, 2>>
          \/ /\ c \in Wide /\ text[l] = <<c, 2>>
             /\ l - 1 \in DOMAIN text /\ text[l - 1] = <<c, 1>>
    BY <1>1 DEF Sound, Intact
  <2>4. StartsChar(text[i])
    <3>1. SUFFICES ASSUME ~StartsChar(text[i]) PROVE FALSE
      OBVIOUS
    <3>2. i - 1 \in DOMAIN text /\ text[i - 1][1] = text[i][1]
      BY <1>1, <2>2, <2>3, <3>1 DEF StartsChar
    <3>3. ~Blank(text[i - 1])
      BY <2>2, <3>2 DEF Blank
    <3>4. i <= i - 1
      BY <2>2, <3>2, <3>3
    <3> QED
      BY <2>2, <3>4
  <2>5. j = Len(text) \/ StartsChar(text[j + 1])
    <3>1. SUFFICES ASSUME j # Len(text), ~StartsChar(text[j + 1]) PROVE FALSE
      OBVIOUS
    <3>0. j \in 1..Len(text) /\ j # Len(text) /\ Len(text) \in Nat
      BY <1>1, <2>2, <3>1
    <3>1a. j + 1 \in 1..Len(text) /\ (j + 1) - 1 = j
      BY <3>0
    <3>2. j + 1 \in DOMAIN text /\ (j + 1) - 1 = j
      BY <1>1, <3>1a, Zenon
    <3>3. text[j][1] = text[j + 1][1]
      <4>1. PICK m : m = j + 1
        OBVIOUS
      <4>2. m - 1 = j /\ m \in DOMAIN text /\ ~StartsChar(text[m])
        BY <3>1, <3>2, <4>1
      <4>3. text[m - 1][1] = text[m][1]
        BY <2>3, <4>2 DEF StartsChar
      <4> QED
        BY <4>1, <4>2, <4>3
    <3>4. ~Blank(text[j + 1])
      BY <2>2, <3>3 DEF Blank
    <3>5. j + 1 <= j
      BY <2>2, <3>2, <3>4
    <3> QED
      BY <2>2, <3>5
  <2>6. i - 1 \in Nat /\ j \in Nat /\ i - 1 <= j /\ (i - 1) + 1 = i
    BY <2>2
  <2>7. {i - 1, j} \subseteq Boundaries(text)
    <3>1. i - 1 \in 0..Len(text) /\ j \in 0..Len(text)
      BY <1>1, <2>2
    <3> QED
      BY <2>4, <2>5, <2>6, <3>1 DEF Boundaries
  <2> DEFINE S == SubSeq(text, (i - 1) + 1, j)
  <2>8. /\ Sound(S)
        /\ \E A, C : /\ Sound(A) /\ Sound(C)
                     /\ Cardinality(Starts(text)) = Cardinality(Starts(A))
                          + Cardinality(Starts(S)) + Cardinality(Starts(C))
    BY <1>1, <2>6, <2>7, Pieces
  <2>9. PICK A, C : /\ Sound(A) /\ Sound(C)
                    /\ Cardinality(Starts(text)) = Cardinality(Starts(A))
                         + Cardinality(Starts(S)) + Cardinality(Starts(C))
    BY <2>8
  <2>10. Trimmed(text) = S
    BY <2>0, <2>6
  <2> HIDE DEF S
  <2>11. /\ Cardinality(Starts(A)) \in Nat /\ Cardinality(Starts(C)) \in Nat
         /\ Cardinality(Starts(S)) \in Nat
    BY <2>8, <2>9, CharsCounted DEF Sound
  <2>12. Cardinality(Starts(S)) <= Cardinality(Starts(text))
    BY <1>1, <2>9, <2>11
  <2>13. Cardinality(Starts(S)) \in Sizes
    BY <1>1, <2>11, <2>12, Fewer
  <2> QED
    BY <2>8, <2>10, <2>13 DEF IsName
<1> QED
  BY <1>2, <1>3

-----------------------------------------------------------------------------
(* The window.                                                             *)

(* What is known of what the window keeps, for any set of sizes of names.  *)
IsEntry(x, Sizes) == "name" \in DOMAIN x /\ IsName(x.name, Sizes)
AreEntries(table, Sizes) ==
  Listed(table) /\ \A i \in DOMAIN table : IsEntry(table[i], Sizes)
AreNames(values, Sizes) ==
  \A k \in DOMAIN values : k[1] = "chips" => IsName(values[k], Sizes)
IsDoc(doc, Sizes) ==
  /\ DOMAIN doc = {"curves", "customs", "dashboard", "hidden", "values"}
  /\ AreEntries(doc.curves, Sizes) /\ AreEntries(doc.customs, Sizes)
  /\ AreNames(doc.values, Sizes)
IsFile(file, Sizes) == DOMAIN file = {"form", "doc"} /\ IsDoc(file.doc, Sizes)
IsInput(input, Sizes) ==
  input = None \/ ("field" \in DOMAIN input /\ IsField(input.field, Sizes))
IsState(state) == state \notin {Connecting, Gone, Busy} => IsFiniteSet(DOMAIN state.fans)

AppOk(a, Sizes) ==
  /\ DOMAIN a = {"file", "news", "names", "synced", "out", "state", "templated", "dialog",
                 "name", "number", "edit", "drag", "custom", "customName", "renaming",
                 "confirm", "clipboard", "tuning", "slider", "pending", "assigns", "tuned",
                 "last", "asked", "mistaken", "units"}
  /\ IsFile(a.file, Sizes) /\ IsDoc(a.names, Sizes)
  /\ IsInput(a.name, Sizes) /\ IsInput(a.customName, Sizes) /\ IsInput(a.renaming, Sizes)
  /\ (a.edit = None \/ IsEntry(a.edit, Sizes))
  /\ Listed(a.clipboard) /\ IsState(a.state)

(* A step that leaves the names alone.                                     *)
NamesKept(a, b) ==
  /\ DOMAIN b = DOMAIN a
  /\ b.file = a.file /\ b.names = a.names /\ b.name = a.name /\ b.customName = a.customName
  /\ b.renaming = a.renaming /\ b.edit = a.edit /\ b.clipboard = a.clipboard
  /\ b.state = a.state

(* Such a step keeps what is known.                                        *)
LEMMA KeptOk ==
  ASSUME NEW Sizes, NEW a, AppOk(a, Sizes), NEW b, NamesKept(a, b)
  PROVE  AppOk(b, Sizes)
  BY DEF AppOk, NamesKept

(* A request is queued.                                                    *)
LEMMA SendOk ==
  ASSUME NEW a, NEW Sizes, AppOk(a, Sizes), NEW req, NEW fan, NEW to
  PROVE  AppOk(Send(a, req, fan, to), Sizes)
<1>1. NamesKept(a, Send(a, req, fan, to))
  BY DEF AppOk, NamesKept, Send
<1> QED
  BY <1>1, KeptOk

(* The edits of a table of entries, one by one: a new entry, ...           *)
LEMMA Appended ==
  ASSUME NEW Sizes, NEW table, AreEntries(table, Sizes), NEW x, IsEntry(x, Sizes)
  PROVE  AreEntries(Append(table, x), Sizes)
<1> DEFINE t == Append(table, x)
<1>1. Len(table) \in Nat /\ DOMAIN table = 1..Len(table)
  BY ListedLen DEF AreEntries
<1>2. t = [i \in 1..(Len(table) + 1) |-> IF i = Len(table) + 1 THEN x ELSE table[i]]
  <2>1. PICK S : table \in Seq(S)
    BY DEF AreEntries, Listed
  <2>2. table \in Seq(S \cup {x}) /\ x \in S \cup {x}
    BY <2>1
  <2>3. /\ Append(table, x) \in Seq(S \cup {x}) /\ Len(Append(table, x)) = Len(table) + 1
        /\ \A i \in 1..(Len(table) + 1) :
             Append(table, x)[i] = IF i = Len(table) + 1 THEN x ELSE table[i]
    BY <2>2
  <2>4. Listed(t)
    BY <2>3 DEF Listed
  <2>5. t = [i \in 1..Len(t) |-> t[i]]
    BY <2>4, ListedLen
  <2> HIDE DEF t
  <2> QED
    BY <2>3, <2>5 DEF t
<1>3. Listed(t) /\ DOMAIN t = 1..(Len(table) + 1)
  <2>1. t = [i \in 1..(Len(table) + 1) |-> t[i]] /\ Len(table) + 1 \in Nat
    BY <1>1, <1>2
  <2> HIDE DEF t
  <2> QED
    BY <2>1, ListedFunction
<1>4. ASSUME NEW i \in DOMAIN t PROVE IsEntry(t[i], Sizes)
  <2>1. i \in 1..(Len(table) + 1) /\ t[i] = (IF i = Len(table) + 1 THEN x ELSE table[i])
    BY <1>2, <1>3
  <2>2. i # Len(table) + 1 => i \in DOMAIN table
    BY <1>1, <2>1
  <2> HIDE DEF t
  <2> QED
    BY <2>1, <2>2 DEF AreEntries
<1> QED
  BY <1>3, <1>4 DEF AreEntries

(* ... one in the place of another, ...                                    *)
LEMMA ChangedAt ==
  ASSUME NEW Sizes, NEW table, AreEntries(table, Sizes), NEW x, IsEntry(x, Sizes),
         NEW i \in DOMAIN table
  PROVE  AreEntries([table EXCEPT ![i] = x], Sizes)
<1> DEFINE t == [table EXCEPT ![i] = x]
<1>1. Len(table) \in Nat /\ DOMAIN table = 1..Len(table)
  BY ListedLen DEF AreEntries
<1>2. DOMAIN t = 1..Len(table) /\ t = [j \in 1..Len(table) |-> t[j]]
  BY <1>1
<1>3. \A j \in DOMAIN table : t[j] = IF j = i THEN x ELSE table[j]
  OBVIOUS
<1> HIDE DEF t
<1>4. Listed(t)
  BY <1>1, <1>2, ListedFunction
<1> QED
  BY <1>1, <1>2, <1>3, <1>4 DEF AreEntries, t

(* ... and one taken out.                                                  *)
LEMMA RemovedAt ==
  ASSUME NEW Sizes, NEW table, AreEntries(table, Sizes), NEW i \in DOMAIN table
  PROVE  AreEntries(RemoveAt(table, i), Sizes)
<1> DEFINE front == SubSeq(table, 1, i - 1)
           back == SubSeq(table, i + 1, Len(table))
           n == Len(table)
<1>1. n \in Nat /\ DOMAIN table = 1..n /\ Listed(table)
  BY ListedLen DEF AreEntries
<1>2. i \in Nat /\ i - 1 \in Nat /\ i <= n /\ i - 1 <= n /\ 0 \in Nat /\ 0 <= i - 1
  BY <1>1
<1>3. Listed(front) /\ Len(front) = i - 1 /\ \A j \in 1..(i - 1) : front[j] = table[j]
  <2> HIDE DEF front
  <2>1. /\ Listed(SubSeq(table, 0 + 1, i - 1)) /\ Len(SubSeq(table, 0 + 1, i - 1)) = (i - 1) - 0
        /\ \A j \in 1..((i - 1) - 0) : SubSeq(table, 0 + 1, i - 1)[j] = table[0 + j]
    BY <1>1, <1>2, Cut
  <2>2. front = SubSeq(table, 0 + 1, i - 1) /\ (i - 1) - 0 = i - 1
    BY <1>2 DEF front
  <2>3. \A j \in 1..(i - 1) : 0 + j = j
    BY <1>2
  <2> QED
    BY <2>1, <2>2, <2>3
<1>4. Listed(back) /\ Len(back) = n - i /\ \A j \in 1..(n - i) : back[j] = table[i + j]
  BY <1>1, <1>2, Cut, SMTT(30)
<1> HIDE DEF front, back
<1>5. /\ Listed(front \o back) /\ Len(front \o back) = (i - 1) + (n - i)
      /\ \A j \in 1..(i - 1) : (front \o back)[j] = front[j]
      /\ \A j \in 1..(n - i) : (front \o back)[(i - 1) + j] = back[j]
  <2> DEFINE m == Len(front)
             k == Len(back)
  <2>1. /\ Listed(front \o back) /\ Len(front \o back) = m + k
        /\ \A j \in 1..m : (front \o back)[j] = front[j]
        /\ \A j \in 1..k : (front \o back)[m + j] = back[j]
    <3>1. Listed(front) /\ Listed(back)
      BY <1>3, <1>4
    <3> QED
      BY <3>1, Joined
  <2> QED
    BY <1>3, <1>4, <2>1
<1>6. DOMAIN (front \o back) = 1..((i - 1) + (n - i))
  BY <1>5, ListedLen
<1>7. ASSUME NEW j \in DOMAIN (front \o back)
      PROVE  IsEntry((front \o back)[j], Sizes)
  <2>1. CASE j \in 1..(i - 1)
    <3>1. (front \o back)[j] = table[j]
      BY <1>3, <1>5, <2>1
    <3>2. j \in DOMAIN table
      BY <1>1, <1>2, <2>1
    <3> QED
      BY <3>1, <3>2 DEF AreEntries
  <2>2. CASE ~(j \in 1..(i - 1))
    <3>1. j - (i - 1) \in 1..(n - i) /\ (i - 1) + (j - (i - 1)) = j
          /\ i + (j - (i - 1)) \in 1..n
      BY <1>1, <1>2, <1>6, <2>2
    <3>2. (front \o back)[j] = table[i + (j - (i - 1))]
      BY <1>4, <1>5, <3>1
    <3> QED
      BY <1>1, <3>1, <3>2 DEF AreEntries
  <2> QED
    BY <2>1, <2>2
<1>8. RemoveAt(table, i) = front \o back
  BY DEF RemoveAt, front, back
<1> QED
  BY <1>5, <1>7, <1>8 DEF AreEntries

(* Where an entry is looked for, there is one, or none is found.           *)
LEMMA Placed ==
  ASSUME NEW Sizes, NEW table, AreEntries(table, Sizes), NEW id
  PROVE  Place(table, id) = 0 \/ Place(table, id) \in DOMAIN table
<1> DEFINE places == {i \in DOMAIN table : EntryId(table, i) = id}
<1>1. DOMAIN table \subseteq Nat
  <2>1. Len(table) \in Nat /\ DOMAIN table = 1..Len(table)
    BY ListedLen DEF AreEntries
  <2> QED
    BY <2>1
<1>2. places \in SUBSET Nat /\ places \subseteq DOMAIN table
  BY <1>1
<1>3. Place(table, id) = IF places = {} THEN 0 ELSE Min(places)
  BY DEF Place
<1> HIDE DEF places
<1> QED
  BY <1>2, <1>3, MinIn

(* What the app makes of a table of entries are entries.                   *)
LEMMA TablesKept ==
  ASSUME NEW Sizes, NEW table, AreEntries(table, Sizes)
  PROVE  /\ \A x : IsEntry(x, Sizes) => AreEntries(PutEntry(table, x), Sizes)
         /\ \A id : AreEntries(RemoveEntry(table, id), Sizes)
         /\ \A id, name : IsName(name, Sizes) => AreEntries(RenameEntry(table, id, name), Sizes)
<1>1. ASSUME NEW x, IsEntry(x, Sizes) PROVE AreEntries(PutEntry(table, x), Sizes)
  <2>1. Place(table, x.id) = 0 \/ Place(table, x.id) \in DOMAIN table
    BY Placed
  <2> QED
    BY <1>1, <2>1, Appended, ChangedAt, Zenon DEF PutEntry
<1>2. ASSUME NEW id PROVE AreEntries(RemoveEntry(table, id), Sizes)
  BY Placed, RemovedAt, Zenon DEF RemoveEntry
<1>3. ASSUME NEW id, NEW name, IsName(name, Sizes)
      PROVE  AreEntries(RenameEntry(table, id, name), Sizes)
  <2> DEFINE i == Place(table, id)
  <2>1. CASE i = 0
    BY <2>1 DEF RenameEntry
  <2>2. CASE i # 0
    <3>1. i \in DOMAIN table
      BY <2>2, Placed
    <3> DEFINE x == [table[i] EXCEPT !.name = name]
    <3>2. IsEntry(table[i], Sizes)
      BY <3>1 DEF AreEntries
    <3>3. IsEntry(x, Sizes)
      BY <1>3, <3>2 DEF IsEntry
    <3>4. RenameEntry(table, id, name) = [table EXCEPT ![i] = x]
      BY <2>2, <3>1 DEF RenameEntry
    <3>5. AreEntries([table EXCEPT ![i] = x], Sizes)
      <4> HIDE DEF i, x
      <4> QED
        BY <3>1, <3>3, ChangedAt
    <3> QED
      BY <3>4, <3>5, Zenon
  <2> QED
    BY <2>1, <2>2
<1> QED
  BY <1>1, <1>2, <1>3

(* The sizes of names: a single character must be one.                     *)
Names(Sizes) == Room(Sizes) /\ 1 \in Sizes

(* The name of an entry without one is a name.                             *)
LEMMA IdNamed ==
  ASSUME NEW Sizes, Names(Sizes), NEW kind, NEW id
  PROVE  IsName(IdName(kind, id), Sizes)
  BY Encoded DEF Names, IdName, IsName

(* A value is set or removed: only those of channels are names.            *)
LEMMA ValueSet ==
  ASSUME NEW Sizes, NEW doc, IsDoc(doc, Sizes), NEW section, NEW key, NEW v,
         section = "chips" => v = None \/ IsName(v, Sizes)
  PROVE  IsDoc(SetValue(doc, section, key, v), Sizes)
<1> DEFINE others == Restrict(doc.values, DOMAIN doc.values \ {<<section, key>>})
           put == Put(others, <<section, key>>, v)
           values == IF v = None THEN others ELSE put
<1>1. AreNames(others, Sizes)
  BY DEF IsDoc, AreNames, Restrict
<1>2. ASSUME v # None PROVE AreNames(put, Sizes)
  <2>1. DOMAIN put = DOMAIN others \cup {<<section, key>>}
    BY DEF Put
  <2>2. \A k \in DOMAIN put : put[k] = IF k = <<section, key>> THEN v ELSE others[k]
    BY DEF Put
  <2>3. <<section, key>>[1] = section
    OBVIOUS
  <2> HIDE DEF put, others
  <2> QED
    BY <1>1, <1>2, <2>1, <2>2, <2>3 DEF AreNames
<1>3. AreNames(values, Sizes)
  BY <1>1, <1>2, Zenon
<1>4. SetValue(doc, section, key, v) = [doc EXCEPT !.values = values]
  BY DEF SetValue
<1> HIDE DEF values
<1> QED
  BY <1>3, <1>4 DEF IsDoc

(* Every edit of the curves and the sensors leaves a config.               *)
LEMMA DocsKept ==
  ASSUME NEW Sizes, NEW doc, IsDoc(doc, Sizes)
  PROVE  /\ \A curve : IsEntry(curve, Sizes) => IsDoc(SaveCurve(doc, curve), Sizes)
         /\ \A id : IsDoc(DeleteCurve(doc, id), Sizes)
         /\ \A id, name : IsName(name, Sizes) => IsDoc(SaveCurveName(doc, id, name), Sizes)
         /\ \A custom : IsEntry(custom, Sizes) => IsDoc(SaveCustom(doc, custom), Sizes)
         /\ \A id : IsDoc(DeleteCustom(doc, id), Sizes)
         /\ \A id, name : IsName(name, Sizes) => IsDoc(SaveCustomName(doc, id, name), Sizes)
<1>0. AreEntries(doc.curves, Sizes) /\ AreEntries(doc.customs, Sizes)
  BY DEF IsDoc
<1>1. \A table : AreEntries(table, Sizes) =>
        /\ IsDoc([doc EXCEPT !.curves = table], Sizes)
        /\ IsDoc([doc EXCEPT !.customs = table], Sizes)
  BY DEF IsDoc
<1>2. ASSUME NEW curve, IsEntry(curve, Sizes)
      PROVE  IsDoc(SaveCurve(doc, curve), Sizes)
  <2> DEFINE x == [curve EXCEPT !.def = Written(@)]
  <2>1. IsEntry(x, Sizes)
    BY <1>2 DEF IsEntry
  <2>2. SaveCurve(doc, curve) = [doc EXCEPT !.curves = PutEntry(doc.curves, x)]
    BY DEF SaveCurve
  <2> HIDE DEF x
  <2> QED
    BY <1>0, <1>1, <2>1, <2>2, TablesKept
<1>3. ASSUME NEW id PROVE IsDoc(DeleteCurve(doc, id), Sizes)
  <2>1. DeleteCurve(doc, id) = [doc EXCEPT !.curves = RemoveEntry(doc.curves, id)]
    BY DEF DeleteCurve
  <2> QED
    BY <1>0, <1>1, <2>1, TablesKept
<1>4. ASSUME NEW id, NEW name, IsName(name, Sizes)
      PROVE  IsDoc(SaveCurveName(doc, id, name), Sizes)
  <2>1. SaveCurveName(doc, id, name) = [doc EXCEPT !.curves = RenameEntry(doc.curves, id, name)]
    BY DEF SaveCurveName
  <2> QED
    BY <1>0, <1>1, <1>4, <2>1, TablesKept
<1>5. ASSUME NEW custom, IsEntry(custom, Sizes)
      PROVE  IsDoc(SaveCustom(doc, custom), Sizes)
  <2>1. SaveCustom(doc, custom) = [doc EXCEPT !.customs = PutEntry(doc.customs, custom)]
    BY DEF SaveCustom
  <2> QED
    BY <1>0, <1>1, <1>5, <2>1, TablesKept
<1>6. ASSUME NEW id PROVE IsDoc(DeleteCustom(doc, id), Sizes)
  <2>1. DeleteCustom(doc, id) = [doc EXCEPT !.customs = RemoveEntry(doc.customs, id)]
    BY DEF DeleteCustom
  <2> QED
    BY <1>0, <1>1, <2>1, TablesKept
<1>7. ASSUME NEW id, NEW name, IsName(name, Sizes)
      PROVE  IsDoc(SaveCustomName(doc, id, name), Sizes)
  <2>1. SaveCustomName(doc, id, name) = [doc EXCEPT !.customs = RenameEntry(doc.customs, id, name)]
    BY DEF SaveCustomName
  <2> QED
    BY <1>0, <1>1, <1>7, <2>1, TablesKept
<1> QED
  BY <1>2, <1>3, <1>4, <1>5, <1>6, <1>7

(* The config the app starts with, with no file or an unfit one.           *)
LEMMA NoConfig ==
  ASSUME NEW Sizes
  PROVE  IsDoc(BlankDoc, Sizes)
<1>1. Listed(<<>>) /\ DOMAIN <<>> = {}
  BY DEF Listed
<1> QED
  BY <1>1 DEF IsDoc, BlankDoc, NoValues, AreEntries, AreNames

(* Entries that are changed one by one are entries if each is.             *)
LEMMA Mapped ==
  ASSUME NEW Sizes, NEW table, AreEntries(table, Sizes), NEW t, t = [i \in DOMAIN table |-> t[i]],
         \A i \in DOMAIN table : IsEntry(t[i], Sizes)
  PROVE  AreEntries(t, Sizes)
<1>1. Len(table) \in Nat /\ DOMAIN table = 1..Len(table)
  BY ListedLen DEF AreEntries
<1>2. Listed(t) /\ DOMAIN t = DOMAIN table
  BY <1>1, ListedFunction
<1> QED
  BY <1>2 DEF AreEntries

(* A file that is loaded is a config, with a name for every entry.         *)
LEMMA LoadedDoc ==
  ASSUME NEW Sizes, Names(Sizes), NEW file, IsFile(file, Sizes)
  PROVE  IsDoc(Load(file), Sizes)
<1> DEFINE doc == IF file.form = "good" THEN file.doc ELSE BlankDoc
           curves == WithFallbacks("curve", doc.curves)
           customs == WithFallbacks("custom", doc.customs)
           sane == [i \in DOMAIN curves |-> [curves[i] EXCEPT !.def = NormalizedDef(@)]]
<1>1. IsDoc(doc, Sizes)
  BY NoConfig DEF IsFile
<1>2. ASSUME NEW table, AreEntries(table, Sizes), NEW kind
      PROVE  AreEntries(WithFallbacks(kind, table), Sizes)
  <2> DEFINE t == WithFallbacks(kind, table)
             Id(i) == IF table[i].id \in {None, 0} THEN i ELSE table[i].id
  <2>1. ASSUME NEW i \in DOMAIN table PROVE IsEntry(t[i], Sizes)
    <3> DEFINE name == IF table[i].name = <<>> THEN IdName(kind, Id(i)) ELSE table[i].name
    <3>1. IsEntry(table[i], Sizes)
      BY <1>2 DEF AreEntries
    <3>2. IsName(name, Sizes)
      BY <3>1, IdNamed, Zenon DEF IsEntry
    <3>3. t[i] = [[table[i] EXCEPT !.id = Id(i)] EXCEPT !.name = IF @ = <<>> THEN IdName(kind, Id(i)) ELSE @]
      BY DEF WithFallbacks
    <3>4. "name" \in DOMAIN t[i] /\ t[i].name = name
      <4> HIDE DEF Id
      <4> QED
        BY <3>1, <3>3 DEF IsEntry
    <3> QED
      BY <3>2, <3>4 DEF IsEntry
  <2>2. t = [i \in DOMAIN table |-> t[i]]
    BY DEF WithFallbacks
  <2> HIDE DEF t
  <2>3. AreEntries(table, Sizes) /\ \A i \in DOMAIN table : IsEntry(t[i], Sizes)
    BY <1>2, <2>1
  <2>4. AreEntries(t, Sizes)
    BY <2>2, <2>3, Mapped
  <2> QED
    BY <2>4 DEF t
<1>3. AreEntries(curves, Sizes) /\ AreEntries(customs, Sizes)
  BY <1>1, <1>2 DEF IsDoc
<1> HIDE DEF curves
<1>4. AreEntries(sane, Sizes)
  <2>1. ASSUME NEW i \in DOMAIN curves PROVE IsEntry(sane[i], Sizes)
    <3>1. IsEntry(curves[i], Sizes)
      BY <1>3 DEF AreEntries
    <3>2. sane[i] = [curves[i] EXCEPT !.def = NormalizedDef(@)]
      OBVIOUS
    <3> QED
      BY <3>1, <3>2 DEF IsEntry
  <2>2. sane = [i \in DOMAIN curves |-> sane[i]]
    OBVIOUS
  <2> HIDE DEF sane
  <2> QED
    BY <1>3, <2>1, <2>2, Mapped
<1>5. Load(file) = [doc EXCEPT !.curves = sane, !.customs = customs, !.dashboard = Pins(@)]
  BY Zenon DEF Load, curves
<1> HIDE DEF doc, customs, sane
<1> QED
  BY <1>1, <1>3, <1>4, <1>5 DEF IsDoc

-----------------------------------------------------------------------------
(* The file and the service.                                               *)

(* A config is written, or the file left to its author.                    *)
LEMMA WroteOk ==
  ASSUME NEW Sizes, NEW a, AppOk(a, Sizes), NEW doc, IsDoc(doc, Sizes)
  PROVE  AppOk(Wrote(a, doc), Sizes)
<1>1. IsFile(Edited(a.file, doc), Sizes)
  BY DEF AppOk, IsFile, Edited
<1> DEFINE b == Wrote(a, doc)
<1>2. /\ DOMAIN b = DOMAIN a /\ b.file = Edited(a.file, doc) /\ b.names = a.names
      /\ b.name = a.name /\ b.customName = a.customName /\ b.renaming = a.renaming
      /\ b.edit = a.edit /\ b.clipboard = a.clipboard /\ b.state = a.state
  BY DEF AppOk, Wrote
<1> HIDE DEF b
<1> QED
  BY <1>1, <1>2 DEF AppOk, b

(* The file is read again.                                                 *)
LEMMA ReadOk ==
  ASSUME NEW Sizes, Names(Sizes), NEW a, AppOk(a, Sizes)
  PROVE  AppOk(Reread(a), Sizes) /\ AppOk(ReloadConfig(a), Sizes)
<1>1. IsDoc(Load(a.file), Sizes)
  BY LoadedDoc DEF AppOk
<1> DEFINE b == Reread(a)
<1>2. /\ DOMAIN b = DOMAIN a /\ b.file = a.file /\ b.names = Load(a.file)
      /\ b.name = a.name /\ b.customName = a.customName /\ b.renaming = a.renaming
      /\ b.edit = a.edit /\ b.clipboard = a.clipboard /\ b.state = a.state
  BY DEF AppOk, Reread
<1>3. ReloadConfig(a) = [b EXCEPT !.synced = FALSE]
  BY DEF ReloadConfig
<1> HIDE DEF b
<1>4. AppOk(b, Sizes)
  BY <1>1, <1>2 DEF AppOk
<1>5. NamesKept(b, ReloadConfig(a))
  BY <1>3 DEF NamesKept
<1> QED
  BY <1>4, <1>5, KeptOk DEF b

(* What every handler that edits the file ends with.                       *)
LEMMA SavedOk ==
  ASSUME NEW Sizes, Names(Sizes), NEW a, AppOk(a, Sizes), NEW doc, IsDoc(doc, Sizes)
  PROVE  AppOk(ReloadConfig(Wrote(a, doc)), Sizes) /\ AppOk(Reread(Wrote(a, doc)), Sizes)
  BY WroteOk, ReadOk

(* A state is taken from the service, and a file written to start with.    *)
LEMMA TakenOk ==
  ASSUME NEW Sizes, NEW a, AppOk(a, Sizes), NEW state, IsState(state)
  PROVE  AppOk(Taken(a, state), Sizes)
<1> DEFINE b == [a EXCEPT !.state = state, !.pending = IF a.slider = None THEN <<>> ELSE @]
           file == IF a.templated THEN b.file ELSE WriteTemplate(b.file)
           c == Taken(a, state)
<1>1. AppOk(b, Sizes)
  BY DEF AppOk
<1>2. IsFile(file, Sizes)
  <2>1. IsFile(b.file, Sizes)
    BY <1>1 DEF AppOk
  <2>2. IsDoc(SaveUnits(BlankDoc, "celsius", "rpm"), Sizes)
    BY NoConfig, ValueSet DEF SaveUnits
  <2> HIDE DEF b
  <2> QED
    BY <2>1, <2>2 DEF WriteTemplate, IsFile
<1> HIDE DEF b
<1>3. ASSUME Ready(b)
      PROVE  /\ DOMAIN c = DOMAIN b /\ c.file = file /\ c.names = b.names
             /\ c.name = b.name /\ c.customName = b.customName /\ c.renaming = b.renaming
             /\ c.edit = b.edit /\ c.clipboard = b.clipboard /\ c.state = b.state
  <2> DEFINE Kept(map, shown) == Restrict(map, {f \in DOMAIN map :
               f \in DOMAIN state.fans => state.fans[f][shown] # map[f]})
  <2>1. c = [b EXCEPT !.tuned = Kept(@, "settings"), !.assigns = Kept(@, "curve"),
                      !.file = IF a.templated THEN @ ELSE WriteTemplate(@),
                      !.news = @ \/ (~a.templated /\ a.file.form = "none"),
                      !.templated = TRUE]
    BY <1>3, Zenon DEF Taken, b
  <2> HIDE DEF Kept, c
  <2> QED
    BY <1>1, <2>1 DEF AppOk
<1>4. CASE Ready(b)
  <2> HIDE DEF c
  <2> QED
    BY <1>1, <1>2, <1>3, <1>4 DEF AppOk, c
<1>5. CASE ~Ready(b)
  BY <1>1, <1>5 DEF Taken, b
<1> QED
  BY <1>4, <1>5

(* The file is read because it changed.                                    *)
LEMMA HotReloadedOk ==
  ASSUME NEW Sizes, Names(Sizes), NEW a, AppOk(a, Sizes)
  PROVE  AppOk(HotReloaded(a), Sizes)
<1> DEFINE b == ReloadConfig(a)
<1>1. AppOk(b, Sizes)
  BY ReadOk
<1>2. HotReloaded(a) = IF ~a.news THEN a ELSE [b EXCEPT !.units = UnitsOf(b.names)]
  BY DEF HotReloaded
<1> HIDE DEF b
<1>3. NamesKept(b, [b EXCEPT !.units = UnitsOf(b.names)])
  BY DEF NamesKept
<1> QED
  BY <1>1, <1>2, <1>3, KeptOk

(* The definitions are queued for the service.                             *)
LEMMA SyncedOk ==
  ASSUME NEW Sizes, NEW a, AppOk(a, Sizes)
  PROVE  AppOk(Synced(a), Sizes)
<1> DEFINE b == Send(Send(a, "customs", None, a.names.customs), "curves", None, a.names.curves)
<1>1. AppOk(b, Sizes)
  BY SendOk
<1>2. \/ Synced(a) = [b EXCEPT !.synced = TRUE]
      \/ Synced(a) = [a EXCEPT !.synced = FALSE]
      \/ Synced(a) = a
  BY Zenon DEF Synced
<1> HIDE DEF b
<1>3. NamesKept(b, [b EXCEPT !.synced = TRUE]) /\ NamesKept(a, [a EXCEPT !.synced = FALSE])
  BY DEF NamesKept
<1> QED
  BY <1>1, <1>2, <1>3, KeptOk

-----------------------------------------------------------------------------
(* Fans.                                                                   *)

(* The last curve of a fan is written.                                     *)
LEMMA RememberOk ==
  ASSUME NEW Sizes, NEW a, AppOk(a, Sizes), NEW f, NEW id
  PROVE  AppOk(Remember(a, f, id), Sizes) /\ AppOk(RememberCurrent(a, f), Sizes)
<1>1. ASSUME NEW to PROVE AppOk(Remember(a, f, to), Sizes)
  <2> DEFINE b == [a EXCEPT !.last = Put(@, f, to)]
  <2>1. Remember(a, f, to) = IF Ready(b) THEN Wrote(b, SaveFanCurve(b.file.doc, <<"fan", f>>, to)) ELSE b
    BY DEF Remember
  <2>2. NamesKept(a, b)
    BY DEF NamesKept, AppOk
  <2> HIDE DEF b
  <2>3. AppOk(b, Sizes)
    BY <2>2, KeptOk
  <2>4. IsDoc(SaveFanCurve(b.file.doc, <<"fan", f>>, to), Sizes)
    <3>1. IsDoc(b.file.doc, Sizes) /\ "fan_curve" # "chips"
      BY <2>3 DEF AppOk, IsFile
    <3> QED
      BY <3>1, ValueSet DEF SaveFanCurve
  <2> QED
    BY <2>1, <2>3, <2>4, WroteOk, Zenon
<1> QED
  BY <1>1, Zenon DEF RememberCurrent

(* A fan is given a curve, or taken off it.                                *)
LEMMA AssignOk ==
  ASSUME NEW Sizes, NEW a, AppOk(a, Sizes), NEW f, NEW id
  PROVE  AppOk(AssignFan(a, f, id), Sizes)
<1> DEFINE b == IF id = None THEN RememberCurrent(a, f) ELSE Remember(a, f, id)
           c == [b EXCEPT !.pending = Without(@, f), !.assigns = Put(@, f, id)]
<1>1. AssignFan(a, f, id) = Send(c, "assign", f, id)
  BY DEF AssignFan
<1>2. AppOk(b, Sizes)
  BY RememberOk, Zenon
<1> HIDE DEF b
<1>3. NamesKept(b, c)
  BY DEF NamesKept
<1> HIDE DEF c
<1> QED
  BY <1>1, <1>2, <1>3, KeptOk, SendOk

(* A fan is moved by hand.                                                 *)
LEMMA PercentOk ==
  ASSUME NEW Sizes, NEW a, AppOk(a, Sizes), NEW f, NEW percent
  PROVE  AppOk(ApplyPercent(a, f, percent), Sizes)
<1> DEFINE fan == FanStatus(a, f)
           floor == IF fan = None THEN 0
                    ELSE Clamp(Larger(FanSettings(a, f).minimum, fan.floor), 0, Full)
           p == Clamp(percent, floor, Full)
           z == [a EXCEPT !.pending = Put(@, f, p)]
           b == RememberCurrent(z, f)
           c == [b EXCEPT !.assigns = Put(@, f, None)]
<1>1. ApplyPercent(a, f, percent) = Send(c, "target", f, PercentToDuty(p))
  BY DEF ApplyPercent
<1> HIDE DEF p
<1>2. NamesKept(a, z)
  BY DEF NamesKept
<1> HIDE DEF z
<1>3. AppOk(b, Sizes)
  BY <1>2, KeptOk, RememberOk
<1> HIDE DEF b
<1>4. NamesKept(b, c)
  BY DEF NamesKept
<1> HIDE DEF c
<1> QED
  BY <1>1, <1>3, <1>4, KeptOk, SendOk

(* The modes of a fan.                                                     *)
LEMMA FansOk ==
  ASSUME NEW Sizes, NEW a, AppOk(a, Sizes), NEW f
  PROVE  AppOk(SetCurveMode(a, f), Sizes) /\ AppOk(SetManual(a, f), Sizes) /\ AppOk(SetAuto(a, f), Sizes)
<1>1. AppOk(SetCurveMode(a, f), Sizes)
  BY AssignOk, Zenon DEF SetCurveMode
<1>2. AppOk(SetManual(a, f), Sizes)
  BY PercentOk, Zenon DEF SetManual
<1>3. AppOk(SetAuto(a, f), Sizes)
  <2> DEFINE b == RememberCurrent(a, f)
             c == [b EXCEPT !.pending = Without(@, f), !.assigns = Put(@, f, None)]
  <2>1. SetAuto(a, f) = Send(c, "target", f, None)
    BY DEF SetAuto
  <2>2. AppOk(b, Sizes)
    BY RememberOk
  <2> HIDE DEF b
  <2>3. NamesKept(b, c)
    BY DEF NamesKept
  <2> HIDE DEF c
  <2> QED
    BY <2>1, <2>2, <2>3, KeptOk, SendOk
<1> QED
  BY <1>1, <1>2, <1>3

(* A setting of a fan is committed.                                        *)
LEMMA TuningOk ==
  ASSUME NEW Sizes, NEW a, AppOk(a, Sizes)
  PROVE  AppOk(CommitTuning(a), Sizes)
<1> DEFINE edit == a.tuning
           b == [a EXCEPT !.tuning = None]
           settings == WithSetting(FanSettings(a, edit.fan), edit.field, edit.value)
           c == [b EXCEPT !.tuned = Put(@, edit.fan, settings),
                          !.asked = Put(@, <<edit.fan, edit.field>>, edit.value)]
<1>1. CommitTuning(a) \in {a, b, Send(c, "settings", edit.fan, settings)}
  BY Zenon DEF CommitTuning
<1>2. NamesKept(a, b)
  BY DEF NamesKept
<1> HIDE DEF b, settings
<1>3. NamesKept(b, c)
  BY DEF NamesKept
<1> HIDE DEF c
<1>4. AppOk(b, Sizes) /\ AppOk(Send(c, "settings", edit.fan, settings), Sizes)
  BY <1>2, <1>3, KeptOk, SendOk
<1> QED
  BY <1>1, <1>4

-----------------------------------------------------------------------------
(* Curves.                                                                 *)

(* What is found in a table is an entry.                                   *)
LEMMA StoredEntry ==
  ASSUME NEW Sizes, NEW table, AreEntries(table, Sizes), NEW id
  PROVE  Stored(table, id) = None \/ IsEntry(Stored(table, id), Sizes)
<1> DEFINE Found == {i \in 1..Len(table) : table[i].id = id}
           i == SelectInSeq(table, LAMBDA e : e.id = id)
<1>1. Len(table) \in Nat /\ DOMAIN table = 1..Len(table)
  BY ListedLen DEF AreEntries
<1>2. i = IF Found # {} THEN Min(Found) ELSE 0
  BY DEF SelectInSeq
<1>3. Found \in SUBSET Nat /\ Found \subseteq DOMAIN table
  BY <1>1
<1>4. Stored(table, id) = IF i = 0 THEN None ELSE table[i]
  BY DEF Stored
<1> HIDE DEF i, Found
<1>5. i = 0 \/ i \in DOMAIN table
  BY <1>2, <1>3, MinIn
<1> QED
  BY <1>4, <1>5 DEF AreEntries

(* The curve in the dialog is an entry, under the name being typed.        *)
LEMMA ShownEntry ==
  ASSUME NEW Sizes, Names(Sizes), NEW a, AppOk(a, Sizes), NEW id
  PROVE  CurveForDisplay(a, id) = None \/ IsEntry(CurveForDisplay(a, id), Sizes)
<1> DEFINE curve == IF a.edit # None /\ a.edit.id = id THEN a.edit ELSE Stored(a.names.curves, id)
           typed == IF a.name # None /\ a.name.id = id THEN Trimmed(a.name.field.text) ELSE <<>>
<1>1. curve = None \/ IsEntry(curve, Sizes)
  <2>1. AreEntries(a.names.curves, Sizes) /\ (a.edit = None \/ IsEntry(a.edit, Sizes))
    BY DEF AppOk, IsDoc
  <2> QED
    BY <2>1, StoredEntry, Zenon
<1>2. typed = <<>> \/ IsName(typed, Sizes)
  <2>1. a.name = None \/ IsField(a.name.field, Sizes)
    BY DEF AppOk, IsInput
  <2>2. a.name = None \/ IsName(a.name.field.text, Sizes)
    BY <2>1 DEF IsField, IsName, Sliceable, Sound
  <2> QED
    BY <2>2, TrimmedName, Zenon DEF Names
<1>3. CurveForDisplay(a, id) = IF curve = None \/ typed = <<>> THEN curve ELSE [curve EXCEPT !.name = typed]
  BY DEF CurveForDisplay
<1> HIDE DEF curve, typed
<1>4. curve # None => "name" \in DOMAIN [curve EXCEPT !.name = typed] /\ [curve EXCEPT !.name = typed].name = typed
  BY <1>1 DEF IsEntry
<1> QED
  BY <1>1, <1>2, <1>3, <1>4 DEF IsEntry

(* However a curve is redefined, it keeps its name.                        *)
LEMMA RedefinedEntry ==
  ASSUME NEW Sizes, NEW curve, IsEntry(curve, Sizes), NEW def
  PROVE  IsEntry([curve EXCEPT !.def = def], Sizes)
  BY DEF IsEntry

(* A curve or a sensor is written and the file read.                       *)
LEMMA CommitOk ==
  ASSUME NEW Sizes, Names(Sizes), NEW a, AppOk(a, Sizes), NEW x, IsEntry(x, Sizes)
  PROVE  AppOk(CommitCurve(a, x), Sizes) /\ AppOk(CommitCustom(a, x), Sizes)
<1>1. IsDoc(a.file.doc, Sizes)
  BY DEF AppOk, IsFile
<1>2. IsDoc(SaveCurve(a.file.doc, x), Sizes) /\ IsDoc(SaveCustom(a.file.doc, x), Sizes)
  BY <1>1, DocsKept
<1> QED
  BY <1>2, SavedOk DEF CommitCurve, CommitCustom

(* The copy under the mouse is let go of.                                  *)
LEMMA LetGo ==
  ASSUME NEW Sizes, NEW a, AppOk(a, Sizes)
  PROVE  AppOk([a EXCEPT !.drag = 0, !.edit = None], Sizes)
  BY DEF AppOk

(* What was drawn is written.                                              *)
LEMMA EndDragOk ==
  ASSUME NEW Sizes, Names(Sizes), NEW a, AppOk(a, Sizes)
  PROVE  AppOk(EndCurveDrag(a), Sizes)
<1> DEFINE b == [a EXCEPT !.drag = 0, !.edit = None]
<1>1. AppOk(b, Sizes)
  BY LetGo
<1>2. EndCurveDrag(a) = IF a.drag = 0 THEN a ELSE IF a.edit = None THEN b ELSE CommitCurve(b, a.edit)
  BY DEF EndCurveDrag
<1> HIDE DEF b
<1>3. a.edit = None \/ AppOk(CommitCurve(b, a.edit), Sizes)
  BY <1>1, CommitOk DEF AppOk
<1> QED
  BY <1>1, <1>2, <1>3, Zenon

(* A curve is redefined, or not.                                           *)
LEMMA ChangedOk ==
  ASSUME NEW Sizes, Names(Sizes), NEW a, AppOk(a, Sizes), NEW curve, IsEntry(curve, Sizes), NEW def
  PROVE  AppOk(Changed(a, curve, def), Sizes)
<1>1. AppOk(CommitCurve(a, [curve EXCEPT !.def = def]), Sizes)
  BY RedefinedEntry, CommitOk
<1> QED
  BY <1>1, Zenon DEF Changed

(* Its function, ...                                                       *)
LEMMA FunctionOk ==
  ASSUME NEW Sizes, Names(Sizes), NEW a, AppOk(a, Sizes), NEW id, NEW f
  PROVE  AppOk(SetPrimaryFunction(a, id, f), Sizes)
<1> DEFINE b == EndCurveDrag(a)
           curve == CurveForDisplay(b, id)
<1>1. AppOk(b, Sizes) /\ (curve = None \/ IsEntry(curve, Sizes))
  BY EndDragOk, ShownEntry
<1> HIDE DEF b, curve
<1>2. curve = None \/ AppOk(Changed(b, curve, WithFunction(curve.def, SaneFunction(f))), Sizes)
  BY <1>1, ChangedOk
<1> QED
  BY <1>1, <1>2, Zenon DEF SetPrimaryFunction, b, curve

(* ... a number of it, ...                                                 *)
LEMMA NumberOk ==
  ASSUME NEW Sizes, Names(Sizes), NEW a, AppOk(a, Sizes), NEW id, NEW field, NEW v
  PROVE  AppOk(SetCurveNumber(a, id, field, v), Sizes)
<1> DEFINE b == IF field \in WindowFields \cup FunctionFields THEN EndCurveDrag(a) ELSE a
           curve == CurveForDisplay(b, id)
<1>1. AppOk(b, Sizes)
  BY EndDragOk, Zenon
<1>2. curve = None \/ IsEntry(curve, Sizes)
  <2> HIDE DEF b
  <2> QED
    BY <1>1, ShownEntry
<1> HIDE DEF b, curve
<1>3. curve = None \/ AppOk(Changed(b, curve, WithField(curve.def, field, v)), Sizes)
  BY <1>1, <1>2, ChangedOk
<1> QED
  BY <1>1, <1>3, Zenon DEF SetCurveNumber, b, curve

(* ... its kind ...                                                        *)
LEMMA KindOk ==
  ASSUME NEW Sizes, Names(Sizes), NEW a, AppOk(a, Sizes), NEW id, NEW kind
  PROVE  AppOk(SetCurveKind(a, id, kind), Sizes)
<1> DEFINE curve == CurveForDisplay(a, id)
           b == [a EXCEPT !.drag = 0, !.edit = None]
           x == [curve EXCEPT !.def.kind = SaneKind(kind)]
<1>1. AppOk(b, Sizes) /\ (curve = None \/ IsEntry(curve, Sizes))
  BY LetGo, ShownEntry
<1>2. SetCurveKind(a, id, kind) = IF curve = None THEN a ELSE CommitCurve(b, x)
  BY DEF SetCurveKind
<1> HIDE DEF curve
<1>3. curve = None \/ IsEntry(x, Sizes)
  BY <1>1 DEF IsEntry
<1> HIDE DEF x, b
<1>4. curve = None \/ AppOk(CommitCurve(b, x), Sizes)
  BY <1>1, <1>3, CommitOk
<1> QED
  BY <1>2, <1>4

(* ... and its source.                                                     *)
LEMMA SourceOk ==
  ASSUME NEW Sizes, Names(Sizes), NEW a, AppOk(a, Sizes), NEW id, CurveForDisplay(a, id) # None,
         NEW source
  PROVE  AppOk(SetCurveSource(a, id, source), Sizes)
<1> DEFINE curve == CurveForDisplay(a, id)
           x == [curve EXCEPT !.def.source = source]
<1>1. IsEntry(curve, Sizes)
  BY ShownEntry
<1>2. SetCurveSource(a, id, source) = CommitCurve(a, x)
  BY DEF SetCurveSource
<1> HIDE DEF curve
<1>3. IsEntry(x, Sizes)
  BY <1>1 DEF IsEntry
<1> HIDE DEF x
<1> QED
  BY <1>2, <1>3, CommitOk

(* A new curve, its dialog open.                                           *)
LEMMA AddCurveOk ==
  ASSUME NEW Sizes, Names(Sizes), NEW a, AppOk(a, Sizes), NEW kind
  PROVE  AppOk(AddCurve(a, kind), Sizes)
<1> DEFINE source == IF FirstTempSource(a) # None THEN FirstTempSource(a)
                     ELSE IF a.names.customs # <<>> THEN <<"custom", a.names.customs[1].id>>
                     ELSE None
           id == FreshId(a.names.curves)
           title == IdName("Curve", id)
           b == [a EXCEPT !.dialog = id, !.name = [id |-> id, field |-> Field(title)],
                          !.custom = None, !.customName = None, !.renaming = None]
           x == [id |-> id, name |-> title, def |->
                  [source |-> source, functions |-> <<Hysteresis>>, hysteresis |-> Hysteresis,
                   window |-> DefaultWindow, kind |-> kind]]
<1>1. AddCurve(a, kind) = IF source = None THEN a ELSE CommitCurve(b, x)
  BY Zenon DEF AddCurve
<1>2. IsName(title, Sizes) /\ IsField(Field(title), Sizes)
  BY IdNamed, FieldOfName DEF Names
<1> HIDE DEF source, id, title
<1>3. AppOk(b, Sizes)
  BY <1>2 DEF AppOk, IsInput
<1>4. IsEntry(x, Sizes)
  BY <1>2 DEF IsEntry
<1> HIDE DEF b, x
<1> QED
  BY <1>1, <1>3, <1>4, CommitOk, Zenon

(* `after` holds what releasing one fan of a curve after the other makes   *)
(* of the window.                                                          *)
ReleasedBy(a, id, n, order, after) ==
  /\ after[0] = a /\ ReleaseFans(a, id) = after[n]
  /\ \A i \in 1..n : after[i] = AssignFan(after[i - 1], order[i], None)
  /\ \A i \in 1..n : Ready(a) /\ order[i] \in DOMAIN a.state.fans

(* The fans of a curve are released one after the other, in some order.    *)
LEMMA ReleaseSteps ==
  ASSUME NEW a, NEW id, Ready(a) => IsFiniteSet(DOMAIN a.state.fans)
  PROVE  \E n \in Nat : \E order, after : ReleasedBy(a, id, n, order, after)
<1> DEFINE fans == IF ~Ready(a) THEN {}
                   ELSE {f \in DOMAIN a.state.fans : ShownCurve(a, f) = id}
           order == SetToSeq(fans)
           n == Cardinality(fans)
           Steps(f, m) == f = [i \in 0..m |-> IF i = 0 THEN a ELSE AssignFan(f[i - 1], order[i], None)]
           Lacking == {m \in Nat : ~\E f : Steps(f, m)}
<1>1. IsFiniteSet(fans) /\ n \in Nat
  <2>1. CASE Ready(a)
    <3>1. IsFiniteSet(DOMAIN a.state.fans)
      BY <2>1
    <3> QED
      BY <2>1, <3>1, FS_Subset, FS_CardinalityType
  <2>2. CASE ~Ready(a)
    BY <2>2, FS_EmptySet
  <2> QED
    BY <2>1, <2>2
<1>2. Lacking = {}
  <2>1. SUFFICES ASSUME Lacking # {} PROVE FALSE
    OBVIOUS
  <2>2. PICK m \in Lacking : \A j \in Lacking : m <= j
    <3>1. Lacking \in SUBSET Nat
      OBVIOUS
    <3> QED
      BY <2>1, <3>1, LeastIndex
  <2>3. CASE m = 0
    <3> DEFINE f == [i \in 0..0 |-> a]
    <3>1. f = [i \in 0..0 |-> IF i = 0 THEN a ELSE AssignFan(f[i - 1], order[i], None)]
      OBVIOUS
    <3>2. Steps(f, 0)
      BY <3>1
    <3> QED
      BY <2>2, <2>3, <3>2
  <2>4. CASE m # 0
    <3>1. m \in Nat
      BY <2>2
    <3>2. m - 1 \in Nat /\ ~(m - 1 \in Lacking)
      <4> HIDE DEF Lacking
      <4> QED
        BY <2>2, <2>4, <3>1
    <3>3. PICK f : Steps(f, m - 1)
      <4> HIDE DEF Steps
      <4> QED
        BY <3>2
    <3> DEFINE g == [i \in 0..m |-> IF i = m THEN AssignFan(f[m - 1], order[m], None) ELSE f[i]]
    <3> HIDE DEF order
    <3>4. \A i \in 0..(m - 1) : f[i] = IF i = 0 THEN a ELSE AssignFan(f[i - 1], order[i], None)
      BY <3>3
    <3>5. \A i \in 0..m : g[i] = IF i = 0 THEN a ELSE AssignFan(g[i - 1], order[i], None)
      BY <3>1, <3>4, <2>4
    <3>6. g = [i \in 0..m |-> g[i]]
      OBVIOUS
    <3> HIDE DEF g
    <3>7. Steps(g, m)
      BY <3>5, <3>6
    <3> QED
      BY <2>2, <3>7
  <2> QED
    BY <2>3, <2>4
<1>3. PICK f : Steps(f, n)
  <2> HIDE DEF Steps, n
  <2> QED
    BY <1>1, <1>2
<1> DEFINE after[i \in 0..n] == IF i = 0 THEN a ELSE AssignFan(after[i - 1], order[i], None)
<1>4. ReleaseFans(a, id) = after[n]
  BY Zenon DEF ReleaseFans
<1>5. Steps(after, n)
  <2> HIDE DEF n, order
  <2> QED
    BY <1>3, Zenon
<1>6. \A i \in 1..n : order[i] \in fans
  <2>1. ExistsBijection(1..n, fans)
    BY <1>1, FS_CardinalityType
  <2>2. \E g \in [1..n -> fans] : IsInjective(g)
    BY <2>1 DEF ExistsBijection, Bijection, Injection
  <2>3. order \in [1..n -> fans]
    BY <2>2 DEF SetToSeq
  <2> HIDE DEF order, fans, n
  <2> QED
    BY <2>3
<1>7. \A g \in fans : Ready(a) /\ g \in DOMAIN a.state.fans
  OBVIOUS
<1> HIDE DEF after, n, order
<1>8. \A i \in 0..n : after[i] = IF i = 0 THEN a ELSE AssignFan(after[i - 1], order[i], None)
  <2> DEFINE step == [i \in 0..n |-> IF i = 0 THEN a ELSE AssignFan(after[i - 1], order[i], None)]
  <2>1. after = step
    BY <1>5
  <2>2. \A i \in 0..n : step[i] = IF i = 0 THEN a ELSE AssignFan(after[i - 1], order[i], None)
    OBVIOUS
  <2> QED
    BY <2>1, <2>2, Zenon
<1>9. 0 \in 0..n /\ \A i \in 1..n : i \in 0..n /\ i # 0
  BY <1>1
<1>10. after[0] = a /\ \A i \in 1..n : after[i] = AssignFan(after[i - 1], order[i], None)
  BY <1>8, <1>9
<1> HIDE DEF fans
<1>11. ReleasedBy(a, id, n, order, after)
  BY <1>4, <1>6, <1>7, <1>10 DEF ReleasedBy
<1> QED
  BY <1>1, <1>11

(* Each release keeps the names, and so do all of them.                    *)
LEMMA ReleaseOk ==
  ASSUME NEW Sizes, NEW a, AppOk(a, Sizes), NEW id
  PROVE  AppOk(ReleaseFans(a, id), Sizes)
<1>1. Ready(a) => IsFiniteSet(DOMAIN a.state.fans)
  BY DEF AppOk, IsState, Ready
<1>0. PICK n, order, after : n \in Nat /\ ReleasedBy(a, id, n, order, after)
  BY <1>1, ReleaseSteps
<1>2. /\ after[0] = a /\ ReleaseFans(a, id) = after[n]
      /\ \A i \in 1..n : after[i] = AssignFan(after[i - 1], order[i], None)
  BY <1>0 DEF ReleasedBy
<1> DEFINE Broken == {i \in 0..n : ~AppOk(after[i], Sizes)}
<1>3. Broken = {}
  <2>1. SUFFICES ASSUME Broken # {} PROVE FALSE
    OBVIOUS
  <2>2. Broken \in SUBSET Nat
    BY <1>0
  <2>3. PICK m \in Broken : \A j \in Broken : m <= j
    <3> HIDE DEF Broken
    <3> QED
      BY <2>1, <2>2, LeastIndex
  <2>4. m \in 0..n /\ ~AppOk(after[m], Sizes)
    BY <2>3
  <2>5. m # 0
    BY <1>2, <2>4, Zenon
  <2>6. m - 1 \in 0..n /\ ~(m <= m - 1) /\ m \in 1..n
    BY <1>0, <2>4, <2>5
  <2>7. AppOk(after[m - 1], Sizes)
    BY <2>3, <2>6
  <2>8. after[m] = AssignFan(after[m - 1], order[m], None)
    BY <1>2, <2>6
  <2> QED
    BY <2>4, <2>7, <2>8, AssignOk, Zenon
<1>4. n \in 0..n
  BY <1>0
<1> QED
  BY <1>2, <1>3, <1>4

(* A curve is deleted, and with it its color and its dialog.               *)
LEMMA DeleteOk ==
  ASSUME NEW Sizes, Names(Sizes), NEW a, AppOk(a, Sizes), NEW id
  PROVE  AppOk(DeleteTheCurve(a, id), Sizes)
<1> DEFINE r == ReleaseFans(a, id)
           b == [r EXCEPT !.dialog = IF @ = id THEN None ELSE @,
                          !.name = IF @ # None /\ @.id = id THEN None ELSE @,
                          !.edit = None, !.drag = 0]
           c == Wrote(b, DeleteCurve(b.file.doc, id))
           d == SaveCurveColor(c.file.doc, id, None)
<1>1. DeleteTheCurve(a, id) = ReloadConfig(Wrote(c, d))
  BY DEF DeleteTheCurve
<1>2. AppOk(r, Sizes)
  BY ReleaseOk
<1> HIDE DEF r
<1>3. AppOk(b, Sizes)
  <2>1. IsInput(IF r.name # None /\ r.name.id = id THEN None ELSE r.name, Sizes)
    BY <1>2 DEF AppOk, IsInput
  <2> QED
    BY <1>2, <2>1 DEF AppOk
<1> HIDE DEF b
<1>4. AppOk(c, Sizes)
  BY <1>3, DocsKept, WroteOk DEF AppOk, IsFile
<1> HIDE DEF c
<1>5. IsDoc(d, Sizes)
  <2>1. IsDoc(c.file.doc, Sizes) /\ "curve_color" # "chips"
    BY <1>4 DEF AppOk, IsFile
  <2> QED
    BY <2>1, ValueSet DEF SaveCurveColor
<1> HIDE DEF d
<1> QED
  BY <1>1, <1>4, <1>5, SavedOk

(* The dialog of a curve opens with its name in the field.                 *)
LEMMA OpenCurveOk ==
  ASSUME NEW Sizes, Names(Sizes), NEW a, AppOk(a, Sizes), NEW id
  PROVE  AppOk(OpenCurveDialog(a, id), Sizes)
<1> DEFINE curve == Stored(a.names.curves, id)
           name == IF curve = None THEN None ELSE [id |-> id, field |-> Field(curve.name)]
<1>1. curve = None \/ IsEntry(curve, Sizes)
  BY StoredEntry DEF AppOk, IsDoc
<1>2. OpenCurveDialog(a, id) = [a EXCEPT !.number = None, !.dialog = id, !.name = name,
                                  !.custom = None, !.customName = None, !.renaming = None]
  BY DEF OpenCurveDialog
<1> HIDE DEF curve
<1>3. curve = None \/ IsField(Field(curve.name), Sizes)
  BY <1>1, FieldOfName DEF IsEntry, Names
<1>4. IsInput(name, Sizes)
  BY <1>3 DEF IsInput
<1> HIDE DEF name
<1> QED
  BY <1>2, <1>4 DEF AppOk, IsInput

(* What is in a name field is a name once trimmed.                         *)
LEMMA TypedName ==
  ASSUME NEW Sizes, Names(Sizes), NEW input, IsInput(input, Sizes), input # None
  PROVE  IsName(Trimmed(input.field.text), Sizes)
<1>1. IsName(input.field.text, Sizes)
  BY DEF IsInput, IsField, IsName, Sliceable, Sound
<1> QED
  BY <1>1, TrimmedName DEF Names

(* The name in the dialog is committed.                                    *)
LEMMA CurveNameOk ==
  ASSUME NEW Sizes, Names(Sizes), NEW a, AppOk(a, Sizes)
  PROVE  AppOk(CommitCurveName(a), Sizes)
<1> DEFINE typed == IF a.name = None THEN <<>> ELSE Trimmed(a.name.field.text)
           b == ReloadConfig(Wrote(a, SaveCurveName(a.file.doc, a.name.id, typed)))
<1>1. CommitCurveName(a) = a \/ (typed # <<>> /\ CommitCurveName(a) = b)
  BY Zenon DEF CommitCurveName
<1>2. typed = <<>> \/ IsName(typed, Sizes)
  BY TypedName, Zenon DEF AppOk
<1> HIDE DEF typed
<1>3. typed = <<>> \/ IsDoc(SaveCurveName(a.file.doc, a.name.id, typed), Sizes)
  BY <1>2, DocsKept DEF AppOk, IsFile
<1>4. typed = <<>> \/ AppOk(b, Sizes)
  BY <1>3, SavedOk, Zenon
<1> QED
  BY <1>1, <1>4, Zenon

(* The number that is edited is committed, ...                             *)
LEMMA CommitNumberOk ==
  ASSUME NEW Sizes, Names(Sizes), NEW a, AppOk(a, Sizes)
  PROVE  AppOk(CommitCurveNumber(a), Sizes)
<1> DEFINE b == [a EXCEPT !.number = None]
<1>1. NamesKept(a, b)
  BY DEF NamesKept
<1>2. CommitCurveNumber(a) \in {a, b, SetCurveNumber(b, a.number.curve, a.number.field, a.number.value)}
  BY Zenon DEF CommitCurveNumber
<1> HIDE DEF b
<1>3. AppOk(b, Sizes)
  BY <1>1, KeptOk
<1> QED
  BY <1>2, <1>3, NumberOk

(* ... before another one is.                                              *)
LEMMA BeginNumberOk ==
  ASSUME NEW Sizes, Names(Sizes), NEW a, AppOk(a, Sizes), NEW id, NEW field
  PROVE  AppOk(BeginCurveNumber(a, id, field), Sizes)
<1> DEFINE b == CommitCurveNumber(a)
           c == BeginCurveNumber(a, id, field)
<1>1. AppOk(b, Sizes)
  BY CommitNumberOk
<1>2. c = [b EXCEPT !.number = [curve |-> id, field |-> field,
                                value |-> FieldValue(CurveForDisplay(a, id).def, field)]]
  BY DEF BeginCurveNumber
<1> HIDE DEF b, c
<1>3. NamesKept(b, c)
  BY <1>2 DEF NamesKept
<1> QED
  BY <1>1, <1>3, KeptOk DEF c

(* The dialog of a curve closes.                                           *)
LEMMA CloseCurveOk ==
  ASSUME NEW Sizes, Names(Sizes), NEW a, AppOk(a, Sizes)
  PROVE  AppOk(CloseCurveDialog(a), Sizes)
<1> DEFINE b == CommitCurveName(EndCurveDrag(CommitCurveNumber(a)))
<1>1. AppOk(b, Sizes)
  BY CommitNumberOk, EndDragOk, CurveNameOk
<1>2. CloseCurveDialog(a) = [b EXCEPT !.dialog = None, !.name = None, !.number = None]
  BY DEF CloseCurveDialog
<1> HIDE DEF b
<1> QED
  BY <1>1, <1>2 DEF AppOk, IsInput

(* A point of the plot is taken away, grabbed or added, ...                *)
LEMMA PlotDownOk ==
  ASSUME NEW Sizes, Names(Sizes), NEW a, AppOk(a, Sizes), NEW cursor, NEW twice
  PROVE  AppOk(CurveEditorDown(a, cursor, twice), Sizes)
<1> DEFINE curve == CurveForDisplay(a, a.dialog)
           window == SaneWindow(curve.def.window)
           points == curve.def.kind.points
           hit == Grabbed(points, window, cursor)
           at == PlotValue(window, cursor)
           Grab(i, with) == [a EXCEPT !.drag = i, !.edit = [curve EXCEPT !.def.kind.points = with]]
           b == [a EXCEPT !.drag = 0, !.edit = None]
           x == [curve EXCEPT !.def.kind.points = RemoveAt(@, hit)]
           down == CurveEditorDown(a, cursor, twice)
<1>1. down = IF curve = None \/ curve.def.kind.kind # "graph" THEN a
             ELSE IF hit = 0 THEN Grab(InsertPlace(points, at), InsertPoint(points, at))
             ELSE IF ~twice THEN Grab(hit, points)
             ELSE IF Len(points) = 1 THEN a
             ELSE CommitCurve(b, x)
  BY Zenon DEF CurveEditorDown
<1>2. curve = None \/ IsEntry(curve, Sizes)
  BY ShownEntry
<1> HIDE DEF curve, hit, at, points
<1>3. ASSUME curve # None, NEW i, NEW with PROVE AppOk(Grab(i, with), Sizes)
  <2> DEFINE y == [curve EXCEPT !.def.kind.points = with]
  <2>1. IsEntry(y, Sizes)
    BY <1>2, <1>3 DEF IsEntry
  <2> HIDE DEF y
  <2>2. AppOk([a EXCEPT !.drag = i, !.edit = y], Sizes)
    BY <2>1 DEF AppOk
  <2> QED
    BY <2>2 DEF y
<1>4. AppOk(b, Sizes)
  BY LetGo
<1>5. curve = None \/ IsEntry(x, Sizes)
  BY <1>2 DEF IsEntry
<1> HIDE DEF b, x, Grab, down
<1>6. curve = None \/ AppOk(CommitCurve(b, x), Sizes)
  BY <1>4, <1>5, CommitOk
<1>7. AppOk(down, Sizes)
  BY <1>1, <1>3, <1>6, Zenon
<1> QED
  BY <1>7 DEF down

(* ... and dragged.                                                        *)
LEMMA DragOk ==
  ASSUME NEW Sizes, NEW a, AppOk(a, Sizes), NEW cursor
  PROVE  AppOk(CurveDragMove(a, cursor), Sizes)
<1> DEFINE window == SaneWindow(a.edit.def.window)
           at == PlotValue(window, cursor)
           b == [a EXCEPT !.edit.def.kind.points = DragPoint(@, a.drag, window, at)]
           y == [a.edit EXCEPT !.def.kind.points = DragPoint(@, a.drag, window, at)]
<1>1. CurveDragMove(a, cursor) = IF a.drag = 0 \/ a.edit = None THEN a ELSE b
  BY DEF CurveDragMove
<1>2. b = [a EXCEPT !.edit = y]
  BY DEF AppOk
<1>3. a.edit = None \/ IsEntry(y, Sizes)
  BY DEF AppOk, IsEntry
<1> HIDE DEF b, y
<1> QED
  BY <1>1, <1>2, <1>3 DEF AppOk

-----------------------------------------------------------------------------
(* Custom sensors and names.                                               *)

(* The dialog of a sensor opens with its name in the field.                *)
LEMMA OpenCustomOk ==
  ASSUME NEW Sizes, Names(Sizes), NEW a, AppOk(a, Sizes), NEW id
  PROVE  AppOk(OpenCustomDialog(a, id), Sizes)
<1> DEFINE sensor == Stored(a.names.customs, id)
           name == IF sensor = None THEN IdName("custom", id) ELSE sensor.name
           input == [id |-> id, field |-> Field(name)]
<1>1. sensor = None \/ IsEntry(sensor, Sizes)
  BY StoredEntry DEF AppOk, IsDoc
<1>2. OpenCustomDialog(a, id) = [a EXCEPT !.custom = id, !.customName = input,
                                           !.dialog = None, !.name = None, !.renaming = None]
  BY DEF OpenCustomDialog
<1> HIDE DEF sensor
<1>3. IsName(name, Sizes)
  BY <1>1, IdNamed, Zenon DEF IsEntry
<1> HIDE DEF name
<1>4. IsInput(input, Sizes)
  BY <1>3, FieldOfName DEF IsInput, Names
<1> HIDE DEF input
<1> QED
  BY <1>2, <1>4 DEF AppOk, IsInput

(* A new sensor, its dialog open.                                          *)
LEMMA AddCustomOk ==
  ASSUME NEW Sizes, Names(Sizes), NEW a, AppOk(a, Sizes)
  PROVE  AppOk(AddCustom(a), Sizes)
<1> DEFINE id == FreshId(a.names.customs)
           title == IdName("Sensor", id)
           input == [id |-> id, field |-> Field(title)]
           b == [a EXCEPT !.custom = id, !.customName = input,
                          !.dialog = None, !.name = None, !.renaming = None]
           x == [id |-> id, name |-> title, def |-> [how |-> "average", inputs |-> <<>>]]
<1>1. AddCustom(a) = CommitCustom(b, x)
  BY DEF AddCustom
<1>2. IsName(title, Sizes)
  BY IdNamed
<1> HIDE DEF id, title
<1>3. IsInput(input, Sizes)
  BY <1>2, FieldOfName DEF IsInput, Names
<1>4. IsEntry(x, Sizes)
  BY <1>2 DEF IsEntry
<1> HIDE DEF input, x
<1>5. AppOk(b, Sizes)
  BY <1>3 DEF AppOk, IsInput
<1> HIDE DEF b
<1> QED
  BY <1>1, <1>4, <1>5, CommitOk

(* The dialog of a sensor closes, with or without committing its name.     *)
LEMMA CloseCustomOk ==
  ASSUME NEW Sizes, Names(Sizes), NEW a, AppOk(a, Sizes)
  PROVE  AppOk(CloseCustomDialog(a), Sizes) /\ AppOk(CommitCustomDialog(a), Sizes)
<1>1. ASSUME NEW b, AppOk(b, Sizes) PROVE AppOk(CloseCustomDialog(b), Sizes)
  BY <1>1 DEF CloseCustomDialog, AppOk, IsInput
<1>2. AppOk(CommitCustomDialog(a), Sizes)
  <2> DEFINE typed == IF a.customName = None THEN <<>> ELSE Trimmed(a.customName.field.text)
             c == Wrote(a, SaveCustomName(a.file.doc, a.customName.id, typed))
             d == [c EXCEPT !.synced = FALSE]
             b == IF typed = <<>> THEN a ELSE d
  <2>1. CommitCustomDialog(a) = Reread(CloseCustomDialog(b))
    BY DEF CommitCustomDialog
  <2>2. typed = <<>> \/ IsName(typed, Sizes)
    BY TypedName, Zenon DEF AppOk
  <2> HIDE DEF typed
  <2>3. typed = <<>> \/ AppOk(c, Sizes)
    BY <2>2, DocsKept, WroteOk DEF AppOk, IsFile
  <2> HIDE DEF c
  <2>4. NamesKept(c, d)
    BY DEF NamesKept
  <2>5. AppOk(b, Sizes)
    <3> HIDE DEF d
    <3> QED
      BY <2>3, <2>4, KeptOk, Zenon
  <2> HIDE DEF b
  <2> QED
    BY <1>1, <2>1, <2>5, ReadOk
<1> QED
  BY <1>1, <1>2

Repointed(curve, source) == [curve EXCEPT !.def.source = source]

(* `after` holds what repointing one curve after the other makes of it.    *)
RepointedBy(a, id, n, source, after) ==
  /\ after[0] = a /\ n = Len(a.names.curves)
  /\ DeleteCustomSensor(a, id)
       = ReloadConfig(Wrote(after[n], DeleteCustom(after[n].file.doc, id)))
  /\ \A i \in 1..n :
       \/ after[i] = after[i - 1]
       \/ after[i] = Wrote(after[i - 1], SaveCurve(after[i - 1].file.doc,
                       Repointed(a.names.curves[i], source)))

(* The curves that read a sensor are repointed one after the other.        *)
LEMMA RepointSteps ==
  ASSUME NEW a, NEW id, Len(a.names.curves) \in Nat
  PROVE  \E n \in Nat : \E source, after : RepointedBy(a, id, n, source, after)
<1> DEFINE source == FirstTempSource(a)
           curves == a.names.curves
           n == Len(curves)
           Repoint(b, curve) ==
             IF source = None \/ curve.def.source # <<"custom", id>> THEN b
             ELSE Wrote(b, SaveCurve(b.file.doc, [curve EXCEPT !.def.source = source]))
           Steps(f, m) == f = [i \in 0..m |-> IF i = 0 THEN a ELSE Repoint(f[i - 1], curves[i])]
           Lacking == {m \in Nat : ~\E f : Steps(f, m)}
<1>1. n \in Nat
  OBVIOUS
<1>2. Lacking = {}
  <2>1. SUFFICES ASSUME Lacking # {} PROVE FALSE
    OBVIOUS
  <2>2. PICK m \in Lacking : \A j \in Lacking : m <= j
    <3>1. Lacking \in SUBSET Nat
      OBVIOUS
    <3> QED
      BY <2>1, <3>1, LeastIndex
  <2>3. CASE m = 0
    <3> DEFINE f == [i \in 0..0 |-> a]
    <3> HIDE DEF Repoint
    <3>1. f = [i \in 0..0 |-> IF i = 0 THEN a ELSE Repoint(f[i - 1], curves[i])]
      OBVIOUS
    <3>2. Steps(f, 0)
      BY <3>1
    <3> QED
      BY <2>2, <2>3, <3>2
  <2>4. CASE m # 0
    <3>1. m \in Nat
      BY <2>2
    <3>2. m - 1 \in Nat /\ ~(m - 1 \in Lacking)
      <4> HIDE DEF Lacking
      <4> QED
        BY <2>2, <2>4, <3>1
    <3>3. PICK f : Steps(f, m - 1)
      <4> HIDE DEF Steps
      <4> QED
        BY <3>2
    <3> DEFINE g == [i \in 0..m |-> IF i = m THEN Repoint(f[m - 1], curves[m]) ELSE f[i]]
    <3> HIDE DEF Repoint, curves
    <3>4. \A i \in 0..(m - 1) : f[i] = IF i = 0 THEN a ELSE Repoint(f[i - 1], curves[i])
      BY <3>3
    <3>5. \A i \in 0..m : g[i] = IF i = 0 THEN a ELSE Repoint(g[i - 1], curves[i])
      BY <3>1, <3>4, <2>4
    <3>6. g = [i \in 0..m |-> g[i]]
      OBVIOUS
    <3> HIDE DEF g
    <3>7. Steps(g, m)
      BY <3>5, <3>6
    <3> QED
      BY <2>2, <3>7
  <2> QED
    BY <2>3, <2>4
<1>3. PICK f : Steps(f, n)
  <2> HIDE DEF Steps, n
  <2> QED
    BY <1>1, <1>2
<1> DEFINE after[i \in 0..n] == IF i = 0 THEN a ELSE Repoint(after[i - 1], curves[i])
           b == after[n]
<1>4. DeleteCustomSensor(a, id) = ReloadConfig(Wrote(b, DeleteCustom(b.file.doc, id)))
  BY Zenon DEF DeleteCustomSensor
<1>5. Steps(after, n)
  <2> HIDE DEF Repoint, n
  <2> QED
    BY <1>3, Zenon
<1>6. ASSUME NEW c, NEW curve
      PROVE  \/ Repoint(c, curve) = c
             \/ Repoint(c, curve) = Wrote(c, SaveCurve(c.file.doc, Repointed(curve, source)))
  BY Zenon DEF Repointed
<1> HIDE DEF after, Repoint, curves, source, n
<1>7. \A i \in 0..n : after[i] = IF i = 0 THEN a ELSE Repoint(after[i - 1], curves[i])
  <2> DEFINE step == [i \in 0..n |-> IF i = 0 THEN a ELSE Repoint(after[i - 1], curves[i])]
  <2>1. after = step
    BY <1>5
  <2>2. \A i \in 0..n : step[i] = IF i = 0 THEN a ELSE Repoint(after[i - 1], curves[i])
    OBVIOUS
  <2> QED
    BY <2>1, <2>2, Zenon
<1>8. 0 \in 0..n /\ \A i \in 1..n : i \in 0..n /\ i # 0
  BY <1>1
<1>9. after[0] = a
  BY <1>7, <1>8
<1>10. ASSUME NEW i \in 1..n
       PROVE  \/ after[i] = after[i - 1]
              \/ after[i] = Wrote(after[i - 1], SaveCurve(after[i - 1].file.doc,
                              Repointed(curves[i], source)))
  <2>1. after[i] = Repoint(after[i - 1], curves[i])
    BY <1>7, <1>8
  <2> QED
    BY <1>6, <2>1
<1>11. RepointedBy(a, id, n, source, after)
  BY <1>1, <1>4, <1>9, <1>10 DEF RepointedBy, curves, n
<1> QED
  BY <1>1, <1>11, Zenon

(* Each of them keeps the names, and so does the deletion.                 *)
LEMMA DeleteCustomOk ==
  ASSUME NEW Sizes, Names(Sizes), NEW a, AppOk(a, Sizes), NEW id
  PROVE  AppOk(DeleteCustomSensor(a, id), Sizes)
<1> DEFINE curves == a.names.curves
<1>0. Len(curves) \in Nat /\ DOMAIN curves = 1..Len(curves)
  BY ListedLen DEF AppOk, IsDoc, AreEntries
<1>1. PICK n, source, after : n \in Nat /\ RepointedBy(a, id, n, source, after)
  BY <1>0, RepointSteps
<1>2. DOMAIN curves = 1..n
  BY <1>0, <1>1 DEF RepointedBy
<1> DEFINE b == after[n]
           Broken == {i \in 0..n : ~AppOk(after[i], Sizes)}
<1>3. ASSUME NEW i \in 1..n PROVE IsEntry(Repointed(curves[i], source), Sizes)
  <2>1. IsEntry(curves[i], Sizes)
    BY <1>2 DEF AppOk, IsDoc, AreEntries
  <2> HIDE DEF curves
  <2> QED
    BY <2>1 DEF IsEntry, Repointed
<1> HIDE DEF curves
<1>4. Broken = {}
  <2>1. SUFFICES ASSUME Broken # {} PROVE FALSE
    OBVIOUS
  <2>2. Broken \in SUBSET Nat
    BY <1>1
  <2>3. PICK m \in Broken : \A j \in Broken : m <= j
    <3> HIDE DEF Broken
    <3> QED
      BY <2>1, <2>2, LeastIndex
  <2>4. m \in 0..n /\ ~AppOk(after[m], Sizes)
    BY <2>3
  <2>5. m # 0
    BY <1>1, <2>4, Zenon DEF RepointedBy
  <2>6. m - 1 \in 0..n /\ ~(m <= m - 1) /\ m \in 1..n
    BY <1>1, <2>4, <2>5
  <2> DEFINE c == after[m - 1]
  <2>7. AppOk(c, Sizes)
    BY <2>3, <2>6
  <2>8. after[m] = c \/ after[m] = Wrote(c, SaveCurve(c.file.doc, Repointed(curves[m], source)))
    BY <1>1, <2>6, Zenon DEF curves, RepointedBy
  <2> HIDE DEF c
  <2>9. IsDoc(SaveCurve(c.file.doc, Repointed(curves[m], source)), Sizes)
    BY <1>3, <2>6, <2>7, DocsKept DEF AppOk, IsFile
  <2>10. AppOk(after[m], Sizes)
    BY <2>7, <2>8, <2>9, WroteOk
  <2> QED
    BY <2>4, <2>10
<1>5. AppOk(b, Sizes)
  <2>1. n \in 0..n
    BY <1>1
  <2> QED
    BY <1>4, <2>1
<1> HIDE DEF b
<1>6. IsDoc(DeleteCustom(b.file.doc, id), Sizes)
  BY <1>5, DocsKept DEF AppOk, IsFile
<1> QED
  BY <1>1, <1>5, <1>6, SavedOk DEF b, RepointedBy

(* The name of a channel is put into a field, ...                          *)
LEMMA BeginRenameOk ==
  ASSUME NEW Sizes, Names(Sizes), NEW a, AppOk(a, Sizes), NEW key, NEW shown, IsName(shown, Sizes)
  PROVE  AppOk(BeginRename(a, key, shown), Sizes)
<1> DEFINE input == [key |-> key, field |-> Field(shown)]
<1>1. IsInput(input, Sizes)
  BY FieldOfName DEF IsInput, Names
<1>2. BeginRename(a, key, shown) =
        [a EXCEPT !.tuning = None, !.dialog = None, !.name = None, !.custom = None,
                  !.customName = None, !.renaming = input]
  BY DEF BeginRename
<1> HIDE DEF input
<1> QED
  BY <1>1, <1>2 DEF AppOk, IsInput

(* ... and committed.                                                      *)
LEMMA RenameOk ==
  ASSUME NEW Sizes, Names(Sizes), NEW a, AppOk(a, Sizes)
  PROVE  AppOk(CommitRename(a), Sizes)
<1> DEFINE typed == Trimmed(a.renaming.field.text)
           key == a.renaming.key
           same == typed = <<>> \/ (key = <<"name", 0>> /\ typed = ChipName)
           v == IF same THEN None ELSE typed
           b == [a EXCEPT !.renaming = None]
           saved == Wrote(b, SaveChipName(b.file.doc, key, v))
<1>1. CommitRename(a) = IF a.renaming = None THEN a
                        ELSE Reread(IF key = <<"name", 0>> \/ Ready(a) THEN saved ELSE b)
  BY Zenon DEF CommitRename
<1>2. ASSUME a.renaming # None PROVE AppOk(b, Sizes) /\ AppOk(saved, Sizes)
  <2>1. IsName(typed, Sizes)
    BY <1>2, TypedName DEF AppOk
  <2> HIDE DEF typed, key
  <2>2. v = None \/ IsName(v, Sizes)
    BY <2>1, Zenon
  <2>3. AppOk(b, Sizes)
    BY DEF AppOk, IsInput
  <2> HIDE DEF b, v
  <2>4. IsDoc(b.file.doc, Sizes)
    BY <2>3 DEF AppOk, IsFile
  <2>5. IsDoc(SaveChipName(b.file.doc, key, v), Sizes)
    BY <2>2, <2>4, ValueSet DEF SaveChipName
  <2> QED
    BY <2>3, <2>5, WroteOk
<1> HIDE DEF b, saved, key
<1> QED
  BY <1>1, <1>2, ReadOk, Zenon

(* The units are chosen.                                                   *)
LEMMA UnitsOk ==
  ASSUME NEW Sizes, NEW a, AppOk(a, Sizes), NEW units
  PROVE  AppOk(SetUnits(a, units), Sizes)
<1> DEFINE doc == SaveUnits(a.file.doc, units.temp, units.fan)
           b == Wrote(a, doc)
<1>1. IsDoc(doc, Sizes)
  <2>1. IsDoc(a.file.doc, Sizes) /\ "units" # "chips"
    BY DEF AppOk, IsFile
  <2> DEFINE first == SetValue(a.file.doc, "units", <<"temperature", 0>>, units.temp)
  <2>2. IsDoc(first, Sizes)
    BY <2>1, ValueSet
  <2>3. doc = SetValue(first, "units", <<"fan", 0>>, units.fan)
    BY DEF SaveUnits
  <2> HIDE DEF first, doc
  <2> QED
    BY <2>1, <2>2, <2>3, ValueSet
<1>2. SetUnits(a, units) = [b EXCEPT !.units = units, !.news = FALSE]
  BY DEF SetUnits
<1> HIDE DEF doc
<1>3. AppOk(b, Sizes)
  BY <1>1, WroteOk
<1> HIDE DEF b
<1>4. NamesKept(b, [b EXCEPT !.units = units, !.news = FALSE])
  BY DEF NamesKept
<1> QED
  BY <1>2, <1>3, <1>4, KeptOk

(* Pins, looks and what is hidden are no names.                            *)
LEMMA ArrangedDocs ==
  ASSUME NEW Sizes, NEW doc, IsDoc(doc, Sizes), NEW names, NEW key
  PROVE  /\ IsDoc(Pinned(doc, names, key), Sizes) /\ IsDoc(Hidden(doc, names, key), Sizes)
         /\ IsDoc(Toggled(doc, names, key), Sizes)
         /\ \A color, style : IsDoc(Restyled(doc, key, color, style), Sizes)
<1>1. \A table : IsDoc([doc EXCEPT !.dashboard = table], Sizes) /\ IsDoc([doc EXCEPT !.hidden = table], Sizes)
  BY DEF IsDoc
<1>2. IsDoc(Pinned(doc, names, key), Sizes)
  <2>1. \E table : Pinned(doc, names, key) = [doc EXCEPT !.dashboard = table]
    BY Zenon DEF Pinned, SetDashboardPinned
  <2> QED
    BY <1>1, <2>1
<1>3. IsDoc(Hidden(doc, names, key), Sizes)
  <2>1. \E table : Hidden(doc, names, key) = [doc EXCEPT !.hidden = table]
    BY Zenon DEF Hidden, SetHidden
  <2> QED
    BY <1>1, <2>1
<1>4. "graph_shown" # "chips" /\ "graph_color" # "chips" /\ "graph_style" # "chips"
  OBVIOUS
<1>5. IsDoc(Toggled(doc, names, key), Sizes)
  <2> DEFINE default == key[1] # "fan"
             next == ~ValueOr(names, "graph_shown", key, default)
             v == IF next = default THEN None ELSE next
  <2>1. Toggled(doc, names, key) = SetValue(doc, "graph_shown", key, v)
    BY Zenon DEF Toggled, SetGraphField
  <2> HIDE DEF v
  <2> QED
    BY <1>4, <2>1, ValueSet
<1>6. ASSUME NEW color, NEW style PROVE IsDoc(Restyled(doc, key, color, style), Sizes)
  <2>1. IsDoc(SetGraphField(doc, "graph_color", key, color), Sizes)
    BY <1>4, ValueSet DEF SetGraphField
  <2> QED
    BY <1>4, <2>1, ValueSet DEF Restyled, SetGraphField
<1> QED
  BY <1>2, <1>3, <1>5, <1>6

-----------------------------------------------------------------------------
(* The steps.                                                              *)

(* The installations write only names of those sizes, and one may be as    *)
(* long as the fields allow.                                               *)
Limits(Sizes) ==
  /\ Names(Sizes) /\ MaxName \in Sizes
  /\ \A s \in DOMAIN Sites : \A file \in Sites[s].files \cup {Sites[s].file} : IsFile(file, Sizes)

NamesSound(Sizes) == site \in DOMAIN Sites /\ AppOk(app, Sizes) /\ IsState(feed)

(* A handler has run and the names are as they should be.                  *)
Kept(Sizes) == AppOk(app', Sizes) /\ UNCHANGED <<site, feed>>

(* A handler that keeps what is known makes a step that does.              *)
LEMMA HandledKeeps ==
  ASSUME NEW Sizes, NEW next, AppOk(next, Sizes), Handled(next) \/ Clicked(next)
  PROVE  Kept(Sizes)
  BY DEF Handled, Clicked, Kept

(* The cards of the fans.                                                  *)
LEMMA FanKeeps ==
  ASSUME NEW Sizes, Names(Sizes), AppOk(app, Sizes), FanAction
  PROVE  Kept(Sizes)
<1>1. CASE Press
  <2>1. AppOk(CommitTuning(app), Sizes) /\ AppOk(CommitCurveNumber(app), Sizes)
    BY TuningOk, CommitNumberOk
  <2> QED
    BY <1>1, <2>1, HandledKeeps, Zenon DEF Press
<1>2. CASE \E f \in Fans : CurveMode(f)
  BY <1>2, FansOk, HandledKeeps, Zenon DEF CurveMode
<1>3. CASE \E f \in Fans : ByHand(f)
  <2>1. PICK f \in Fans : ByHand(f)
    BY <1>3
  <2> DEFINE held == [app EXCEPT !.slider = f]
  <2>2. NamesKept(app, held)
    BY DEF NamesKept
  <2> HIDE DEF held
  <2>3. \A p : AppOk(ApplyPercent(held, f, p), Sizes)
    BY <2>2, KeptOk, PercentOk
  <2>4. \/ Clicked(SetManual(app, f)) \/ Clicked(SetAuto(app, f))
        \/ \E p : Clicked(ApplyPercent(held, f, p))
    BY <2>1, Zenon DEF ByHand, held
  <2> QED
    BY <2>3, <2>4, FansOk, HandledKeeps, Zenon
<1>4. CASE \E f \in Fans, field \in Here.fields : BeginTuning(f, field)
  <2>1. PICK f \in Fans, field \in Here.fields : BeginTuning(f, field)
    BY <1>4
  <2> DEFINE tuning == [fan |-> f, field |-> field, value |-> FanSettings(app, f)[field]]
             next == [app EXCEPT !.renaming = None, !.tuning = tuning]
  <2>2. Clicked(next)
    BY <2>1 DEF BeginTuning
  <2> HIDE DEF tuning
  <2>3. AppOk(next, Sizes)
    BY DEF AppOk, IsInput
  <2> HIDE DEF next
  <2> QED
    BY <2>2, <2>3, HandledKeeps
<1>5. CASE \E f \in Fans, id \in Here.ids : PickCurve(f, id)
  BY <1>5, AssignOk, HandledKeeps, Zenon DEF PickCurve
<1>6. CASE \E p \in Here.percents : MoveSlider(p)
  <2>1. PICK p \in Here.percents : app' = ApplyPercent(app, app.slider, p) /\ UNCHANGED <<site, feed>>
    BY <1>6 DEF MoveSlider
  <2> QED
    BY <2>1, PercentOk DEF Kept
<1>7. CASE \E v \in Here.numbers : TypeNumber(v)
  <2>1. PICK v \in Here.numbers : TypeNumber(v)
    BY <1>7
  <2> DEFINE n == IF v = None THEN Bad ELSE v
             b == [app EXCEPT !.tuning.value = v]
             c == [app EXCEPT !.number.value = n]
  <2>2. Handled(b) \/ Handled(c)
    BY <2>1, Zenon DEF TypeNumber
  <2> HIDE DEF n
  <2>3. NamesKept(app, b) /\ NamesKept(app, c)
    BY DEF NamesKept
  <2> HIDE DEF b, c
  <2> QED
    BY <2>2, <2>3, KeptOk, HandledKeeps
<1> QED
  BY <1>1, <1>2, <1>3, <1>4, <1>5, <1>6, <1>7, Zenon DEF FanAction

(* The question before a deletion is answered.                             *)
LEMMA DeletedKeeps ==
  ASSUME NEW Sizes, Names(Sizes), AppOk(app, Sizes), AnswerDelete
  PROVE  Kept(Sizes)
<1> DEFINE b == [app EXCEPT !.confirm = None]
<1>1. \/ Handled(b) \/ Clicked(DeleteTheCurve(b, app.confirm[2]))
      \/ Clicked(DeleteCustomSensor(b, app.confirm[2]))
  BY Zenon DEF AnswerDelete
<1>2. NamesKept(app, b)
  BY DEF NamesKept
<1> HIDE DEF b
<1>3. AppOk(b, Sizes)
  BY <1>2, KeptOk
<1>4. /\ AppOk(DeleteTheCurve(b, app.confirm[2]), Sizes)
      /\ AppOk(DeleteCustomSensor(b, app.confirm[2]), Sizes)
  BY <1>3, DeleteOk, DeleteCustomOk
<1> QED
  BY <1>1, <1>3, <1>4, HandledKeeps, Zenon

(* The curves and their dialog.                                            *)
LEMMA CurveKeeps ==
  ASSUME NEW Sizes, Names(Sizes), AppOk(app, Sizes), CurveAction
  PROVE  Kept(Sizes)
<1>0. IsDoc(app.file.doc, Sizes)
  BY DEF AppOk, IsFile
<1>1. CASE NewCurve
  BY <1>1, AddCurveOk, HandledKeeps, Zenon DEF NewCurve
<1>2. CASE CloseCurve
  BY <1>2, CloseCurveOk, HandledKeeps, Zenon DEF CloseCurve
<1>3. CASE PickTab
  <2>1. (\E kind : Clicked(SetCurveKind(app, app.dialog, kind)))
        \/ \E f : Clicked(SetPrimaryFunction(app, app.dialog, f))
    BY <1>3, Zenon DEF PickTab
  <2> QED
    BY <2>1, KindOk, FunctionOk, HandledKeeps, Zenon
<1>4. CASE MouseUp
  <2> DEFINE b == EndCurveDrag(app)
             next == [b EXCEPT !.slider = None]
  <2>1. Handled(next)
    BY <1>4 DEF MouseUp
  <2>2. AppOk(b, Sizes)
    BY EndDragOk
  <2> HIDE DEF b
  <2>3. NamesKept(b, next)
    BY DEF NamesKept
  <2> HIDE DEF next
  <2> QED
    BY <2>1, <2>2, <2>3, KeptOk, HandledKeeps
<1>5. CASE \E id \in Here.ids : OpenCurve(id)
  BY <1>5, OpenCurveOk, HandledKeeps, Zenon DEF OpenCurve
<1>6. CASE \E what : AskDelete(what)
  <2>1. PICK what : Handled([app EXCEPT !.confirm = what])
    BY <1>6 DEF AskDelete
  <2>2. NamesKept(app, [app EXCEPT !.confirm = what])
    BY DEF NamesKept
  <2>3. AppOk([app EXCEPT !.confirm = what], Sizes)
    BY <2>2, KeptOk, Zenon
  <2> QED
    BY <2>1, <2>3, HandledKeeps, Zenon
<1>7. CASE \E field \in Here.fields : EditField(field)
  BY <1>7, BeginNumberOk, HandledKeeps, Zenon DEF EditField
<1>8. CASE \E field, sign : StepField(field, sign)
  BY <1>8, NumberOk, HandledKeeps, Zenon DEF StepField, StepCurveNumber
<1>9. CASE \E source \in Here.sources : PickSource(source)
  BY <1>9, SourceOk, HandledKeeps, Zenon DEF PickSource, CurveDialogUp
<1>10. CASE \E color : PickColor(color)
  <2>1. PICK color : Clicked(ReloadConfig(Wrote(app, SaveCurveColor(app.file.doc, app.dialog, color))))
    BY <1>10 DEF PickColor
  <2>2. IsDoc(SaveCurveColor(app.file.doc, app.dialog, color), Sizes)
    <3>1. "curve_color" # "chips"
      OBVIOUS
    <3> QED
      BY <1>0, <3>1, ValueSet DEF SaveCurveColor
  <2> QED
    BY <2>1, <2>2, SavedOk, HandledKeeps, Zenon
<1>11. CASE \E cursor \in Here.cursors : DragTo(cursor)
  BY <1>11, DragOk, HandledKeeps, Zenon DEF DragTo
<1>12. CASE \E cursor, twice : PlotDown(cursor, twice)
  BY <1>12, PlotDownOk, HandledKeeps, Zenon DEF PlotDown
<1> QED
  BY <1>1, <1>2, <1>3, <1>4, <1>5, <1>6, <1>7, <1>8, <1>9, <1>10, <1>11, <1>12, DeletedKeeps, Zenon
  DEF CurveAction

(* Sensors, names and the rest.                                            *)
LEMMA OtherKeeps ==
  ASSUME NEW Sizes, Names(Sizes), AppOk(app, Sizes), OtherAction
  PROVE  Kept(Sizes)
<1>0. IsDoc(app.file.doc, Sizes) /\ AreNames(app.names.values, Sizes)
  BY DEF AppOk, IsFile, IsDoc
<1>1. CASE NewSensor
  BY <1>1, AddCustomOk, HandledKeeps, Zenon DEF NewSensor
<1>2. CASE EditSensor
  <2> DEFINE sensor == Stored(app.names.customs, app.custom)
  <2>1. IsEntry(sensor, Sizes)
    <3>1. sensor # None /\ AreEntries(app.names.customs, Sizes)
      BY <1>2 DEF EditSensor, CustomDialogUp, AppOk, IsDoc
    <3> QED
      BY <3>1, StoredEntry
  <2>2. PICK new : Clicked(CommitCustom(app, [sensor EXCEPT !.def = new]))
    BY <1>2, Zenon DEF EditSensor
  <2> HIDE DEF sensor
  <2>3. AppOk(CommitCustom(app, [sensor EXCEPT !.def = new]), Sizes)
    <3>1. IsEntry([sensor EXCEPT !.def = new], Sizes)
      BY <2>1, RedefinedEntry, Zenon
    <3> QED
      BY <3>1, CommitOk, Zenon
  <2> QED
    BY <2>2, <2>3, HandledKeeps, Zenon
<1>3. CASE CloseSensor
  BY <1>3, CloseCustomOk, HandledKeeps, Zenon DEF CloseSensor
<1>4. CASE AnswerRename
  <2>1. AppOk([app EXCEPT !.renaming = None], Sizes)
    BY DEF AppOk, IsInput
  <2> QED
    BY <1>4, <2>1, RenameOk, HandledKeeps, Zenon DEF AnswerRename
<1>5. CASE \E id \in Here.ids : OpenSensor(id)
  BY <1>5, OpenCustomOk, HandledKeeps, Zenon DEF OpenSensor
<1>6. CASE \E key \in Here.keys : Rename(key)
  <2>1. PICK key \in Here.keys : Rename(key)
    BY <1>6
  <2> DEFINE default == IF key = <<"name", 0>> THEN ChipName ELSE IdName(key[1], key[2])
             shown == Label(app.names, key, default)
  <2>2. IsName(default, Sizes)
    BY IdNamed, Zenon DEF ChipName
  <2>3. Clicked(BeginRename(app, key, shown))
    BY <2>1, Zenon DEF Rename
  <2> HIDE DEF default
  <2>4. IsName(shown, Sizes)
    <3>1. <<"chips", key>>[1] = "chips"
      OBVIOUS
    <3> QED
      BY <1>0, <2>2, <3>1 DEF Label, ValueOr, AreNames
  <2> HIDE DEF shown
  <2> QED
    BY <2>3, <2>4, BeginRenameOk, HandledKeeps, Zenon
<1>7. CASE \E key \in Here.keys : Arrange(key)
  <2>1. PICK key \in Here.keys : Arrange(key)
    BY <1>7
  <2> DEFINE doc == app.file.doc
  <2>2. PICK new : /\ new \in {Pinned(doc, app.names, key), Toggled(doc, app.names, key),
                       Restyled(doc, key, "red", "dashed"), Restyled(doc, key, None, None),
                       Hidden(doc, app.names, key)}
                   /\ Clicked(ReloadConfig(Wrote(app, new)))
    BY <2>1 DEF Arrange
  <2>3. IsDoc(new, Sizes)
    BY <1>0, <2>2, ArrangedDocs
  <2> QED
    BY <2>2, <2>3, SavedOk, HandledKeeps, Zenon
<1>8. CASE \E units : PickUnits(units)
  BY <1>8, UnitsOk, HandledKeeps, Zenon DEF PickUnits
<1> QED
  BY <1>1, <1>2, <1>3, <1>4, <1>5, <1>6, <1>7, <1>8, Zenon DEF OtherAction

(* A key that goes to a field leaves it a field, and the clipboard a list. *)
LEMMA TypedOk ==
  ASSUME NEW Sizes, Names(Sizes), MaxName \in Sizes, AppOk(app, Sizes),
         NEW input, IsInput(input, Sizes), input # None, NEW k, Listed(k.chars)
  PROVE  IsInput(Typed(input, k), Sizes) /\ Listed(Clip(k, input.field))
<1>1. "field" \in DOMAIN input /\ IsField(input.field, Sizes) /\ Room(Sizes) /\ Listed(app.clipboard)
  BY DEF IsInput, Names, AppOk
<1>2. IsField(HandleTextKey(input.field, k, MaxName, app.clipboard), Sizes)
  BY <1>1, KeyKeepsField
<1>3. IsInput(Typed(input, k), Sizes)
  BY <1>1, <1>2 DEF IsInput, Typed
<1>4. Listed(Clip(k, input.field))
  BY <1>1, KeyKeepsClipboard DEF Clip
<1> QED
  BY <1>3, <1>4

(* A key, wherever it goes.                                                *)
LEMMA KeyKeeps ==
  ASSUME NEW Sizes, Limits(Sizes), NamesSound(Sizes), NEW k \in Here.typed, KeyDown(k)
  PROVE  Kept(Sizes)
<1> USE DEF Limits, NamesSound
<1>1. Listed(k.chars)
  BY NameAssumption DEF Here, Listed
<1> DEFINE renamed == [app EXCEPT !.renaming = Typed(@, k), !.clipboard = Clip(k, app.renaming.field)]
           titled == [app EXCEPT !.customName = Typed(@, k), !.clipboard = Clip(k, app.customName.field)]
           named == [app EXCEPT !.name = Typed(@, k), !.clipboard = Clip(k, app.name.field)]
           untuned == [app EXCEPT !.tuning = None]
           unnumbered == [app EXCEPT !.number = None]
           unrenamed == [app EXCEPT !.renaming = None]
           unasked == [app EXCEPT !.confirm = None]
<1>2. AfterKey(k) \in {app, CommitTuning(app), CommitCurveNumber(app), CommitRename(app),
                       CommitCustomDialog(app), CloseCustomDialog(app), CloseCurveDialog(app),
                       CommitCurveName(app), untuned, unnumbered, unrenamed, unasked}
      \/ (app.renaming # None /\ AfterKey(k) = renamed)
      \/ (app.customName # None /\ AfterKey(k) = titled)
      \/ (app.name # None /\ AfterKey(k) = named)
  <2>1. CASE app.tuning # None
    BY <2>1, Zenon DEF AfterKey
  <2>2. CASE app.tuning = None /\ app.number # None
    BY <2>2, Zenon DEF AfterKey
  <2>3. CASE app.tuning = None /\ app.number = None /\ app.renaming # None
    BY <2>3, Zenon DEF AfterKey
  <2>4. CASE app.tuning = None /\ app.number = None /\ app.renaming = None
    <3> DEFINE inner ==
          IF app.custom # None /\ app.customName # None
          THEN IF k.key = "enter" THEN CommitCustomDialog(app)
               ELSE IF k.key = "escape" THEN CloseCustomDialog(app) ELSE titled
          ELSE IF k.key = "escape"
          THEN IF app.confirm # None THEN unasked
               ELSE IF app.dialog # None THEN CloseCurveDialog(app) ELSE app
          ELSE IF app.dialog # None /\ app.name # None
          THEN IF k.key = "enter" THEN CommitCurveName(app) ELSE named
          ELSE app
    <3>1. AfterKey(k) = inner
      BY <2>4, Zenon DEF AfterKey
    <3> HIDE DEF titled, named, unasked
    <3>2. inner \in {app, CommitCustomDialog(app), CloseCustomDialog(app), CloseCurveDialog(app),
                     CommitCurveName(app), unasked}
          \/ (app.customName # None /\ inner = titled) \/ (app.name # None /\ inner = named)
      BY Zenon
    <3> HIDE DEF inner
    <3> QED
      BY <3>1, <3>2, Zenon
  <2> QED
    BY <2>1, <2>2, <2>3, <2>4
<1>3. AppOk(untuned, Sizes) /\ AppOk(unnumbered, Sizes) /\ AppOk(unasked, Sizes)
  <2>1. NamesKept(app, untuned) /\ NamesKept(app, unnumbered) /\ NamesKept(app, unasked)
    BY DEF NamesKept
  <2> HIDE DEF untuned, unnumbered, unasked
  <2> QED
    BY <2>1, KeptOk
<1>4. AppOk(unrenamed, Sizes)
  BY DEF AppOk, IsInput
<1>5. app.renaming # None => AppOk(renamed, Sizes)
  <2> DEFINE field == Typed(app.renaming, k)
             clip == Clip(k, app.renaming.field)
  <2>1. app.renaming # None => IsInput(field, Sizes) /\ Listed(clip)
    BY <1>1, TypedOk DEF AppOk
  <2> HIDE DEF field, clip
  <2>2. renamed = [app EXCEPT !.renaming = field, !.clipboard = clip]
    BY DEF field, clip
  <2> HIDE DEF renamed
  <2> QED
    BY <2>1, <2>2 DEF AppOk
<1>6. app.customName # None => AppOk(titled, Sizes)
  <2> DEFINE field == Typed(app.customName, k)
             clip == Clip(k, app.customName.field)
  <2>1. app.customName # None => IsInput(field, Sizes) /\ Listed(clip)
    BY <1>1, TypedOk DEF AppOk
  <2> HIDE DEF field, clip
  <2>2. titled = [app EXCEPT !.customName = field, !.clipboard = clip]
    BY DEF field, clip
  <2> HIDE DEF titled
  <2> QED
    BY <2>1, <2>2 DEF AppOk
<1>7. app.name # None => AppOk(named, Sizes)
  <2> DEFINE field == Typed(app.name, k)
             clip == Clip(k, app.name.field)
  <2>1. app.name # None => IsInput(field, Sizes) /\ Listed(clip)
    BY <1>1, TypedOk DEF AppOk
  <2> HIDE DEF field, clip
  <2>2. named = [app EXCEPT !.name = field, !.clipboard = clip]
    BY DEF field, clip
  <2> HIDE DEF named
  <2> QED
    BY <2>1, <2>2 DEF AppOk
<1>8. /\ AppOk(CommitTuning(app), Sizes) /\ AppOk(CommitCurveNumber(app), Sizes)
      /\ AppOk(CommitRename(app), Sizes) /\ AppOk(CommitCustomDialog(app), Sizes)
      /\ AppOk(CloseCustomDialog(app), Sizes) /\ AppOk(CloseCurveDialog(app), Sizes)
      /\ AppOk(CommitCurveName(app), Sizes)
  BY TuningOk, CommitNumberOk, RenameOk, CloseCustomOk, CloseCurveOk, CurveNameOk
<1> HIDE DEF renamed, titled, named, untuned, unnumbered, unrenamed, unasked
<1>9. AppOk(AfterKey(k), Sizes)
  BY <1>2, <1>3, <1>4, <1>5, <1>6, <1>7, <1>8
<1> QED
  BY <1>9 DEF KeyDown, Kept

(* The timer.                                                              *)
LEMMA TickKeeps ==
  ASSUME NEW Sizes, Limits(Sizes), NamesSound(Sizes), NEW look, Tick(look)
  PROVE  Kept(Sizes)
<1> USE DEF Limits, NamesSound
<1> DEFINE taken == IF fresh THEN Taken(app, feed) ELSE app
           seen == IF look THEN HotReloaded(taken) ELSE taken
           synced == Synced(seen)
           noted == [synced EXCEPT !.mistaken = @ \/ Mistook(taken)]
<1>1. app' = noted /\ UNCHANGED <<site, feed>>
  BY Zenon DEF Tick
<1>2. AppOk(taken, Sizes)
  BY TakenOk, Zenon
<1> HIDE DEF taken
<1>3. AppOk(seen, Sizes)
  BY <1>2, HotReloadedOk, Zenon
<1> HIDE DEF seen
<1>4. AppOk(synced, Sizes)
  BY <1>3, SyncedOk
<1> HIDE DEF synced
<1>5. NamesKept(synced, noted)
  BY <1>4 DEF NamesKept, AppOk
<1> QED
  BY <1>1, <1>4, <1>5, KeptOk DEF Kept

(* The queue is shorter: names are not touched.                            *)
LEMMA QueueKept ==
  ASSUME NEW Sizes, AppOk(app, Sizes), NEW out
  PROVE  AppOk([app EXCEPT !.out = out], Sizes)
<1>1. NamesKept(app, [app EXCEPT !.out = out])
  BY DEF NamesKept
<1> QED
  BY <1>1, KeptOk, Zenon

(* The file is saved from elsewhere.                                       *)
LEMMA EditedKeeps ==
  ASSUME NEW Sizes, Limits(Sizes), NamesSound(Sizes), NEW file \in Here.files, HandEdit(file)
  PROVE  Kept(Sizes)
<1> USE DEF Limits, NamesSound
<1>1. IsFile(file, Sizes)
  BY DEF Here
<1>2. app' = [app EXCEPT !.file = file, !.news = TRUE] /\ UNCHANGED <<site, feed>>
  BY DEF HandEdit
<1>3. AppOk([app EXCEPT !.file = file, !.news = TRUE], Sizes)
  BY <1>1 DEF AppOk
<1> QED
  BY <1>2, <1>3 DEF Kept

(* The states the client publishes are of finitely many fans.              *)
LEMMA FeedSound ==
  /\ IsState(Connecting) /\ IsState(Gone) /\ IsState(Busy) /\ IsState(Snapshot)
<1>1. DOMAIN Snapshot.fans = Fans
  BY DEF Snapshot
<1> QED
  BY <1>1, NameAssumption DEF IsState

(* Every step of the window, its file and the service keeps names sound.   *)
LEMMA NamesStep ==
  ASSUME NEW Sizes, Limits(Sizes), NamesSound(Sizes), [Next]_vars
  PROVE  NamesSound(Sizes)'
<1>0. Names(Sizes) /\ AppOk(app, Sizes) /\ site \in DOMAIN Sites /\ IsState(feed)
  BY DEF Limits, NamesSound
<1>1. ASSUME Kept(Sizes) PROVE NamesSound(Sizes)'
  BY <1>0, <1>1 DEF Kept, NamesSound
<1>2. CASE UserAction
  <2>1. CASE FanAction
    BY <1>0, <1>1, <2>1, FanKeeps
  <2>2. CASE CurveAction
    BY <1>0, <1>1, <2>2, CurveKeeps
  <2>3. CASE OtherAction
    BY <1>0, <1>1, <2>3, OtherKeeps
  <2>4. CASE \E k \in Here.typed : KeyDown(k)
    BY <1>1, <2>4, KeyKeeps
  <2> QED
    BY <1>2, <2>1, <2>2, <2>3, <2>4 DEF UserAction
<1>3. CASE \E look \in BOOLEAN : Tick(look)
  BY <1>1, <1>3, TickKeeps
<1>4. CASE \E file \in Here.files : HandEdit(file)
  BY <1>1, <1>4, EditedKeeps
<1>5. CASE \E n \in 1..Len(app.out) : Serve(n)
  <2>1. (\E out : app' = [app EXCEPT !.out = out]) /\ UNCHANGED <<site, feed>>
    BY <1>5, Zenon DEF Serve
  <2> QED
    BY <1>0, <1>1, <2>1, QueueKept, Zenon DEF Kept
<1>6. CASE \E n \in 0..Len(app.out) : Stop(n)
  <2>1. (\E out : app' = [app EXCEPT !.out = out]) /\ site' = site /\ feed' = Gone
    BY <1>6, Zenon DEF Stop
  <2>2. AppOk(app', Sizes)
    BY <1>0, <2>1, QueueKept, Zenon
  <2> QED
    BY <1>0, <2>1, <2>2, FeedSound DEF NamesSound
<1>7. CASE Forsake
  <2>1. (\E out : app' = [app EXCEPT !.out = out]) /\ UNCHANGED <<site, feed>>
    BY <1>7, Zenon DEF Forsake
  <2> QED
    BY <1>0, <1>1, <2>1, QueueKept, Zenon DEF Kept
<1>8. CASE Publish
  BY <1>0, <1>8, FeedSound DEF Publish, NamesSound
<1>9. CASE Start
  BY <1>0, <1>9, FeedSound DEF Start, NamesSound
<1>10. CASE UNCHANGED vars
  BY <1>0, <1>1, <1>10 DEF vars, Kept
<1> QED
  BY <1>2, <1>3, <1>4, <1>5, <1>6, <1>7, <1>8, <1>9, <1>10, Zenon DEF Next

(* A window opens on its file.                                             *)
LEMMA NamesInit ==
  ASSUME NEW Sizes, Limits(Sizes), Init
  PROVE  NamesSound(Sizes)
<1>1. site \in DOMAIN Sites /\ IsFile(Here.file, Sizes) /\ app = App0(Here.file) /\ feed = Connecting
  BY DEF Init, Limits, Here
<1>2. IsDoc(Load(Here.file), Sizes)
  BY <1>1, LoadedDoc DEF Limits
<1>3. Listed(<<>>)
  BY DEF Listed
<1>4. AppOk(App0(Here.file), Sizes)
  BY <1>1, <1>2, <1>3, FeedSound DEF App0, AppOk, IsInput
<1> QED
  BY <1>1, <1>4, FeedSound DEF NamesSound

(* A file as the user may leave it holds names.                            *)
LEMMA FileNames ==
  ASSUME NEW Sizes, NEW file, DOMAIN file = {"form", "doc"}, IsConfig(file.doc),
         \A text : IsText(text) /\ (\/ \E table \in {file.doc.curves, file.doc.customs} :
                                         \E i \in DOMAIN table : text = table[i].name
                                    \/ \E k \in DOMAIN file.doc.values :
                                         k[1] = "chips" /\ text = file.doc.values[k])
                   => Cardinality(Starts(text)) \in Sizes
  PROVE  IsFile(file, Sizes)
<1> DEFINE doc == file.doc
<1>1. \A text : IsText(text) => Sound(text)
  BY DEF IsText, Sound, Listed
<1>2. DOMAIN doc = {"curves", "customs", "dashboard", "hidden", "values"}
  BY DEF IsConfig, BlankDoc
<1>3. ASSUME NEW table \in {doc.curves, doc.customs} PROVE AreEntries(table, Sizes)
  <2>1. Listed(table)
    BY <1>3 DEF IsConfig, Listed
  <2>2. ASSUME NEW i \in DOMAIN table PROVE IsEntry(table[i], Sizes)
    <3>1. "name" \in DOMAIN table[i] /\ IsText(table[i].name)
      BY <1>3, <2>2 DEF IsConfig
    <3> QED
      BY <1>1, <1>3, <2>2, <3>1 DEF IsEntry, IsName
  <2> QED
    BY <2>1, <2>2 DEF AreEntries
<1>4. AreNames(doc.values, Sizes)
  <2>1. ASSUME NEW k \in DOMAIN doc.values, k[1] = "chips" PROVE IsName(doc.values[k], Sizes)
    <3>1. IsText(doc.values[k])
      BY <2>1 DEF IsConfig
    <3> QED
      BY <1>1, <2>1, <3>1 DEF IsName
  <2> QED
    BY <2>1 DEF AreNames
<1> QED
  BY <1>2, <1>3, <1>4 DEF IsFile, IsDoc

(* Of any size, names are what the installations write, ...                *)
LEMMA AnySize == Limits(Nat)
<1>1. Names(Nat) /\ MaxName \in Nat
  BY NameAssumption DEF Names, Room
<1>2. ASSUME NEW s \in DOMAIN Sites, NEW file \in Sites[s].files \cup {Sites[s].file}
      PROVE  IsFile(file, Nat)
  <2>1. DOMAIN file = {"form", "doc"} /\ IsConfig(file.doc)
    BY NameAssumption
  <2>2. \A text : IsText(text) => Cardinality(Starts(text)) \in Nat
    BY CharsCounted DEF IsText, Listed
  <2> QED
    BY <2>1, <2>2, FileNames
<1> QED
  BY <1>1, <1>2 DEF Limits

(* ... and of as many characters as a field takes, if theirs are.          *)
LEMMA ShortSize ==
  ASSUME ShortNames
  PROVE  Limits(0..MaxName)
<1>0. MaxName \in Nat \ {0}
  BY NameAssumption
<1>1. Names(0..MaxName) /\ MaxName \in 0..MaxName
  BY <1>0 DEF Names, Room
<1>2. ASSUME NEW s \in DOMAIN Sites, NEW file \in Sites[s].files \cup {Sites[s].file}
      PROVE  IsFile(file, 0..MaxName)
  <2>1. DOMAIN file = {"form", "doc"} /\ IsConfig(file.doc)
    BY NameAssumption
  <2>2. \A text : IsText(text) /\ Short(text) => Cardinality(Starts(text)) \in 0..MaxName
    <3>1. \A text : IsText(text) => Listed(text)
      BY DEF IsText, Listed
    <3>2. \A text : IsText(text) => /\ Cardinality(Starts(text)) \in Nat
                                    /\ Len(Chars(text)) = Cardinality(Starts(text))
      BY <3>1, CharsCounted
    <3> QED
      BY <1>0, <3>2 DEF Short
  <2>3. /\ \A table \in {file.doc.curves, file.doc.customs} :
             \A i \in DOMAIN table : Short(table[i].name)
        /\ \A k \in DOMAIN file.doc.values : k[1] = "chips" => Short(file.doc.values[k])
    BY DEF ShortNames
  <2> QED
    BY <2>1, <2>2, <2>3, FileNames
<1> QED
  BY <1>1, <1>2 DEF Limits

(* Carets and selections stay between characters, whatever is typed, cut,  *)
(* pasted or skipped, whatever the names in the file and however many      *)
(* windows, sensors and fans there are: no slice of a name panics.         *)
THEOREM CaretsCorrect == Spec => []CaretsSliceable
<1>1. Init => NamesSound(Nat)
  BY AnySize, NamesInit
<1>2. NamesSound(Nat) /\ [Next]_vars => NamesSound(Nat)'
  BY AnySize, NamesStep
<1>3. NamesSound(Nat) => CaretsSliceable
  BY DEF NamesSound, AppOk, IsInput, IsField, CaretsSliceable, Inputs
<1> QED
  BY <1>1, <1>2, <1>3, PTL DEF Spec

(* No name that is typed, pasted or shown is longer than the fields allow, *)
(* in characters, unless the file already held such a name.                *)
THEOREM FitCorrect == Spec => []NamesFit
<1>1. ShortNames /\ Init => NamesSound(0..MaxName)
  BY ShortSize, NamesInit
<1>2. ShortNames /\ NamesSound(0..MaxName) /\ [Next]_vars => NamesSound(0..MaxName)'
  BY ShortSize, NamesStep
<1>3. (ShortNames => NamesSound(0..MaxName)) => NamesFit
  <2> SUFFICES ASSUME ShortNames, NamesSound(0..MaxName), NEW input \in Inputs
               PROVE  Short(input.field.text)
    BY DEF NamesFit
  <2>1. IsField(input.field, 0..MaxName)
    BY DEF NamesSound, AppOk, IsInput, Inputs
  <2>2. Listed(input.field.text) /\ Cardinality(Starts(input.field.text)) \in 0..MaxName
    BY <2>1 DEF IsField
  <2>3. Len(Chars(input.field.text)) = Cardinality(Starts(input.field.text))
    BY <2>2, CharsCounted
  <2> QED
    BY <2>2, <2>3, NameAssumption DEF Short
<1> DEFINE Inv == ShortNames => NamesSound(0..MaxName)
<1>4. Init => Inv
  BY <1>1
<1>5. Inv /\ [Next]_vars => Inv'
  BY <1>2
<1>6. Inv => NamesFit
  BY <1>3
<1> HIDE DEF Inv
<1> QED
  BY <1>4, <1>5, <1>6, PTL DEF Spec
=============================================================================
