---------------------------- MODULE ReleaseProofs ----------------------------
(***************************************************************************)
(* Theorems about HostAbi and ReleaseLine for any sources whose lists name *)
(* each function once, any definitions and any number of types, checked by *)
(* TLAPS: what the worklist, the order of functions and the numbering do,  *)
(* when two ABIs have one canonical form, what the comparison finds, and   *)
(* that the release line keeps its promises.                               *)
(*                                                                         *)
(* The worklist, the concatenation of lists and the entering of ids are    *)
(* recursive.  Facts about them are proved by induction on a position: the *)
(* least element of a set of counterexamples, Least, is the induction.     *)
(***************************************************************************)
EXTENDS ReleaseProperties, FiniteSetTheorems, SequenceTheorems, FunctionTheorems, TLAPS

-----------------------------------------------------------------------------
(* Induction on numbers, and concatenations of sequences.                  *)

Lt == {ss \in Nat \X Nat : ss[1] < ss[2]}

\* The order of numbers has no endless descent.
LEMMA LtWF == IsWellFoundedOn(Lt, Nat)
<1>1. OpToRel(<, Nat) = Lt
  BY DEF OpToRel, Lt
<1> QED BY <1>1, NatLessThanWellFounded

\* A set of numbers that is not empty has a least element.
LEMMA Least ==
  ASSUME NEW T \in SUBSET Nat, T # {}
  PROVE \E x \in T : \A y \in T : x <= y
<1>1. \E x \in T : \A y \in T : ~ (<<y, x>> \in Lt)
  BY LtWF, WFMin
<1>2. PICK x \in T : \A y \in T : ~ (<<y, x>> \in Lt)
  BY <1>1
<1>3. ASSUME NEW y \in T PROVE x <= y
  <2>1. <<y, x>> \notin Lt BY <1>2
  <2>2. <<y, x>> \in Nat \X Nat OBVIOUS
  <2>3. ~(y < x) BY <2>1, <2>2 DEF Lt
  <2> QED BY <2>3
<1> QED BY <1>3

\* Induction: a set with 0 and with the successor of each of its numbers has
\* all numbers.
LEMMA InductSet ==
  ASSUME NEW P, 0 \in P, \A n \in Nat : n \in P => n + 1 \in P
  PROVE  Nat \subseteq P
<1> SUFFICES ASSUME Nat \ P # {} PROVE FALSE OBVIOUS
<1>1. PICK x \in Nat \ P : \A y \in Nat \ P : x <= y BY Least
<1>2. x # 0 BY <1>1
<1>3. x - 1 \in Nat BY <1>1, <1>2
<1>4. x - 1 \in P BY <1>1, <1>3
<1>5. (x - 1) + 1 \in P BY <1>3, <1>4
<1> QED BY <1>5, <1>1

\* FlattenSeq takes one sequence after another.
LEMMA FlattenSteps ==
  ASSUME NEW ss, NEW N \in Nat, N # 0, Len(ss) = N
  PROVE  \E h : /\ h = [i \in 1..N |-> IF i = 1 THEN ss[i] ELSE h[i-1] \o ss[i]]
                /\ FlattenSeq(ss) = h[N]
<1> DEFINE P == {n \in Nat : \E g : g = [i \in 1..n |-> IF i = 1 THEN ss[i] ELSE g[i-1] \o ss[i]]}
<1>1. 0 \in P
  <2> DEFINE g == [i \in 1..0 |-> ss[i]]
  <2>1. g = [i \in 1..0 |-> IF i = 1 THEN ss[i] ELSE g[i-1] \o ss[i]]
    OBVIOUS
  <2> QED BY <2>1
<1>2. ASSUME NEW n \in Nat, n \in P PROVE n + 1 \in P
  <2>1. PICK g : g = [i \in 1..n |-> IF i = 1 THEN ss[i] ELSE g[i-1] \o ss[i]]
    BY <1>2
  <2> DEFINE h == [i \in 1..(n+1) |-> IF i \in 1..n THEN g[i]
                                      ELSE IF i = 1 THEN ss[i] ELSE g[i-1] \o ss[i]]
  <2>2. h = [i \in 1..(n+1) |-> IF i = 1 THEN ss[i] ELSE h[i-1] \o ss[i]]
    <3> SUFFICES ASSUME NEW i \in 1..(n+1)
                 PROVE  h[i] = IF i = 1 THEN ss[i] ELSE h[i-1] \o ss[i]
      OBVIOUS
    <3>1. CASE i \in 1..n
      <4>1. h[i] = g[i] BY <3>1
      <4>2. g[i] = IF i = 1 THEN ss[i] ELSE g[i-1] \o ss[i] BY <3>1, <2>1
      <4>3. i # 1 => i - 1 \in 1..n /\ i - 1 \in 1..(n+1) BY <3>1
      <4>4. i # 1 => h[i-1] = g[i-1] BY <4>3
      <4> QED BY <4>1, <4>2, <4>4
    <3>2. CASE i = n + 1
      <4>1. i # 1 => i - 1 \in 1..n BY <3>2
      <4> QED BY <4>1, <3>2
    <3> QED BY <3>1, <3>2
  <2> HIDE DEF h
  <2>3. \E k : k = [i \in 1..(n+1) |-> IF i = 1 THEN ss[i] ELSE k[i-1] \o ss[i]]
    BY <2>2
  <2>4. n + 1 \in Nat OBVIOUS
  <2> QED BY <2>3, <2>4, Zenon
<1> HIDE DEF P
<1>3. N \in P BY <1>1, <1>2, InductSet
<1>4. \E g : g = [i \in 1..N |-> IF i = 1 THEN ss[i] ELSE g[i-1] \o ss[i]]
  BY <1>3 DEF P
<1> DEFINE f == CHOOSE g : g = [i \in 1..N |-> IF i = 1 THEN ss[i] ELSE g[i-1] \o ss[i]]
<1>5. f = [i \in 1..N |-> IF i = 1 THEN ss[i] ELSE f[i-1] \o ss[i]]
  BY <1>4
<1>6. FlattenSeq(ss) = f[N]
  BY DEF FlattenSeq
<1> QED BY <1>5, <1>6

\* A sequence of ids with each replaced by its number.
Numbered(s, p) == [n \in DOMAIN s |-> p[s[n]]]

\* What a sequence is made of.
LEMMA SeqFacts ==
  ASSUME NEW S, NEW s \in Seq(S)
  PROVE  /\ Len(s) \in Nat /\ DOMAIN s = 1..Len(s) /\ s = [n \in 1..Len(s) |-> s[n]]
         /\ \A n \in DOMAIN s : s[n] \in S
         /\ ToSet(s) = {s[n] : n \in 1..Len(s)} /\ ToSet(s) \subseteq S
BY DEF ToSet

\* FlattenSeq as a fold that starts with the empty sequence.
LEMMA FlattenFold ==
  ASSUME NEW S, NEW ss \in Seq(Seq(S))
  PROVE  \E h \in [0..Len(ss) -> Seq(S)] :
            /\ h[0] = <<>> /\ FlattenSeq(ss) = h[Len(ss)]
            /\ \A i \in 1..Len(ss) : h[i] = h[i-1] \o ss[i]
<1>1. CASE Len(ss) = 0
  <2>1. FlattenSeq(ss) = ss /\ ss = <<>> BY <1>1 DEF FlattenSeq
  <2> DEFINE h == [i \in 0..Len(ss) |-> <<>>]
  <2>2. <<>> \in Seq(S) OBVIOUS
  <2>3. h \in [0..Len(ss) -> Seq(S)] BY <2>2
  <2>4. h[0] = <<>> /\ FlattenSeq(ss) = h[Len(ss)] BY <2>1, <1>1
  <2>5. \A i \in 1..Len(ss) : h[i] = h[i-1] \o ss[i] BY <1>1
  <2> HIDE DEF h
  <2> QED BY <2>3, <2>4, <2>5
<1>2. CASE Len(ss) # 0
  <2> DEFINE N == Len(ss)
  <2>0. N \in Nat /\ N # 0 BY <1>2
  <2>1. PICK f : /\ f = [i \in 1..N |-> IF i = 1 THEN ss[i] ELSE f[i-1] \o ss[i]]
                 /\ FlattenSeq(ss) = f[N]
    BY <2>0, FlattenSteps
  <2> DEFINE P == {n \in Nat : n + 1 \in 1..N => f[n + 1] \in Seq(S)}
  <2>2. 0 \in P
    <3>1. f[1] = ss[1] BY <2>0, <2>1
    <3>2. ss[1] \in Seq(S) BY <2>0
    <3> QED BY <3>1, <3>2
  <2>3. ASSUME NEW n \in Nat, n \in P PROVE n + 1 \in P
    <3> SUFFICES ASSUME n + 2 \in 1..N PROVE f[n + 2] \in Seq(S)
      OBVIOUS
    <3>0. n + 2 # 1 /\ (n + 2) - 1 = n + 1 OBVIOUS
    <3>1. f[n + 2] = f[n + 1] \o ss[n + 2] BY <2>1, <3>0
    <3>2. f[n + 1] \in Seq(S) BY <2>3
    <3>3. ss[n + 2] \in Seq(S) OBVIOUS
    <3> QED BY <3>1, <3>2, <3>3, ConcatProperties
  <2> HIDE DEF P
  <2>4. Nat \subseteq P BY <2>2, <2>3, InductSet
  <2>5. \A i \in 1..N : f[i] \in Seq(S)
    <3> TAKE i \in 1..N
    <3>1. i - 1 \in P BY <2>4, <2>0
    <3> QED BY <3>1, <2>0 DEF P
  <2> DEFINE h == [i \in 0..N |-> IF i = 0 THEN <<>> ELSE f[i]]
  <2>6. <<>> \in Seq(S) OBVIOUS
  <2>7. h \in [0..N -> Seq(S)] BY <2>5, <2>6, <2>0
  <2>8. h[0] = <<>> /\ FlattenSeq(ss) = h[N] BY <2>1, <2>0
  <2>9. \A i \in 1..N : h[i] = h[i-1] \o ss[i]
    <3> TAKE i \in 1..N
    <3>1. h[i] = f[i] BY <2>0
    <3>2. CASE i = 1
      <4>1. h[i-1] = <<>> /\ f[i] = ss[i] BY <3>2, <2>0, <2>1
      <4>2. ss[i] \in Seq(S) BY <2>0
      <4>3. <<>> \o ss[i] = ss[i] BY <4>2, ConcatEmptySeq
      <4> QED BY <4>1, <4>3, <3>1
    <3>3. CASE i # 1
      <4>1. f[i] = f[i-1] \o ss[i] BY <3>3, <2>1
      <4>2. h[i-1] = f[i-1] BY <3>3, <2>0
      <4> QED BY <4>1, <4>2, <3>1
    <3> QED BY <3>2, <3>3
  <2> HIDE DEF h
  <2> QED BY <2>7, <2>8, <2>9
<1> QED BY <1>1, <1>2

\* The elements of a concatenation of two sequences.
LEMMA ToSetConcat ==
  ASSUME NEW S, NEW s \in Seq(S), NEW t \in Seq(S)
  PROVE  ToSet(s \o t) = ToSet(s) \cup ToSet(t)
<1>1. s \o t \in Seq(S) /\ Len(s \o t) = Len(s) + Len(t) BY ConcatProperties
<1>0. /\ ToSet(s \o t) = {(s \o t)[n] : n \in 1..(Len(s) + Len(t))}
      /\ Len(s) \in Nat /\ Len(t) \in Nat
  BY <1>1 DEF ToSet
<1> HIDE DEF ToSet
<1>2. ASSUME NEW x \in ToSet(s) PROVE x \in ToSet(s \o t)
  <2>1. PICK n \in 1..Len(s) : x = s[n] BY SeqFacts
  <2>2. (s \o t)[n] = x /\ n \in 1..(Len(s) + Len(t)) BY <2>1, <1>0, ConcatProperties
  <2> QED BY <2>2, <1>0
<1>3. ASSUME NEW x \in ToSet(t) PROVE x \in ToSet(s \o t)
  <2>1. PICK n \in 1..Len(t) : x = t[n] BY SeqFacts
  <2>2. Len(s) + n \in 1..(Len(s) + Len(t)) /\ (s \o t)[Len(s) + n] = x
    BY <2>1, <1>0, ConcatProperties
  <2> QED BY <2>2, <1>0
<1>4. ASSUME NEW x \in ToSet(s \o t) PROVE x \in ToSet(s) \cup ToSet(t)
  <2>1. PICK n \in 1..(Len(s) + Len(t)) : x = (s \o t)[n] BY <1>0
  <2>2. CASE n <= Len(s)
    <3>1. x = s[n] /\ n \in 1..Len(s) BY <2>1, <2>2, ConcatProperties
    <3> QED BY <3>1, SeqFacts
  <2>3. CASE n > Len(s)
    <3>1. x = t[n - Len(s)] /\ n - Len(s) \in 1..Len(t) BY <2>1, <2>3, ConcatProperties
    <3> QED BY <3>1, SeqFacts
  <2> QED BY <2>2, <2>3
<1> QED BY <1>2, <1>3, <1>4

\* The elements of a concatenation of many.
LEMMA FlattenElements ==
  ASSUME NEW S, NEW ss \in Seq(Seq(S))
  PROVE  /\ FlattenSeq(ss) \in Seq(S)
         /\ ToSet(FlattenSeq(ss)) = UNION {ToSet(ss[i]) : i \in 1..Len(ss)}
<1> DEFINE N == Len(ss)
<1>0. N \in Nat /\ \A i \in 1..N : ss[i] \in Seq(S) BY SeqFacts
<1>1. PICK h \in [0..N -> Seq(S)] :
         /\ h[0] = <<>> /\ FlattenSeq(ss) = h[N]
         /\ \A i \in 1..N : h[i] = h[i-1] \o ss[i]
  BY FlattenFold
<1> DEFINE P == {n \in Nat : n <= N => ToSet(h[n]) = UNION {ToSet(ss[i]) : i \in 1..n}}
<1>2. 0 \in P
  <2>1. ToSet(h[0]) = {} BY <1>1 DEF ToSet
  <2> QED BY <2>1
<1>3. ASSUME NEW n \in Nat, n \in P PROVE n + 1 \in P
  <2> SUFFICES ASSUME n + 1 <= N
               PROVE  ToSet(h[n + 1]) = UNION {ToSet(ss[i]) : i \in 1..(n + 1)}
    OBVIOUS
  <2>0. n + 1 \in 1..N /\ n \in 0..N /\ (n + 1) - 1 = n BY <1>0
  <2>1. h[n + 1] = h[n] \o ss[n + 1] BY <1>1, <2>0
  <2>2. h[n] \in Seq(S) /\ ss[n + 1] \in Seq(S) BY <1>0, <2>0
  <2>3. ToSet(h[n + 1]) = ToSet(h[n]) \cup ToSet(ss[n + 1]) BY <2>1, <2>2, ToSetConcat
  <2>4. ToSet(h[n]) = UNION {ToSet(ss[i]) : i \in 1..n} BY <1>3
  <2>5. 1..(n + 1) = 1..n \cup {n + 1} OBVIOUS
  <2> QED BY <2>3, <2>4, <2>5
<1> HIDE DEF P
<1>4. N \in P BY <1>0, <1>2, <1>3, InductSet
<1> QED BY <1>4, <1>1 DEF P

\* Renumbering goes through a concatenation of two.
LEMMA NumberedConcat ==
  ASSUME NEW S, NEW s \in Seq(S), NEW t \in Seq(S), NEW p
  PROVE  Numbered(s \o t, p) = Numbered(s, p) \o Numbered(t, p)
<1> DEFINE T == {p[x] : x \in S}
<1>1. Numbered(s, p) \in Seq(T) /\ Len(Numbered(s, p)) = Len(s)
      /\ Numbered(t, p) \in Seq(T) /\ Len(Numbered(t, p)) = Len(t)
  BY DEF Numbered
<1>2. s \o t \in Seq(S) /\ Len(s \o t) = Len(s) + Len(t) BY ConcatProperties
<1>3. Numbered(s \o t, p) \in Seq(T) /\ Len(Numbered(s \o t, p)) = Len(s) + Len(t)
  BY <1>2 DEF Numbered
<1>4. Numbered(s, p) \o Numbered(t, p) \in Seq(T)
      /\ Len(Numbered(s, p) \o Numbered(t, p)) = Len(s) + Len(t)
  <2> HIDE DEF T
  <2>1. ASSUME NEW u \in Seq(T), NEW v \in Seq(T), Len(u) = Len(s), Len(v) = Len(t)
        PROVE  u \o v \in Seq(T) /\ Len(u \o v) = Len(s) + Len(t)
    BY <2>1
  <2> QED BY <1>1, <2>1
<1> HIDE DEF T
<1>5. ASSUME NEW n \in 1..(Len(s) + Len(t))
      PROVE  Numbered(s \o t, p)[n] = (Numbered(s, p) \o Numbered(t, p))[n]
  <2>1. Numbered(s \o t, p)[n] = p[(s \o t)[n]] BY <1>2 DEF Numbered
  <2>2. CASE n <= Len(s)
    <3>1. (s \o t)[n] = s[n] BY <2>2, ConcatProperties
    <3>2. (Numbered(s, p) \o Numbered(t, p))[n] = Numbered(s, p)[n]
      BY <2>2, <1>1, ConcatProperties
    <3>3. Numbered(s, p)[n] = p[s[n]] BY <2>2 DEF Numbered
    <3> QED BY <3>1, <3>2, <3>3, <2>1
  <2>3. CASE n > Len(s)
    <3>1. (s \o t)[n] = t[n - Len(s)] BY <2>3, ConcatProperties
    <3>2. (Numbered(s, p) \o Numbered(t, p))[n] = Numbered(t, p)[n - Len(s)]
      BY <2>3, <1>1, ConcatProperties
    <3>4. n - Len(s) \in 1..Len(t) BY <2>3
    <3>3. Numbered(t, p)[n - Len(s)] = p[t[n - Len(s)]] BY <3>4 DEF Numbered
    <3> QED BY <3>1, <3>2, <3>3, <2>1
  <2>4. n <= Len(s) \/ n > Len(s) BY SeqFacts
  <2> QED BY <2>2, <2>3, <2>4
<1> QED BY <1>3, <1>4, <1>5, SeqEqual

\* Renumbering goes through a concatenation of many.
LEMMA FlattenNumbered ==
  ASSUME NEW S, NEW T, NEW ss \in Seq(Seq(S)), NEW tt \in Seq(Seq(T)), NEW p,
         Len(tt) = Len(ss), \A i \in 1..Len(ss) : tt[i] = Numbered(ss[i], p)
  PROVE  FlattenSeq(tt) = Numbered(FlattenSeq(ss), p)
<1>6. ASSUME NEW u \in Seq(S), NEW v \in Seq(S)
      PROVE  Numbered(u \o v, p) = Numbered(u, p) \o Numbered(v, p)
  BY NumberedConcat
<1> DEFINE N == Len(ss)
<1>0. N \in Nat /\ \A i \in 1..N : ss[i] \in Seq(S) BY SeqFacts
<1>1. PICK h \in [0..N -> Seq(S)] :
         /\ h[0] = <<>> /\ FlattenSeq(ss) = h[N]
         /\ \A i \in 1..N : h[i] = h[i-1] \o ss[i]
  BY FlattenFold
<1>2. PICK k \in [0..N -> Seq(T)] :
         /\ k[0] = <<>> /\ FlattenSeq(tt) = k[N]
         /\ \A i \in 1..N : k[i] = k[i-1] \o tt[i]
  BY FlattenFold
<1> DEFINE P == {n \in Nat : n <= N => k[n] = Numbered(h[n], p)}
<1>3. 0 \in P
  BY <1>1, <1>2 DEF Numbered
<1>4. ASSUME NEW n \in Nat, n \in P PROVE n + 1 \in P
  <2> SUFFICES ASSUME n + 1 <= N PROVE k[n + 1] = Numbered(h[n + 1], p)
    OBVIOUS
  <2>0. n + 1 \in 1..N /\ n \in 0..N /\ (n + 1) - 1 = n BY <1>0
  <2>1. h[n + 1] = h[n] \o ss[n + 1] BY <1>1, <2>0
  <2>2. k[n + 1] = k[n] \o tt[n + 1] BY <1>2, <2>0
  <2>3. k[n] = Numbered(h[n], p) BY <1>4, <2>0
  <2>4. h[n] \in Seq(S) /\ ss[n + 1] \in Seq(S) BY <1>0, <2>0
  <2>5. tt[n + 1] = Numbered(ss[n + 1], p) BY <2>0
  <2>6. Numbered(h[n] \o ss[n + 1], p) = Numbered(h[n], p) \o Numbered(ss[n + 1], p)
    BY <2>4, <1>6
  <2> QED BY <2>1, <2>2, <2>3, <2>5, <2>6
<1> HIDE DEF P
<1>5. N \in P BY <1>0, <1>3, <1>4, InductSet
<1> QED BY <1>0, <1>5, <1>1, <1>2 DEF P

-----------------------------------------------------------------------------
(* The ids of a list, each entered once.                                   *)

\* assign_canonical_id for one id.
Entered(list, id) == IF Contains(list, id) THEN list ELSE Append(list, id)

\* One step of the fold that Assign is.
Folding(g, w, ids, s) ==
    IF s = {} THEN w ELSE Entered(g[s \ {Max(s)}], ids[Max(s)])

\* The largest of the first numbers is the last one.
LEMMA MaxFacts ==
  ASSUME NEW n \in Nat, NEW s \in SUBSET (1..n), n \in s
  PROVE  Max(s) = n
<1>1. \E x \in s : \A y \in s : x >= y OBVIOUS
<1>2. Max(s) \in s /\ \A y \in s : Max(s) >= y BY <1>1 DEF Max
<1>3. Max(s) \in 1..n /\ Max(s) >= n BY <1>2
<1> QED BY <1>3

\* The function that Assign folds with exists.
LEMMA FoldingExists ==
  ASSUME NEW w, NEW ids, NEW N \in Nat
  PROVE  \E g : g = [s \in SUBSET (1..N) |-> Folding(g, w, ids, s)]
<1> DEFINE P == {n \in Nat : \E g : g = [s \in SUBSET (1..n) |-> Folding(g, w, ids, s)]}
<1>1. 0 \in P
  <2> DEFINE g == [s \in SUBSET (1..0) |-> w]
  <2>1. \A s \in SUBSET (1..0) : s = {} OBVIOUS
  <2>2. g = [s \in SUBSET (1..0) |-> Folding(g, w, ids, s)]
    BY <2>1 DEF Folding
  <2> HIDE DEF g
  <2>3. \E k : k = [s \in SUBSET (1..0) |-> Folding(k, w, ids, s)] BY <2>2
  <2> QED BY <2>3, Zenon
<1>2. ASSUME NEW n \in Nat, n \in P PROVE n + 1 \in P
  <2>1. PICK g : g = [s \in SUBSET (1..n) |-> Folding(g, w, ids, s)]
    BY <1>2
  <2> DEFINE h == [s \in SUBSET (1..(n + 1)) |->
                     IF s \in SUBSET (1..n) THEN g[s] ELSE Folding(g, w, ids, s)]
  <2>2. h = [s \in SUBSET (1..(n + 1)) |-> Folding(h, w, ids, s)]
    <3> SUFFICES ASSUME NEW s \in SUBSET (1..(n + 1)) PROVE h[s] = Folding(h, w, ids, s)
      BY Zenon
    <3>0. SUBSET (1..n) \subseteq SUBSET (1..(n + 1)) OBVIOUS
    <3>1. CASE s \in SUBSET (1..n)
      <4>1. h[s] = g[s] BY <3>1
      <4>2. g[s] = Folding(g, w, ids, s) BY <2>1, <3>1
      <4>3. s \ {Max(s)} \in SUBSET (1..n) BY <3>1
      <4>4. h[s \ {Max(s)}] = g[s \ {Max(s)}] BY <4>3, <3>0
      <4> QED BY <4>1, <4>2, <4>4 DEF Folding
    <3>2. CASE s \notin SUBSET (1..n)
      <4>1. n + 1 \in s BY <3>2
      <4>2. Max(s) = n + 1 BY <4>1, MaxFacts
      <4>3. s \ {Max(s)} \in SUBSET (1..n) BY <4>2
      <4>4. h[s \ {Max(s)}] = g[s \ {Max(s)}] BY <4>3, <3>0
      <4>5. h[s] = Folding(g, w, ids, s) BY <3>2
      <4> QED BY <4>4, <4>5 DEF Folding
    <3> QED BY <3>1, <3>2
  <2> HIDE DEF h
  <2>3. \E k : k = [s \in SUBSET (1..(n + 1)) |-> Folding(k, w, ids, s)] BY <2>2
  <2>4. n + 1 \in Nat OBVIOUS
  <2> QED BY <2>3, <2>4, Zenon
<1> HIDE DEF P
<1>3. N \in P BY <1>1, <1>2, InductSet
<1> QED BY <1>3 DEF P

\* h has the list after each of the ids.
Enters(h, w, ids) ==
    /\ h[0] = w /\ Assign(w, ids) = h[Len(ids)]
    /\ \A i \in 1..Len(ids) : h[i] = Entered(h[i-1], ids[i])

\* Assign enters one id after another.
LEMMA AssignFold ==
  ASSUME NEW S, NEW w \in Seq(S), NEW ids \in Seq(S)
  PROVE  \E h \in [0..Len(ids) -> Seq(S)] : Enters(h, w, ids)
<1> DEFINE N == Len(ids)
<1>0. N \in Nat /\ DOMAIN ids = 1..N /\ \A i \in 1..N : ids[i] \in S BY SeqFacts
<1> DEFINE f == CHOOSE g : g = [s \in SUBSET (1..N) |-> Folding(g, w, ids, s)]
<1>1. f = [s \in SUBSET (1..N) |-> Folding(f, w, ids, s)]
  BY <1>0, FoldingExists
<1>2. Assign(w, ids) = f[1..N]
  BY <1>0 DEF Assign, FoldLeft, MapThenFoldSet, Folding, Entered
<1> HIDE DEF f
<1> DEFINE h == [i \in 0..N |-> f[1..i]]
<1>3. h[0] = w
  <2>1. 1..0 = {} /\ {} \in SUBSET (1..N) OBVIOUS
  <2> QED BY <1>0, <1>1, <2>1 DEF Folding
<1>4. \A i \in 1..N : h[i] = Entered(h[i-1], ids[i])
  <2> TAKE i \in 1..N
  <2>1. i \in 1..i /\ 1..i \in SUBSET (1..N) /\ 1..i # {} /\ i \in Nat
    <3>1. i \in Nat /\ i <= N /\ i >= 1 BY <1>0
    <3>2. N \in Nat BY <1>0
    <3>3. ASSUME NEW j \in 1..i PROVE j \in 1..N BY <3>1, <3>2, <3>3
    <3>4. i \in 1..i BY <3>1
    <3> QED BY <3>1, <3>3, <3>4
  <2>2. Max(1..i) = i BY <2>1, MaxFacts
  <2>3. (1..i) \ {i} = 1..(i - 1) BY <2>1
  <2>4. f[1..i] = Folding(f, w, ids, 1..i) BY <2>1, <1>1
  <2>5. Folding(f, w, ids, 1..i) = Entered(f[1..(i - 1)], ids[i])
    BY <2>1, <2>2, <2>3 DEF Folding
  <2>6. h[i] = f[1..i] /\ h[i-1] = f[1..(i - 1)] BY <1>0
  <2> QED BY <2>4, <2>5, <2>6
<1>5. Assign(w, ids) = h[N] BY <1>0, <1>2
<1> DEFINE P == {n \in Nat : n <= N => h[n] \in Seq(S)}
<1>6. 0 \in P BY <1>3
<1>7. ASSUME NEW n \in Nat, n \in P PROVE n + 1 \in P
  <2> SUFFICES ASSUME n + 1 <= N PROVE h[n + 1] \in Seq(S) OBVIOUS
  <2>1. n + 1 \in 1..N /\ (n + 1) - 1 = n BY <1>0
  <2>2. h[n + 1] = Entered(h[n], ids[n + 1]) BY <2>1, <1>4
  <2>3. h[n] \in Seq(S) BY <1>7, <1>0
  <2>4. ids[n + 1] \in S BY <2>1, <1>0
  <2> HIDE DEF h
  <2> QED BY <2>2, <2>3, <2>4, AppendProperties DEF Entered
<1> HIDE DEF P
<1>8. Nat \subseteq P BY <1>6, <1>7, InductSet
<1>9. \A i \in 0..N : h[i] \in Seq(S)
  <2> TAKE i \in 0..N
  <2>1. i \in P BY <1>8, <1>0
  <2> QED BY <2>1, <1>0 DEF P
<1>10. h \in [0..N -> Seq(S)] BY <1>9
<1> HIDE DEF h
<1> QED BY <1>3, <1>4, <1>5, <1>10 DEF Enters

\* No element occurs twice.
Distinct(s) == \A m, n \in DOMAIN s : s[m] = s[n] => m = n

\* To enter an id adds it and keeps the positions of the others.
LEMMA EnteredFacts ==
  ASSUME NEW S, NEW list \in Seq(S), NEW id \in S
  PROVE  /\ Entered(list, id) \in Seq(S)
         /\ ToSet(Entered(list, id)) = ToSet(list) \cup {id}
         /\ Len(list) <= Len(Entered(list, id))
         /\ \A i \in 1..Len(list) : Entered(list, id)[i] = list[i]
         /\ Distinct(list) => Distinct(Entered(list, id))
<1>0. Contains(list, id) <=> id \in ToSet(list)
  BY SeqFacts DEF Contains
<1>1. CASE Contains(list, id)
  BY <1>0, <1>1, SeqFacts DEF Entered
<1>2. CASE ~Contains(list, id)
  <2>1. Entered(list, id) = Append(list, id) BY <1>2 DEF Entered
  <2> DEFINE t == Append(list, id)
  <2>2. /\ t \in Seq(S) /\ Len(t) = Len(list) + 1 /\ Len(list) \in Nat
        /\ \A i \in 1..Len(list) : t[i] = list[i]
        /\ t[Len(list) + 1] = id
    BY AppendProperties
  <2> HIDE DEF t
  <2>3. ToSet(t) = {t[i] : i \in 1..Len(t)} /\ DOMAIN t = 1..Len(t)
        /\ ToSet(list) = {list[i] : i \in 1..Len(list)} /\ DOMAIN list = 1..Len(list)
    BY <2>2, SeqFacts
  <2>4. 1..Len(t) = (1..Len(list)) \cup {Len(list) + 1} BY <2>2
  <2>5. ToSet(t) = ToSet(list) \cup {id} BY <2>2, <2>3, <2>4
  <2>6. ASSUME Distinct(list) PROVE Distinct(t)
    <3> SUFFICES ASSUME NEW m \in 1..Len(t), NEW n \in 1..Len(t), t[m] = t[n] PROVE m = n
      BY <2>3 DEF Distinct
    <3>1. \A i \in 1..Len(list) : t[i] # id BY <1>0, <1>2, <2>2, <2>3
    <3>2. CASE m \in 1..Len(list) /\ n \in 1..Len(list)
      BY <3>2, <2>2, <2>3, <2>6 DEF Distinct
    <3>3. CASE m = Len(list) + 1 \/ n = Len(list) + 1
      BY <3>1, <3>3, <2>2, <2>4
    <3> QED BY <3>2, <3>3, <2>4
  <2>7. t = Entered(list, id) BY <2>1 DEF t
  <2> QED BY <2>2, <2>5, <2>6, <2>7
<1> QED BY <1>1, <1>2

\* To enter ids adds them, once each, and keeps the positions of the others:
\* a canonical number is never assigned again.
LEMMA AssignFacts ==
  ASSUME NEW S, NEW w \in Seq(S), NEW ids \in Seq(S)
  PROVE  /\ Assign(w, ids) \in Seq(S)
         /\ ToSet(Assign(w, ids)) = ToSet(w) \cup ToSet(ids)
         /\ Len(w) <= Len(Assign(w, ids))
         /\ \A i \in 1..Len(w) : Assign(w, ids)[i] = w[i]
         /\ Distinct(w) => Distinct(Assign(w, ids))
<1>9. ASSUME NEW list \in Seq(S), NEW id \in S
      PROVE  /\ ToSet(Entered(list, id)) = ToSet(list) \cup {id}
             /\ Len(list) <= Len(Entered(list, id))
             /\ \A i \in 1..Len(list) : Entered(list, id)[i] = list[i]
             /\ Distinct(list) => Distinct(Entered(list, id))
  BY EnteredFacts
<1> DEFINE N == Len(ids)
<1>0. N \in Nat /\ Len(w) \in Nat /\ \A i \in 1..N : ids[i] \in S BY SeqFacts
<1>10. PICK h \in [0..N -> Seq(S)] : Enters(h, w, ids)
  BY AssignFold
<1>1. /\ h[0] = w /\ Assign(w, ids) = h[N]
      /\ \A i \in 1..N : h[i] = Entered(h[i-1], ids[i])
  BY <1>10 DEF Enters
<1>2. \A i \in 0..N : h[i] \in Seq(S) /\ Len(h[i]) \in Nat BY SeqFacts
<1> DEFINE Kept(n) ==
      /\ ToSet(h[n]) = ToSet(w) \cup {ids[i] : i \in 1..n}
      /\ Len(w) <= Len(h[n])
      /\ \A i \in 1..Len(w) : h[n][i] = w[i]
      /\ Distinct(w) => Distinct(h[n])
    P == {n \in Nat : n <= N => Kept(n)}
<1>3. 0 \in P
  <2>1. Kept(0) BY <1>0, <1>1
  <2> QED BY <2>1
<1>4. ASSUME NEW n \in Nat, n \in P PROVE n + 1 \in P
  <2> SUFFICES ASSUME n + 1 <= N PROVE Kept(n + 1) OBVIOUS
  <2> HIDE DEF P
  <2>1. n + 1 \in 1..N /\ (n + 1) - 1 = n /\ n \in 0..N /\ n + 1 \in 0..N BY <1>0
  <2>2. h[n + 1] = Entered(h[n], ids[n + 1]) BY <2>1, <1>1
  <2>3. Kept(n) BY <1>4, <2>1, <1>0 DEF P
  <2>4. h[n] \in Seq(S) /\ ids[n + 1] \in S BY <2>1, <1>0
  <2>5. /\ ToSet(h[n + 1]) = ToSet(h[n]) \cup {ids[n + 1]}
        /\ Len(h[n]) <= Len(h[n + 1])
        /\ \A i \in 1..Len(h[n]) : h[n + 1][i] = h[n][i]
        /\ Distinct(h[n]) => Distinct(h[n + 1])
    <3>1. /\ ToSet(Entered(h[n], ids[n + 1])) = ToSet(h[n]) \cup {ids[n + 1]}
          /\ Len(h[n]) <= Len(Entered(h[n], ids[n + 1]))
          /\ \A i \in 1..Len(h[n]) : Entered(h[n], ids[n + 1])[i] = h[n][i]
          /\ Distinct(h[n]) => Distinct(Entered(h[n], ids[n + 1]))
      BY <1>9, <2>4
    <3> QED BY <2>2, <3>1
  <2>6. 1..(n + 1) = (1..n) \cup {n + 1} BY <2>1
  <2>7. ToSet(h[n + 1]) = ToSet(w) \cup {ids[i] : i \in 1..(n + 1)}
    BY <2>3, <2>5, <2>6
  <2>8. /\ Len(w) <= Len(h[n + 1])
        /\ \A i \in 1..Len(w) : h[n + 1][i] = w[i]
    BY <2>3, <2>5, <1>0, <1>2, <2>1
  <2> QED BY <2>3, <2>5, <2>7, <2>8
<1> HIDE DEF P
<1>5. N \in P BY <1>0, <1>3, <1>4, InductSet
<1>6. Kept(N)
  <2>1. N <= N BY <1>0
  <2> HIDE DEF Kept
  <2>2. \A n \in P : n <= N => Kept(n) BY DEF P
  <2> QED BY <2>1, <2>2, <1>5
<1>7. ToSet(ids) = {ids[i] : i \in 1..N} BY SeqFacts
<1> QED BY <1>0, <1>1, <1>6, <1>7

\* To enter an id and to renumber the list commute.
LEMMA EnteredNumbered ==
  ASSUME NEW S, NEW T, NEW p \in [S -> T], IsInjective(p),
         NEW list \in Seq(S), NEW id \in S
  PROVE  Entered(Numbered(list, p), p[id]) = Numbered(Entered(list, id), p)
<1>1. Numbered(list, p) \in Seq(T) /\ Len(Numbered(list, p)) = Len(list)
      /\ \A n \in 1..Len(list) : Numbered(list, p)[n] = p[list[n]] /\ list[n] \in S
  BY DEF Numbered
<1>2. Contains(Numbered(list, p), p[id]) <=> Contains(list, id)
  BY <1>1 DEF Contains, IsInjective
<1>3. Numbered(Append(list, id), p) = Append(Numbered(list, p), p[id])
  <2>1. Append(list, id) \in Seq(S) /\ Len(Append(list, id)) = Len(list) + 1
    BY AppendProperties
  <2> DEFINE u == Numbered(Append(list, id), p)
             v == Append(Numbered(list, p), p[id])
  <2>2. u \in Seq(T) /\ Len(u) = Len(list) + 1
        /\ \A n \in 1..(Len(list) + 1) : u[n] = p[Append(list, id)[n]]
    BY <2>1 DEF Numbered
  <2>3. v \in Seq(T) /\ Len(v) = Len(list) + 1
        /\ \A n \in 1..(Len(list) + 1) :
              v[n] = IF n <= Len(list) THEN p[list[n]] ELSE p[id]
    BY <1>1
  <2>4. \A n \in 1..(Len(list) + 1) : u[n] = v[n]
    BY <2>2, <2>3
  <2> HIDE DEF u, v
  <2> QED BY <2>2, <2>3, <2>4, SeqEqual DEF u, v
<1> QED BY <1>2, <1>3 DEF Entered

\* To enter ids and to renumber the list commute.
LEMMA AssignNumbered ==
  ASSUME NEW S, NEW T, NEW p \in [S -> T], IsInjective(p),
         NEW w \in Seq(S), NEW ids \in Seq(S)
  PROVE  Assign(Numbered(w, p), Numbered(ids, p)) = Numbered(Assign(w, ids), p)
<1> DEFINE N == Len(ids)
           u == Numbered(w, p)
           v == Numbered(ids, p)
<1>01. ASSUME NEW s \in Seq(S)
       PROVE  /\ Numbered(s, p) \in Seq(T) /\ Len(Numbered(s, p)) = Len(s)
              /\ \A i \in 1..Len(s) : Numbered(s, p)[i] = p[s[i]]
  BY DEF Numbered
<1>0. /\ N \in Nat /\ \A i \in 1..N : ids[i] \in S
      /\ u \in Seq(T) /\ v \in Seq(T)
      /\ Len(v) = N /\ \A i \in 1..N : v[i] = p[ids[i]]
  BY <1>01
<1> HIDE DEF u, v
<1>10. PICK h \in [0..N -> Seq(S)] : Enters(h, w, ids)
  BY AssignFold
<1>1. /\ h[0] = w /\ Assign(w, ids) = h[N]
      /\ \A i \in 1..N : h[i] = Entered(h[i-1], ids[i])
  BY <1>10 DEF Enters
<1>20. PICK k \in [0..Len(v) -> Seq(T)] : Enters(k, u, v)
  BY <1>0, AssignFold
<1>2. /\ k[0] = u /\ Assign(u, v) = k[N]
      /\ \A i \in 1..N : k[i] = Entered(k[i-1], v[i])
  BY <1>0, <1>20 DEF Enters
<1> DEFINE P == {n \in Nat : n <= N => k[n] = Numbered(h[n], p)}
<1>3. 0 \in P BY <1>1, <1>2 DEF u
<1>4. ASSUME NEW n \in Nat, n \in P PROVE n + 1 \in P
  <2> SUFFICES ASSUME n + 1 <= N PROVE k[n + 1] = Numbered(h[n + 1], p) OBVIOUS
  <2>1. n + 1 \in 1..N /\ (n + 1) - 1 = n /\ n \in 0..N BY <1>0
  <2>2. k[n] = Numbered(h[n], p) BY <1>4, <2>1, <1>0
  <2>3. h[n + 1] = Entered(h[n], ids[n + 1]) BY <2>1, <1>1
  <2>4. k[n + 1] = Entered(k[n], p[ids[n + 1]]) BY <2>1, <1>2, <1>0
  <2>5. h[n] \in Seq(S) /\ ids[n + 1] \in S BY <2>1, <1>0
  <2> HIDE DEF P
  <2>6. Entered(Numbered(h[n], p), p[ids[n + 1]]) = Numbered(Entered(h[n], ids[n + 1]), p)
    BY <2>5, EnteredNumbered
  <2> QED BY <2>2, <2>3, <2>4, <2>6
<1> HIDE DEF P
<1>5. N \in P BY <1>0, <1>3, <1>4, InductSet
<1> QED BY <1>0, <1>5, <1>1, <1>2 DEF P, u, v

-----------------------------------------------------------------------------
(* The worklist: every type reached, once.                                 *)

\* The number of types: no worklist is longer.
Cap == Cardinality(TypeIds)

\* The worklist after the definition at one more position.
Scanned(list, n, types) ==
    IF n \in DOMAIN list /\ list[n] \in DOMAIN types
    THEN Assign(list, DefinitionRefs(types[list[n]])) ELSE list

\* h has the worklist after each position.
Scans(h, abi) ==
    /\ h[0] = Assign(<<>>, Roots(abi)) /\ Worklist(abi) = h[Cap]
    /\ \A n \in 1..Cap : h[n] = Scanned(h[n-1], n, abi.types)

\* What an ABI refers to are types.
Refers(abi) ==
    /\ Roots(abi) \in Seq(TypeIds)
    /\ \A id \in TypeIds \cap DOMAIN abi.types : DefinitionRefs(abi.types[id]) \in Seq(TypeIds)

\* Types are numbered from 1.
LEMMA CapFacts == Cap \in Nat /\ TypeIds = 1..Cap /\ IsFiniteSet(TypeIds)
BY TypeIdsAssumption, FS_CardinalityType DEF Cap

\* One step of the recursion that Worklist is.
Scanning(g, n, abi) ==
    IF n = 0 THEN Assign(<<>>, Roots(abi)) ELSE Scanned(g[n - 1], n, abi.types)

\* The function that Worklist recurs with exists.
LEMMA ScanningExists ==
  ASSUME NEW abi, NEW N \in Nat
  PROVE  \E g : g = [n \in 0..N |-> Scanning(g, n, abi)]
<1> DEFINE P == {m \in Nat : \E g : g = [n \in 0..m |-> Scanning(g, n, abi)]}
<1>1. 0 \in P
  <2> DEFINE g == [n \in 0..0 |-> Assign(<<>>, Roots(abi))]
  <2>1. \A n \in 0..0 : n = 0 OBVIOUS
  <2>2. g = [n \in 0..0 |-> Scanning(g, n, abi)] BY <2>1 DEF Scanning
  <2> HIDE DEF g
  <2>3. \E k : k = [n \in 0..0 |-> Scanning(k, n, abi)] BY <2>2
  <2> QED BY <2>3, Zenon
<1>2. ASSUME NEW m \in Nat, m \in P PROVE m + 1 \in P
  <2>1. PICK g : g = [n \in 0..m |-> Scanning(g, n, abi)] BY <1>2
  <2> DEFINE h == [n \in 0..(m + 1) |-> IF n \in 0..m THEN g[n] ELSE Scanning(g, n, abi)]
  <2>2. h = [n \in 0..(m + 1) |-> Scanning(h, n, abi)]
    <3> SUFFICES ASSUME NEW n \in 0..(m + 1) PROVE h[n] = Scanning(h, n, abi)
      BY Zenon
    <3>1. n # 0 => n - 1 \in 0..m /\ h[n - 1] = g[n - 1] OBVIOUS
    <3>2. h[n] = Scanning(g, n, abi) BY <2>1
    <3> HIDE DEF h
    <3> QED BY <3>1, <3>2 DEF Scanning
  <2> HIDE DEF h
  <2>3. \E k : k = [n \in 0..(m + 1) |-> Scanning(k, n, abi)] BY <2>2
  <2>4. m + 1 \in Nat OBVIOUS
  <2> QED BY <2>3, <2>4, Zenon
<1> HIDE DEF P
<1>3. N \in P BY <1>1, <1>2, InductSet
<1> QED BY <1>3 DEF P

\* Worklist scans one position after another.
LEMMA WorklistFold ==
  ASSUME NEW abi, Refers(abi)
  PROVE  \E h \in [0..Cap -> Seq(TypeIds)] : Scans(h, abi)
<1> DEFINE f == CHOOSE g : g = [n \in 0..Cap |-> Scanning(g, n, abi)]
<1>1. f = [n \in 0..Cap |-> Scanning(f, n, abi)] BY ScanningExists, CapFacts
<1>2. Worklist(abi) = f[Cap] BY DEF Worklist, Scanning, Scanned, Cap
<1> HIDE DEF f
<1>3. f[0] = Assign(<<>>, Roots(abi)) BY <1>1, CapFacts DEF Scanning
<1>4. \A n \in 1..Cap : f[n] = Scanned(f[n-1], n, abi.types)
  <2> TAKE n \in 1..Cap
  <2>1. n \in 0..Cap /\ n # 0 BY CapFacts
  <2> QED BY <1>1, <2>1 DEF Scanning
<1>5. \A i \in 0..Cap : f[i] \in Seq(TypeIds)
  <2> DEFINE P == {n \in Nat : n <= Cap => f[n] \in Seq(TypeIds)}
  <2>1. 0 \in P
    <3>1. <<>> \in Seq(TypeIds) /\ Roots(abi) \in Seq(TypeIds) BY DEF Refers
    <3>2. Assign(<<>>, Roots(abi)) \in Seq(TypeIds) BY <3>1, AssignFacts
    <3> QED BY <3>2, <1>3
  <2>2. ASSUME NEW n \in Nat, n \in P PROVE n + 1 \in P
    <3> SUFFICES ASSUME n + 1 <= Cap PROVE f[n + 1] \in Seq(TypeIds) OBVIOUS
    <3>1. n + 1 \in 1..Cap /\ (n + 1) - 1 = n BY CapFacts
    <3>2. f[n + 1] = Scanned(f[n], n + 1, abi.types) BY <1>4, <3>1
    <3>3. f[n] \in Seq(TypeIds) BY <2>2, <3>1, CapFacts
    <3> DEFINE id == f[n][n + 1]
    <3> HIDE DEF P
    <3>4. CASE n + 1 \in DOMAIN f[n] /\ id \in DOMAIN abi.types
      <4>1. id \in TypeIds BY <3>3, <3>4
      <4>2. DefinitionRefs(abi.types[id]) \in Seq(TypeIds) BY <4>1, <3>4 DEF Refers
      <4>3. f[n + 1] = Assign(f[n], DefinitionRefs(abi.types[id])) BY <3>2, <3>4 DEF Scanned
      <4> QED BY <4>2, <4>3, <3>3, AssignFacts
    <3>5. CASE ~(n + 1 \in DOMAIN f[n] /\ id \in DOMAIN abi.types)
      BY <3>2, <3>3, <3>5 DEF Scanned
    <3> QED BY <3>4, <3>5
  <2> HIDE DEF P
  <2>3. Nat \subseteq P BY <2>1, <2>2, InductSet
  <2> TAKE i \in 0..Cap
  <2>4. i \in P BY <2>3, CapFacts
  <2> QED BY <2>4, CapFacts DEF P
<1>6. f \in [0..Cap -> Seq(TypeIds)]
  <2>1. \E F : f = [n \in 0..Cap |-> F[n]]
    <3>1. f = [n \in 0..Cap |-> f[n]] BY <1>1
    <3> QED BY <3>1
  <2> QED BY <2>1, <1>5
<1> QED BY <1>2, <1>3, <1>4, <1>6 DEF Scans

\* A set with the roots and with what its types refer to.
Closed(X, abi) ==
    /\ ToSet(Roots(abi)) \subseteq X
    /\ \A id \in X \cap DOMAIN abi.types : ToSet(DefinitionRefs(abi.types[id])) \subseteq X

\* Every position up to n has been scanned.
Done(list, n, abi) ==
    \A m \in 1..Len(list) :
        m <= n /\ list[m] \in DOMAIN abi.types =>
            ToSet(DefinitionRefs(abi.types[list[m]])) \subseteq ToSet(list)

\* A scan loses no id, repeats none, enters what the definition refers to,
\* and enters nothing that a closed set lacks.
LEMMA ScannedFacts ==
  ASSUME NEW abi, Refers(abi), NEW list \in Seq(TypeIds), NEW n \in Nat
  PROVE  LET r == Scanned(list, n + 1, abi.types)
         IN  /\ r \in Seq(TypeIds)
             /\ ToSet(list) \subseteq ToSet(r)
             /\ Distinct(list) => Distinct(r)
             /\ Done(list, n, abi) => Done(r, n + 1, abi)
             /\ \A X : Closed(X, abi) /\ ToSet(list) \subseteq X => ToSet(r) \subseteq X
<1> DEFINE r == Scanned(list, n + 1, abi.types)
<1>0. Len(list) \in Nat /\ DOMAIN list = 1..Len(list) /\ \A m \in 1..Len(list) : list[m] \in ToSet(list)
  BY SeqFacts
<1>1. CASE n + 1 \in DOMAIN list /\ list[n + 1] \in DOMAIN abi.types
  <2> DEFINE refs == DefinitionRefs(abi.types[list[n + 1]])
  <2>0. list[n + 1] \in TypeIds BY <1>1
  <2>1. refs \in Seq(TypeIds) BY <1>1, <2>0 DEF Refers
  <2>2. r = Assign(list, refs) BY <1>1 DEF Scanned
  <2> HIDE DEF r, refs
  <2>3. /\ r \in Seq(TypeIds)
        /\ ToSet(r) = ToSet(list) \cup ToSet(refs)
        /\ Len(list) <= Len(r)
        /\ \A i \in 1..Len(list) : r[i] = list[i]
        /\ Distinct(list) => Distinct(r)
    BY <2>1, <2>2, AssignFacts
  <2>4. ASSUME Done(list, n, abi) PROVE Done(r, n + 1, abi)
    <3> SUFFICES ASSUME NEW m \in 1..Len(r), m <= n + 1, r[m] \in DOMAIN abi.types
                 PROVE  ToSet(DefinitionRefs(abi.types[r[m]])) \subseteq ToSet(r)
      BY DEF Done
    <3>1. m \in 1..Len(list) /\ r[m] = list[m] BY <1>0, <1>1, <2>3
    <3>2. CASE m <= n BY <3>1, <3>2, <2>3, <2>4 DEF Done
    <3>3. CASE m = n + 1
      <4>1. DefinitionRefs(abi.types[r[m]]) = refs BY <3>1, <3>3 DEF refs
      <4> QED BY <4>1, <2>3
    <3> QED BY <3>1, <3>2, <3>3
  <2>5. ASSUME NEW X, Closed(X, abi), ToSet(list) \subseteq X PROVE ToSet(r) \subseteq X
    <3>1. list[n + 1] \in X BY <1>0, <1>1, <2>5
    <3>2. ToSet(refs) \subseteq X BY <3>1, <1>1, <2>5 DEF Closed, refs
    <3> QED BY <3>2, <2>3, <2>5
  <2>6. ToSet(list) \subseteq ToSet(r) BY <2>3
  <2> QED BY <2>3, <2>4, <2>5, <2>6 DEF r
<1>2. CASE ~(n + 1 \in DOMAIN list /\ list[n + 1] \in DOMAIN abi.types)
  <2>1. r = list BY <1>2 DEF Scanned
  <2> HIDE DEF r
  <2>2. ASSUME Done(list, n, abi) PROVE Done(list, n + 1, abi)
    <3> SUFFICES ASSUME NEW m \in 1..Len(list), m <= n + 1, list[m] \in DOMAIN abi.types
                 PROVE  ToSet(DefinitionRefs(abi.types[list[m]])) \subseteq ToSet(list)
      BY DEF Done
    <3>1. m # n + 1 BY <1>0, <1>2
    <3>2. m <= n BY <3>1, <1>0
    <3> QED BY <3>2, <2>2 DEF Done
  <2> QED BY <2>1, <2>2 DEF r
<1> QED BY <1>1, <1>2

\* The worklist holds exactly the types that the functions lead to, once each:
\* it is the least closed set, and one pass over all positions completes it.
LEMMA WorklistFacts ==
  ASSUME NEW abi, Refers(abi)
  PROVE  /\ Worklist(abi) \in Seq(TypeIds) /\ Distinct(Worklist(abi))
         /\ Len(Worklist(abi)) <= Cap
         /\ Closed(ToSet(Worklist(abi)), abi)
         /\ \A X : Closed(X, abi) => ToSet(Worklist(abi)) \subseteq X
<1>0. Cap \in Nat BY CapFacts
<1>1. PICK h \in [0..Cap -> Seq(TypeIds)] : Scans(h, abi) BY WorklistFold
<1>2. /\ h[0] = Assign(<<>>, Roots(abi)) /\ Worklist(abi) = h[Cap]
      /\ \A n \in 1..Cap : h[n] = Scanned(h[n-1], n, abi.types)
  BY <1>1 DEF Scans
<1> DEFINE Good(n) ==
      /\ h[n] \in Seq(TypeIds) /\ Distinct(h[n]) /\ Done(h[n], n, abi)
      /\ ToSet(Roots(abi)) \subseteq ToSet(h[n])
      /\ \A X : Closed(X, abi) => ToSet(h[n]) \subseteq X
    P == {n \in Nat : n <= Cap => Good(n)}
<1>3. 0 \in P
  <2>1. <<>> \in Seq(TypeIds) /\ ToSet(<<>>) = {} /\ Distinct(<<>>) BY DEF ToSet, Distinct
  <2>2. Roots(abi) \in Seq(TypeIds) BY DEF Refers
  <2>3. h[0] \in Seq(TypeIds) /\ ToSet(h[0]) = ToSet(Roots(abi)) /\ Distinct(h[0])
    <3>1. ASSUME NEW ids \in Seq(TypeIds)
          PROVE  /\ Assign(<<>>, ids) \in Seq(TypeIds)
                 /\ ToSet(Assign(<<>>, ids)) = ToSet(<<>>) \cup ToSet(ids)
                 /\ Distinct(<<>>) => Distinct(Assign(<<>>, ids))
      BY <2>1, AssignFacts
    <3> QED BY <3>1, <2>1, <2>2, <1>2
  <2>4. Done(h[0], 0, abi) BY DEF Done
  <2>5. Good(0) BY <2>3, <2>4 DEF Closed
  <2> QED BY <2>5
<1>4. ASSUME NEW n \in Nat, n \in P PROVE n + 1 \in P
  <2> SUFFICES ASSUME n + 1 <= Cap PROVE Good(n + 1) OBVIOUS
  <2> HIDE DEF P
  <2>1. n + 1 \in 1..Cap /\ (n + 1) - 1 = n /\ n <= Cap BY <1>0
  <2>2. Good(n) BY <2>1, <1>4 DEF P
  <2>3. h[n + 1] = Scanned(h[n], n + 1, abi.types) BY <2>1, <1>2
  <2> QED BY <2>2, <2>3, ScannedFacts
<1> HIDE DEF P
<1>5. Cap \in P BY <1>0, <1>3, <1>4, InductSet
<1>6. Good(Cap) BY <1>0, <1>5 DEF P
<1> DEFINE w == h[Cap]
<1>7. Len(w) <= Cap /\ Len(w) \in Nat
  <2>1. w \in [1..Len(w) -> TypeIds] /\ Len(w) \in Nat BY <1>6
  <2>2. \A m, n \in 1..Len(w) : w[m] = w[n] => m = n BY <1>6, <2>1 DEF Distinct
  <2>3. w \in Injection(1..Len(w), TypeIds) BY <2>1, <2>2, Fun_IsInj
  <2>4. Cardinality(1..Len(w)) <= Cardinality(TypeIds) BY <2>3, CapFacts, FS_Injection
  <2>5. Cardinality(1..Len(w)) = Len(w) BY <2>1, FS_Interval
  <2> QED BY <2>1, <2>4, <2>5 DEF Cap
<1>8. Closed(ToSet(w), abi)
  <2> SUFFICES ASSUME NEW id \in ToSet(w), id \in DOMAIN abi.types
               PROVE  ToSet(DefinitionRefs(abi.types[id])) \subseteq ToSet(w)
    BY <1>6 DEF Closed
  <2>1. PICK m \in 1..Len(w) : id = w[m] BY <1>6, SeqFacts
  <2>2. m <= Cap BY <1>0, <1>7
  <2> QED BY <2>1, <2>2, <1>6 DEF Done
<1> QED BY <1>2, <1>6, <1>7, <1>8

-----------------------------------------------------------------------------
(* The types that values, functions and definitions name, and renaming     *)
(* them.                                                                   *)

\* 0 is not a type.
LEMMA IdFacts == 0 \notin TypeIds /\ TypeIds \subseteq Nat
BY CapFacts

\* A function on the first numbers is a sequence.
LEMMA FunctionIsSeq ==
  ASSUME NEW S, NEW N \in Nat, NEW s \in [1..N -> S]
  PROVE  s \in Seq(S) /\ Len(s) = N
OBVIOUS

\* Renumbering short sequences.
LEMMA NumberedOne ==
  ASSUME NEW x, NEW p
  PROVE  Numbered(<<x>>, p) = <<p[x]>> /\ Numbered(<<>>, p) = <<>>
BY DEF Numbered

\* The types that values name.
LEMMA RefsInFacts ==
  ASSUME NEW vs \in Seq(AbiValues)
  PROVE  /\ RefsIn(vs) \in Seq(TypeIds)
         /\ ToSet(RefsIn(vs)) = {v.id : v \in {x \in ToSet(vs) : x.id # 0}}
<1>6. ASSUME NEW rr \in Seq(Seq(TypeIds))
      PROVE  /\ FlattenSeq(rr) \in Seq(TypeIds)
             /\ ToSet(FlattenSeq(rr)) = UNION {ToSet(rr[i]) : i \in 1..Len(rr)}
  BY FlattenElements
<1> DEFINE ss == [n \in DOMAIN vs |-> IF IsRef(vs[n]) THEN <<vs[n].id>> ELSE <<>>]
<1>0. /\ Len(vs) \in Nat /\ DOMAIN vs = 1..Len(vs)
      /\ \A n \in 1..Len(vs) : vs[n] \in AbiValues
      /\ ToSet(vs) = {vs[n] : n \in 1..Len(vs)}
  BY SeqFacts
<1>1. \A n \in 1..Len(vs) : ss[n] \in Seq(TypeIds)
  BY <1>0 DEF AbiValues, IsRef
<1>2. ss \in Seq(Seq(TypeIds)) /\ Len(ss) = Len(vs)
  <2>1. ss \in [1..Len(vs) -> Seq(TypeIds)] BY <1>0, <1>1
  <2> HIDE DEF ss
  <2> QED BY <2>1, <1>0
<1>3. \A n \in 1..Len(vs) : ToSet(ss[n]) = IF vs[n].id # 0 THEN {vs[n].id} ELSE {}
  BY <1>0 DEF IsRef, ToSet
<1>4. RefsIn(vs) = FlattenSeq(ss) BY DEF RefsIn
<1>5. /\ RefsIn(vs) \in Seq(TypeIds)
      /\ ToSet(RefsIn(vs)) = UNION {ToSet(ss[i]) : i \in 1..Len(ss)}
  BY <1>2, <1>4, <1>6
<1> HIDE DEF ss
<1>7. ToSet(RefsIn(vs)) = UNION {ToSet(ss[i]) : i \in 1..Len(vs)} BY <1>2, <1>5
<1>8. ASSUME NEW id PROVE id \in ToSet(RefsIn(vs)) <=> \E n \in 1..Len(vs) : vs[n].id # 0 /\ id = vs[n].id
  <2>1. id \in ToSet(RefsIn(vs)) <=> \E n \in 1..Len(vs) : id \in ToSet(ss[n]) BY <1>7
  <2> QED BY <2>1, <1>3
<1>9. ASSUME NEW id
      PROVE  id \in {v.id : v \in {x \in ToSet(vs) : x.id # 0}}
                 <=> \E n \in 1..Len(vs) : vs[n].id # 0 /\ id = vs[n].id
  <2> HIDE DEF ToSet
  <2>1. \A x : x \in ToSet(vs) <=> \E n \in 1..Len(vs) : x = vs[n] BY <1>0
  <2> QED BY <2>1
<1> QED BY <1>5, <1>8, <1>9

\* Renamed values name the new numbers, in the same order.
LEMMA RefsInRenamed ==
  ASSUME NEW vs \in Seq(AbiValues), NEW q, \A id \in ToSet(RefsIn(vs)) : q[id] \in TypeIds
  PROVE  /\ RenameValues(vs, q) \in Seq(AbiValues) /\ Len(RenameValues(vs, q)) = Len(vs)
         /\ RefsIn(RenameValues(vs, q)) = Numbered(RefsIn(vs), q)
<1> DEFINE us == RenameValues(vs, q)
<1>0. /\ Len(vs) \in Nat /\ DOMAIN vs = 1..Len(vs)
      /\ \A n \in 1..Len(vs) : vs[n] \in AbiValues
      /\ ToSet(vs) = {vs[n] : n \in 1..Len(vs)}
  BY SeqFacts
<1>1. \A n \in 1..Len(vs) : vs[n].id # 0 => q[vs[n].id] \in TypeIds
  BY <1>0, RefsInFacts
<1>2. \A n \in 1..Len(vs) : us[n] = RenameValue(vs[n], q) /\ us[n] \in AbiValues
  BY <1>0, <1>1 DEF RenameValues, RenameValue, IsRef, AbiValues
<1>3. DOMAIN us = 1..Len(vs) /\ us = [n \in 1..Len(vs) |-> us[n]]
  BY <1>0 DEF RenameValues
<1> HIDE DEF us
<1>4. us \in Seq(AbiValues) /\ Len(us) = Len(vs)
  <2>1. us \in [1..Len(vs) -> AbiValues] BY <1>2, <1>3
  <2> QED BY <1>0, <2>1
<1> DEFINE ss == [n \in DOMAIN vs |-> IF IsRef(vs[n]) THEN <<vs[n].id>> ELSE <<>>]
           tt == [n \in DOMAIN us |-> IF IsRef(us[n]) THEN <<us[n].id>> ELSE <<>>]
<1>5. \A n \in 1..Len(vs) : ss[n] \in Seq(TypeIds) /\ tt[n] \in Seq(TypeIds)
  BY <1>0, <1>2, <1>3 DEF AbiValues, IsRef
<1>6. \A n \in 1..Len(vs) : tt[n] = Numbered(ss[n], q)
  <2> TAKE n \in 1..Len(vs)
  <2>1. CASE vs[n].id = 0
    <3>1. us[n].id = 0 BY <2>1, <1>2 DEF RenameValue, IsRef
    <3>2. ss[n] = <<>> /\ tt[n] = <<>> BY <2>1, <3>1, <1>0, <1>3 DEF IsRef
    <3> QED BY <3>2, NumberedOne
  <2>2. CASE vs[n].id # 0
    <3>3. vs[n] \in AbiValues /\ IsRef(vs[n]) BY <2>2, <1>0 DEF IsRef
    <3>4. us[n].id = q[vs[n].id] BY <3>3, <1>2 DEF RenameValue, AbiValues
    <3>1. us[n].id = q[vs[n].id] /\ us[n].id # 0
      BY <2>2, <3>4, <1>1, IdFacts
    <3>2. ss[n] = <<vs[n].id>> /\ tt[n] = <<q[vs[n].id]>> BY <2>2, <3>1, <1>0, <1>3 DEF IsRef
    <3> QED BY <3>2, NumberedOne
  <2> QED BY <2>1, <2>2
<1>7. ss \in Seq(Seq(TypeIds)) /\ Len(ss) = Len(vs) /\ tt \in Seq(Seq(TypeIds)) /\ Len(tt) = Len(vs)
  <2>1. ss \in [1..Len(vs) -> Seq(TypeIds)] /\ tt \in [1..Len(vs) -> Seq(TypeIds)]
    BY <1>0, <1>3, <1>5
  <2> HIDE DEF ss, tt
  <2> QED BY <2>1, <1>0, FunctionIsSeq
<1>8. RefsIn(vs) = FlattenSeq(ss) /\ RefsIn(us) = FlattenSeq(tt) BY DEF RefsIn
<1> HIDE DEF ss, tt
<1>9. FlattenSeq(tt) = Numbered(FlattenSeq(ss), q)
  BY <1>6, <1>7, FlattenNumbered
<1> QED BY <1>4, <1>8, <1>9 DEF us

\* The types a function names.
FunctionIds(f) == RefsIn(f.params) \o RefsIn(f.results)

\* A function with the types it names renumbered.
RenameFunction(f, q) ==
    [f EXCEPT !.params = RenameValues(@, q), !.results = RenameValues(@, q)]

\* The types a function names are those of its parameters and results.
LEMMA FunctionIdsFacts ==
  ASSUME NEW f \in AbiFunctions
  PROVE  /\ FunctionIds(f) \in Seq(TypeIds)
         /\ ToSet(FunctionIds(f)) = ToSet(RefsIn(f.params)) \cup ToSet(RefsIn(f.results))
<1>1. f.params \in Seq(AbiValues) /\ f.results \in Seq(AbiValues) BY DEF AbiFunctions
<1>2. RefsIn(f.params) \in Seq(TypeIds) /\ RefsIn(f.results) \in Seq(TypeIds)
  BY <1>1, RefsInFacts
<1> QED BY <1>2, ToSetConcat, ConcatProperties DEF FunctionIds

\* A renamed function keeps its key and names the new numbers in order.
LEMMA FunctionRenamed ==
  ASSUME NEW f \in AbiFunctions, NEW q, \A id \in ToSet(FunctionIds(f)) : q[id] \in TypeIds
  PROVE  /\ RenameFunction(f, q) \in AbiFunctions /\ RenameFunction(f, q).key = f.key
         /\ FunctionIds(RenameFunction(f, q)) = Numbered(FunctionIds(f), q)
<1>1. f.params \in Seq(AbiValues) /\ f.results \in Seq(AbiValues) BY DEF AbiFunctions
<1>2. /\ \A id \in ToSet(RefsIn(f.params)) : q[id] \in TypeIds
      /\ \A id \in ToSet(RefsIn(f.results)) : q[id] \in TypeIds
  BY FunctionIdsFacts
<1>3. /\ RenameValues(f.params, q) \in Seq(AbiValues)
      /\ RenameValues(f.results, q) \in Seq(AbiValues)
      /\ RefsIn(RenameValues(f.params, q)) = Numbered(RefsIn(f.params), q)
      /\ RefsIn(RenameValues(f.results, q)) = Numbered(RefsIn(f.results), q)
  BY <1>1, <1>2, RefsInRenamed
<1>4. /\ RenameFunction(f, q) \in AbiFunctions /\ RenameFunction(f, q).key = f.key
      /\ RenameFunction(f, q).params = RenameValues(f.params, q)
      /\ RenameFunction(f, q).results = RenameValues(f.results, q)
  BY <1>3 DEF RenameFunction, AbiFunctions
<1>5. RefsIn(f.params) \in Seq(TypeIds) /\ RefsIn(f.results) \in Seq(TypeIds)
  BY <1>1, RefsInFacts
<1>6. Numbered(FunctionIds(f), q) = Numbered(RefsIn(f.params), q) \o Numbered(RefsIn(f.results), q)
  BY <1>5, NumberedConcat DEF FunctionIds
<1> QED BY <1>3, <1>4, <1>6 DEF FunctionIds

\* The types that functions name.
LEMMA FunctionRefsFacts ==
  ASSUME NEW fs \in Seq(AbiFunctions)
  PROVE  /\ FunctionRefs(fs) \in Seq(TypeIds)
         /\ ToSet(FunctionRefs(fs)) = UNION {ToSet(FunctionIds(f)) : f \in ToSet(fs)}
<1>6. ASSUME NEW rr \in Seq(Seq(TypeIds))
      PROVE  /\ FlattenSeq(rr) \in Seq(TypeIds)
             /\ ToSet(FlattenSeq(rr)) = UNION {ToSet(rr[i]) : i \in 1..Len(rr)}
  BY FlattenElements
<1>0. /\ Len(fs) \in Nat /\ DOMAIN fs = 1..Len(fs)
      /\ \A n \in 1..Len(fs) : fs[n] \in AbiFunctions
      /\ ToSet(fs) = {fs[n] : n \in 1..Len(fs)}
  BY SeqFacts
<1> DEFINE ss == [n \in DOMAIN fs |-> FunctionIds(fs[n])]
<1>1. \A n \in 1..Len(fs) : ss[n] = FunctionIds(fs[n]) /\ ss[n] \in Seq(TypeIds)
  BY <1>0, FunctionIdsFacts
<1>2. ss \in Seq(Seq(TypeIds)) /\ Len(ss) = Len(fs)
  <2>1. ss \in [1..Len(fs) -> Seq(TypeIds)] BY <1>0, <1>1
  <2> HIDE DEF ss
  <2> QED BY <2>1, <1>0, FunctionIsSeq
<1>4. FunctionRefs(fs) = FlattenSeq(ss) BY DEF FunctionRefs, FunctionIds
<1>5. /\ FunctionRefs(fs) \in Seq(TypeIds)
      /\ ToSet(FunctionRefs(fs)) = UNION {ToSet(ss[i]) : i \in 1..Len(ss)}
  BY <1>2, <1>4, <1>6
<1> HIDE DEF ss
<1> HIDE DEF ToSet
<1>7. ASSUME NEW id PROVE id \in ToSet(FunctionRefs(fs)) <=> \E f \in ToSet(fs) : id \in ToSet(FunctionIds(f))
  <2>1. id \in ToSet(FunctionRefs(fs)) <=> \E n \in 1..Len(fs) : id \in ToSet(ss[n]) BY <1>2, <1>5
  <2>2. (\E n \in 1..Len(fs) : id \in ToSet(FunctionIds(fs[n]))) <=> \E f \in ToSet(fs) : id \in ToSet(FunctionIds(f))
    BY <1>0
  <2> QED BY <2>1, <2>2, <1>1
<1> QED BY <1>5, <1>7

\* Renamed functions are each function renamed.
LEMMA FunctionsRenamed ==
  ASSUME NEW fs \in Seq(AbiFunctions), NEW q,
         \A id \in ToSet(FunctionRefs(fs)) : q[id] \in TypeIds
  PROVE  /\ RenameFunctions(fs, q) \in Seq(AbiFunctions)
         /\ Len(RenameFunctions(fs, q)) = Len(fs)
         /\ \A n \in 1..Len(fs) : RenameFunctions(fs, q)[n] = RenameFunction(fs[n], q)
         /\ ToSet(RenameFunctions(fs, q)) = {RenameFunction(f, q) : f \in ToSet(fs)}
         /\ FunctionRefs(RenameFunctions(fs, q)) = Numbered(FunctionRefs(fs), q)
<1> DEFINE gs == RenameFunctions(fs, q)
<1>0. /\ Len(fs) \in Nat /\ DOMAIN fs = 1..Len(fs)
      /\ \A n \in 1..Len(fs) : fs[n] \in AbiFunctions
      /\ ToSet(fs) = {fs[n] : n \in 1..Len(fs)}
  BY SeqFacts
<1>1. \A n \in 1..Len(fs) : \A id \in ToSet(FunctionIds(fs[n])) : q[id] \in TypeIds
  BY <1>0, FunctionRefsFacts
<1>2. \A n \in 1..Len(fs) :
        /\ RenameFunction(fs[n], q) \in AbiFunctions
        /\ FunctionIds(RenameFunction(fs[n], q)) = Numbered(FunctionIds(fs[n]), q)
        /\ FunctionIds(fs[n]) \in Seq(TypeIds)
        /\ FunctionIds(RenameFunction(fs[n], q)) \in Seq(TypeIds)
  <2> TAKE n \in 1..Len(fs)
  <2>1. fs[n] \in AbiFunctions BY <1>0
  <2>2. /\ RenameFunction(fs[n], q) \in AbiFunctions
        /\ FunctionIds(RenameFunction(fs[n], q)) = Numbered(FunctionIds(fs[n]), q)
    BY <2>1, <1>1, FunctionRenamed
  <2> QED BY <2>1, <2>2, FunctionIdsFacts
<1>3. gs = [n \in 1..Len(fs) |-> RenameFunction(fs[n], q)]
  BY <1>0 DEF RenameFunctions, RenameFunction
<1> HIDE DEF gs
<1>4. \A n \in 1..Len(fs) : gs[n] = RenameFunction(fs[n], q)
  BY <1>3
<1>5. gs \in Seq(AbiFunctions) /\ Len(gs) = Len(fs)
  <2>1. gs \in [1..Len(fs) -> AbiFunctions] BY <1>2, <1>3
  <2> QED BY <2>1, <1>0, FunctionIsSeq
<1>6. ToSet(gs) = {gs[n] : n \in 1..Len(fs)} BY <1>5, SeqFacts
<1>7. ToSet(gs) = {RenameFunction(f, q) : f \in ToSet(fs)}
  <2> HIDE DEF ToSet
  <2> QED BY <1>0, <1>4, <1>6
<1> DEFINE ss == [n \in DOMAIN fs |-> FunctionIds(fs[n])]
           tt == [n \in DOMAIN gs |-> FunctionIds(gs[n])]
<1>8. DOMAIN gs = 1..Len(fs) BY <1>3
<1>9. \A n \in 1..Len(fs) : tt[n] = Numbered(ss[n], q)
  BY <1>0, <1>2, <1>4, <1>8
<1>10. ss \in Seq(Seq(TypeIds)) /\ Len(ss) = Len(fs) /\ tt \in Seq(Seq(TypeIds)) /\ Len(tt) = Len(fs)
  <2>1. ss \in [1..Len(fs) -> Seq(TypeIds)] /\ tt \in [1..Len(fs) -> Seq(TypeIds)]
    BY <1>0, <1>2, <1>4, <1>8
  <2> HIDE DEF ss, tt
  <2> QED BY <2>1, <1>0, FunctionIsSeq
<1>11. FunctionRefs(fs) = FlattenSeq(ss) /\ FunctionRefs(gs) = FlattenSeq(tt)
  BY DEF FunctionRefs, FunctionIds
<1> HIDE DEF ss, tt
<1>12. FlattenSeq(tt) = Numbered(FlattenSeq(ss), q)
  BY <1>9, <1>10, FlattenNumbered
<1> QED BY <1>4, <1>5, <1>7, <1>11, <1>12 DEF gs

\* Fields of definitions.
AbiFields == [storage : AbiValues, mutable : BOOLEAN]

\* What the fields of a definition hold.
LEMMA StoragesFacts ==
  ASSUME NEW d \in AbiDefinitions
  PROVE  /\ Storages(d) \in Seq(AbiValues) /\ Len(Storages(d)) = Len(d.fields)
         /\ \A n \in 1..Len(d.fields) : Storages(d)[n] = d.fields[n].storage
<1>1. d.fields \in Seq(AbiFields) BY DEF AbiDefinitions, AbiFields
<1>0. /\ Len(d.fields) \in Nat /\ DOMAIN d.fields = 1..Len(d.fields)
      /\ \A n \in 1..Len(d.fields) : d.fields[n] \in AbiFields
  BY <1>1, SeqFacts
<1>2. Storages(d) = [n \in 1..Len(d.fields) |-> d.fields[n].storage] BY <1>0 DEF Storages
<1>3. \A n \in 1..Len(d.fields) : d.fields[n].storage \in AbiValues BY <1>0 DEF AbiFields
<1>4. Storages(d) \in [1..Len(d.fields) -> AbiValues] BY <1>2, <1>3
<1>5. \A n \in 1..Len(d.fields) : Storages(d)[n] = d.fields[n].storage BY <1>2
<1> QED BY <1>0, <1>4, <1>5, FunctionIsSeq

\* A definition refers to its supertypes and to the types in its fields.
LEMMA DefinitionRefsFacts ==
  ASSUME NEW d \in AbiDefinitions
  PROVE  /\ DefinitionRefs(d) \in Seq(TypeIds) /\ d.supertypes \in Seq(TypeIds)
         /\ RefsIn(Storages(d)) \in Seq(TypeIds)
         /\ ToSet(DefinitionRefs(d)) = ToSet(d.supertypes) \cup ToSet(RefsIn(Storages(d)))
<1>1. d.supertypes \in Seq(TypeIds) BY DEF AbiDefinitions
<1>2. RefsIn(Storages(d)) \in Seq(TypeIds) BY StoragesFacts, RefsInFacts
<1> QED BY <1>1, <1>2, ToSetConcat, ConcatProperties DEF DefinitionRefs

\* A renamed definition keeps all but the types it refers to, and refers to
\* the new numbers in order.
LEMMA DefinitionRenamed ==
  ASSUME NEW d \in AbiDefinitions, NEW q, \A id \in ToSet(DefinitionRefs(d)) : q[id] \in TypeIds
  PROVE  LET e == RenameDefinition(d, q)
         IN  /\ e \in AbiDefinitions /\ e.kind = d.kind /\ e.final = d.final
             /\ e.supertypes = Numbered(d.supertypes, q)
             /\ Storages(e) = RenameValues(Storages(d), q)
             /\ DefinitionRefs(e) = Numbered(DefinitionRefs(d), q)
             /\ Len(e.fields) = Len(d.fields)
             /\ \A n \in 1..Len(d.fields) :
                   e.fields[n] = RenameField(d.fields[n], q)
<1>1. d.fields \in Seq(AbiFields) /\ d.supertypes \in Seq(TypeIds) BY DEF AbiDefinitions, AbiFields
<1>0. /\ Len(d.fields) \in Nat /\ DOMAIN d.fields = 1..Len(d.fields)
      /\ \A n \in 1..Len(d.fields) : d.fields[n] \in AbiFields
      /\ Len(d.supertypes) \in Nat /\ DOMAIN d.supertypes = 1..Len(d.supertypes)
      /\ \A n \in 1..Len(d.supertypes) : d.supertypes[n] \in TypeIds
  BY <1>1, SeqFacts
<1>2. /\ \A id \in ToSet(d.supertypes) : q[id] \in TypeIds
      /\ \A id \in ToSet(RefsIn(Storages(d))) : q[id] \in TypeIds
  BY DefinitionRefsFacts
<1>3. /\ RenameValues(Storages(d), q) \in Seq(AbiValues)
      /\ RefsIn(RenameValues(Storages(d), q)) = Numbered(RefsIn(Storages(d)), q)
      /\ Len(RenameValues(Storages(d), q)) = Len(d.fields)
  BY <1>2, StoragesFacts, RefsInRenamed
<1> DEFINE e == RenameDefinition(d, q)
           ff == [n \in DOMAIN d.fields |-> RenameField(d.fields[n], q)]
<1>4. /\ e.supertypes = Numbered(d.supertypes, q) /\ e.fields = ff /\ e.kind = d.kind /\ e.final = d.final
      /\ ff \in Seq(AbiFields) /\ e.supertypes \in Seq(TypeIds) => e \in AbiDefinitions
  <2>1. e = [d EXCEPT !.supertypes = Numbered(d.supertypes, q), !.fields = ff]
    BY DEF RenameDefinition, Numbered
  <2> HIDE DEF e, ff
  <2> QED BY <2>1 DEF AbiDefinitions, AbiFields
<1>5. Storages(d) \in Seq(AbiValues) /\ DOMAIN Storages(d) = 1..Len(d.fields)
      /\ \A n \in 1..Len(d.fields) : Storages(d)[n] = d.fields[n].storage
  BY StoragesFacts, SeqFacts
<1>6. \A n \in 1..Len(d.fields) :
         /\ RenameValues(Storages(d), q)[n] = RenameValue(d.fields[n].storage, q)
         /\ RenameValue(d.fields[n].storage, q) \in AbiValues
  <2> TAKE n \in 1..Len(d.fields)
  <2>1. RenameValues(Storages(d), q)[n] = RenameValue(d.fields[n].storage, q)
    BY <1>5 DEF RenameValues
  <2>2. RenameValues(Storages(d), q)[n] \in AbiValues BY <1>3
  <2> QED BY <2>1, <2>2
<1>7. \A n \in 1..Len(d.fields) :
         /\ ff[n] = RenameField(d.fields[n], q)
         /\ ff[n] \in AbiFields /\ ff[n].storage = RenameValue(d.fields[n].storage, q)
  BY <1>0, <1>6 DEF AbiFields, RenameField
<1>8. ff \in Seq(AbiFields) /\ Len(ff) = Len(d.fields)
  <2>1. ff \in [1..Len(d.fields) -> AbiFields] BY <1>0, <1>7
  <2> HIDE DEF ff
  <2> QED BY <2>1, <1>0, FunctionIsSeq
<1>9. Numbered(d.supertypes, q) \in Seq(TypeIds)
  <2>1. Numbered(d.supertypes, q) = [n \in 1..Len(d.supertypes) |-> q[d.supertypes[n]]]
    BY <1>0 DEF Numbered
  <2>2. \A n \in 1..Len(d.supertypes) : q[d.supertypes[n]] \in TypeIds
    BY <1>0, <1>1, <1>2, SeqFacts
  <2>3. Numbered(d.supertypes, q) \in [1..Len(d.supertypes) -> TypeIds] BY <2>1, <2>2
  <2> QED BY <2>3, <1>0, FunctionIsSeq
<1> HIDE DEF e, ff
<1>10. e \in AbiDefinitions BY <1>4, <1>8, <1>9
<1>11. Storages(e) = RenameValues(Storages(d), q)
  <2>1. DOMAIN ff = 1..Len(d.fields) BY <1>0, <1>8, SeqFacts
  <2>2. Storages(e) = [n \in 1..Len(d.fields) |-> ff[n].storage] BY <1>4, <2>1 DEF Storages
  <2>3. RenameValues(Storages(d), q) = [n \in 1..Len(d.fields) |-> RenameValues(Storages(d), q)[n]]
    BY <1>5 DEF RenameValues
  <2> QED BY <2>2, <2>3, <1>6, <1>7
<1>12. DefinitionRefs(e) = Numbered(DefinitionRefs(d), q)
  <2>1. Numbered(DefinitionRefs(d), q) = Numbered(d.supertypes, q) \o Numbered(RefsIn(Storages(d)), q)
    BY DefinitionRefsFacts, NumberedConcat DEF DefinitionRefs
  <2> QED BY <2>1, <1>3, <1>4, <1>11 DEF DefinitionRefs
<1> QED BY <1>4, <1>7, <1>8, <1>10, <1>11, <1>12 DEF e

-----------------------------------------------------------------------------
(* The order of functions.                                                 *)

\* What texts are made of.
Letters == Nat \cup {ValueText(v)[2] : v \in AbiValues}

\* The text of values.
LEMMA ListTextFacts ==
  ASSUME NEW vs \in Seq(AbiValues)
  PROVE  ListText(vs) \in Seq(Letters)
<1>0. /\ Len(vs) \in Nat /\ DOMAIN vs = 1..Len(vs)
      /\ \A n \in 1..Len(vs) : vs[n] \in AbiValues
  BY SeqFacts
<1>1. ASSUME NEW v \in AbiValues PROVE ValueText(v) \in Seq(Letters)
  <2>1. ValueText(v)[2] \in Letters BY DEF Letters
  <2>2. 1 \in Letters /\ v.id \in Letters
    <3>1. v.id \in {0} \cup TypeIds BY DEF AbiValues
    <3>2. v.id \in Nat
      <4>1. 0 \in Nat OBVIOUS
      <4>2. TypeIds \subseteq Nat BY IdFacts
      <4> QED BY <3>1, <4>1, <4>2, Zenon
    <3>3. 1 \in Nat OBVIOUS
    <3> HIDE DEF ValueText
    <3> QED BY <3>2, <3>3, Zenon DEF Letters
  <2>3. ValueText(v) = <<1, ValueText(v)[2], v.id>> BY DEF ValueText
  <2> HIDE DEF ValueText, Letters
  <2>4. ASSUME NEW x \in Letters PROVE <<1, x, v.id>> \in Seq(Letters) BY <2>2
  <2> QED BY <2>1, <2>3, <2>4
<1>2. ASSUME NEW rr \in Seq(Seq(Letters)) PROVE FlattenSeq(rr) \in Seq(Letters)
  BY FlattenElements
<1> DEFINE ss == [n \in DOMAIN vs |-> ValueText(vs[n])]
<1>3. \A n \in 1..Len(vs) : ss[n] \in Seq(Letters) BY <1>0, <1>1
<1>4. ss \in [1..Len(vs) -> Seq(Letters)] BY <1>0, <1>3
<1>5. ListText(vs) = FlattenSeq(ss) BY DEF ListText
<1> HIDE DEF ss
<1> QED BY <1>0, <1>2, <1>4, <1>5, FunctionIsSeq

\* A function's text begins with its key.
LEMMA StableTextFacts ==
  ASSUME NEW f \in AbiFunctions
  PROVE  /\ StableText(f) \in Seq(Letters) /\ Len(StableText(f)) >= 1
         /\ StableText(f)[1] = f.key
<1>1. ListText(f.params) \in Seq(Letters) /\ ListText(f.results) \in Seq(Letters)
  BY ListTextFacts DEF AbiFunctions
<1>2. f.key \in Letters /\ 0 \in Letters BY DEF AbiFunctions, Letters
<1> HIDE DEF Letters
<1>3. ASSUME NEW s \in Seq(Letters), NEW t \in Seq(Letters)
      PROVE  LET u == <<f.key>> \o s \o <<0>> \o t
             IN  u \in Seq(Letters) /\ Len(u) >= 1 /\ u[1] = f.key
  <2>1. <<f.key>> \in Seq(Letters) /\ <<0>> \in Seq(Letters) /\ Len(<<f.key>>) = 1
    BY <1>2
  <2>2. /\ <<f.key>> \o s \in Seq(Letters) /\ Len(<<f.key>> \o s) = 1 + Len(s)
        /\ (<<f.key>> \o s)[1] = f.key
    BY <2>1, <1>2, ConcatProperties
  <2> DEFINE a == <<f.key>> \o s
  <2>3. a \in Seq(Letters) /\ Len(a) >= 1 /\ a[1] = f.key BY <2>2
  <2> HIDE DEF a
  <2>4. a \o <<0>> \in Seq(Letters) /\ Len(a \o <<0>>) >= 1 /\ (a \o <<0>>)[1] = f.key
    BY <2>1, <2>3
  <2> DEFINE b == a \o <<0>>
  <2>5. b \in Seq(Letters) /\ Len(b) >= 1 /\ b[1] = f.key BY <2>4
  <2> HIDE DEF b
  <2>6. b \o t \in Seq(Letters) /\ Len(b \o t) >= 1 /\ (b \o t)[1] = f.key
    BY <2>5
  <2> QED BY <2>6 DEF a, b
<1> QED BY <1>1, <1>3 DEF StableText

\* Letters are numbers.
LEMMA LetterFacts == Letters = Nat
<1>1. DOMAIN ValueTypes \subseteq Nat BY DEF ValueTypes
<1>2. ASSUME NEW v \in AbiValues PROVE ValueText(v)[2] \in Nat
  <2>1. v.type \in ToSet(ValueTypes) BY DEF AbiValues
  <2>2. \E n \in DOMAIN ValueTypes : ValueTypes[n] = v.type BY <2>1 DEF ToSet
  <2>3. (CHOOSE n \in DOMAIN ValueTypes : ValueTypes[n] = v.type) \in DOMAIN ValueTypes BY <2>2
  <2> HIDE DEF ValueTypes
  <2>4. ValueText(v)[2] = CHOOSE n \in DOMAIN ValueTypes : ValueTypes[n] = v.type BY DEF ValueText
  <2> QED BY <1>1, <2>3, <2>4
<1> QED BY <1>2 DEF Letters

\* The order of texts is total and strict.
LEMMA TextsOrdered ==
  ASSUME NEW s \in Seq(Nat), NEW t \in Seq(Nat), NEW u \in Seq(Nat)
  PROVE  /\ ~TextBefore(s, s)
         /\ s = t \/ TextBefore(s, t) \/ TextBefore(t, s)
         /\ TextBefore(s, t) /\ TextBefore(t, u) => TextBefore(s, u)
<1>0. /\ Len(s) \in Nat /\ DOMAIN s = 1..Len(s) /\ Len(t) \in Nat /\ DOMAIN t = 1..Len(t)
      /\ Len(u) \in Nat /\ DOMAIN u = 1..Len(u)
      /\ \A n \in DOMAIN s : s[n] \in Nat
      /\ \A n \in DOMAIN t : t[n] \in Nat
      /\ \A n \in DOMAIN u : u[n] \in Nat
  BY SeqFacts
<1>1. ~TextBefore(s, s) BY <1>0 DEF TextBefore
<1>2. ASSUME s # t PROVE TextBefore(s, t) \/ TextBefore(t, s)
  <2> DEFINE Differ == {n \in (1..Len(s)) \cup (1..Len(t)) :
                          ~(n \in 1..Len(s) /\ n \in 1..Len(t) /\ s[n] = t[n])}
  <2>1. Differ # {}
    <3> SUFFICES ASSUME Differ = {} PROVE FALSE OBVIOUS
    <3>1. \A n \in 1..Len(s) : n \in 1..Len(t) /\ s[n] = t[n] OBVIOUS
    <3>2. \A n \in 1..Len(t) : n \in 1..Len(s) OBVIOUS
    <3> HIDE DEF Differ
    <3>3. Len(s) = Len(t)
      <4>1. Len(s) <= Len(t) BY <3>1, <1>0
      <4>2. Len(t) <= Len(s) BY <3>2, <1>0
      <4>3. Len(s) \in Nat /\ Len(t) \in Nat BY <1>0
      <4> QED BY <4>1, <4>2, <4>3
    <3>4. s = t BY <3>1, <3>3, SeqEqual
    <3> QED BY <3>4, <1>2
  <2>2. Differ \in SUBSET Nat BY <1>0
  <2>3. PICK x \in Differ : \A y \in Differ : x <= y BY <2>1, <2>2, Least
  <2>4. x \in Nat /\ x >= 1 /\ (x <= Len(s) \/ x <= Len(t)) BY <1>0
  <2>5. \A m \in 1..(x - 1) : m \in DOMAIN s /\ m \in DOMAIN t /\ s[m] = t[m]
    <3> TAKE m \in 1..(x - 1)
    <3>1. m \notin Differ BY <2>3, <2>4
    <3>2. m \in (1..Len(s)) \cup (1..Len(t)) BY <2>4, <1>0
    <3> QED BY <3>1, <3>2, <1>0
  <2>6. ~(x \in 1..Len(s) /\ x \in 1..Len(t) /\ s[x] = t[x]) OBVIOUS
  <2> HIDE DEF Differ
  <2>7. CASE x \in DOMAIN s /\ x \in DOMAIN t
    <3>1. s[x] \in Nat /\ t[x] \in Nat /\ s[x] # t[x] BY <2>7, <2>6, <1>0
    <3>2. s[x] < t[x] \/ t[x] < s[x] BY <3>1
    <3> QED BY <2>5, <2>7, <3>2 DEF TextBefore
  <2>8. CASE x \in DOMAIN t /\ x \notin DOMAIN s
    BY <2>5, <2>8 DEF TextBefore
  <2>9. CASE x \in DOMAIN s /\ x \notin DOMAIN t
    BY <2>5, <2>9 DEF TextBefore
  <2> QED BY <2>4, <1>0, <2>7, <2>8, <2>9
<1>3. ASSUME TextBefore(s, t), TextBefore(t, u) PROVE TextBefore(s, u)
  <2>1. PICK a \in DOMAIN t : /\ \A m \in 1..(a - 1) : m \in DOMAIN s /\ s[m] = t[m]
                              /\ a \in DOMAIN s => s[a] < t[a]
    BY <1>3 DEF TextBefore
  <2>2. PICK b \in DOMAIN u : /\ \A m \in 1..(b - 1) : m \in DOMAIN t /\ t[m] = u[m]
                              /\ b \in DOMAIN t => t[b] < u[b]
    BY <1>3 DEF TextBefore
  <2>3. a \in Nat /\ b \in Nat /\ a >= 1 /\ b >= 1 BY <1>0
  <2>4. CASE a < b
    <3>0. a \in 1..(b - 1) BY <2>3, <2>4
    <3>1. a \in DOMAIN u /\ t[a] = u[a] BY <3>0, <2>2, <2>3, <2>4, <1>0
    <3>2. \A m \in 1..(a - 1) : m \in DOMAIN s /\ s[m] = u[m]
      <4> TAKE m \in 1..(a - 1)
      <4>1. m \in 1..(b - 1) BY <2>3, <2>4
      <4> QED BY <4>1, <2>1, <2>2
    <3> QED BY <3>1, <3>2, <2>1 DEF TextBefore
  <2>5. CASE b <= a
    <3>1. \A m \in 1..(b - 1) : m \in DOMAIN s /\ s[m] = u[m]
      <4> TAKE m \in 1..(b - 1)
      <4>1. m \in 1..(a - 1) BY <2>3, <2>5
      <4> QED BY <4>1, <2>1, <2>2
    <3>2. b \in DOMAIN s => s[b] < u[b]
      <4> SUFFICES ASSUME b \in DOMAIN s PROVE s[b] < u[b] OBVIOUS
      <4>1. b \in DOMAIN t BY <2>3, <2>5, <1>0
      <4>2. t[b] < u[b] BY <4>1, <2>2
      <4>3. s[b] \in Nat /\ t[b] \in Nat /\ u[b] \in Nat BY <4>1, <1>0
      <4>4. s[b] <= t[b]
        <5>1. CASE b = a BY <5>1, <2>1, <4>3
        <5>2. CASE b < a
          <6>1. b \in 1..(a - 1) BY <2>3, <5>2
          <6> QED BY <6>1, <2>1, <4>3
        <5> QED BY <5>1, <5>2, <2>3, <2>5
      <4> QED BY <4>2, <4>3, <4>4
    <3> QED BY <3>1, <3>2 DEF TextBefore
  <2> QED BY <2>3, <2>4, <2>5
<1> QED BY <1>1, <1>2, <1>3

\* Functions with different keys are ordered by their keys.
LEMMA TextOrder ==
  ASSUME NEW f \in AbiFunctions, NEW g \in AbiFunctions, f.key # g.key
  PROVE  /\ TextBefore(StableText(f), StableText(g)) <=> f.key < g.key
         /\ StableText(f) # StableText(g)
<1> DEFINE s == StableText(f)
           t == StableText(g)
<1>1. /\ 1 \in DOMAIN s /\ 1 \in DOMAIN t /\ s[1] = f.key /\ t[1] = g.key
      /\ DOMAIN t = 1..Len(t) /\ Len(t) \in Nat
  BY StableTextFacts, SeqFacts
<1> HIDE DEF s, t
<1>2. ASSUME TextBefore(s, t) PROVE f.key < g.key
  <2>1. PICK n \in DOMAIN t : /\ \A m \in 1..(n - 1) : m \in DOMAIN s /\ s[m] = t[m]
                              /\ n \in DOMAIN s => s[n] < t[n]
    BY <1>2 DEF TextBefore
  <2>2. n = 1
    <3> SUFFICES ASSUME n # 1 PROVE FALSE OBVIOUS
    <3>1. 1 \in 1..(n - 1) BY <1>1
    <3> QED BY <3>1, <2>1, <1>1
  <2> QED BY <2>1, <2>2, <1>1
<1>3. ASSUME f.key < g.key PROVE TextBefore(s, t)
  BY <1>1, <1>3 DEF TextBefore
<1> QED BY <1>1, <1>2, <1>3 DEF s, t

\* In the order of keys, with no key twice.
Increasing(fs) == \A m, n \in DOMAIN fs : m < n => fs[m].key < fs[n].key

\* A permutation that brings functions into the order of their texts.
IsSorting(p, fs) ==
    \A m, n \in DOMAIN fs :
        m < n => \/ TextBefore(StableText(fs[p[m]]), StableText(fs[p[n]]))
                 \/ StableText(fs[p[m]]) = StableText(fs[p[n]])

\* What a list that names each function once is made of.
LEMMA NamedFacts ==
  ASSUME NEW fs \in Seq(AbiFunctions), NamedOnce(fs)
  PROVE  /\ Len(fs) \in Nat /\ DOMAIN fs = 1..Len(fs)
         /\ \A i \in 1..Len(fs) : fs[i] \in AbiFunctions /\ fs[i].key \in Nat
         /\ \A i, j \in 1..Len(fs) : fs[i].key = fs[j].key => i = j
<1>1. /\ Len(fs) \in Nat /\ DOMAIN fs = 1..Len(fs)
      /\ \A i \in 1..Len(fs) : fs[i] \in AbiFunctions
  BY SeqFacts
<1>2. \A f \in AbiFunctions : f.key \in Nat BY DEF AbiFunctions
<1>3. \A i, j \in 1..Len(fs) : fs[i].key = fs[j].key => i = j
  BY <1>1 DEF NamedOnce
<1> QED BY <1>1, <1>2, <1>3

\* A strict total order on the first numbers.
TotalOn(D, R) ==
    /\ \A i \in D : <<i, i>> \notin R
    /\ \A i, j \in D : i = j \/ <<i, j>> \in R \/ <<j, i>> \in R
    /\ \A i, j, k \in D : <<i, j>> \in R /\ <<j, k>> \in R => <<i, k>> \in R

\* The first numbers can be brought into any order of them.
LEMMA RankExists ==
  ASSUME NEW N \in Nat, NEW R, TotalOn(1..N, R)
  PROVE  \E p \in Bijection(1..N, 1..N) : \A m, n \in 1..N : m < n => <<p[m], p[n]>> \in R
<1> DEFINE D == 1..N
           Low(i) == {j \in D : j = i \/ <<j, i>> \in R}
           r == [i \in D |-> Cardinality(Low(i))]
<1>0. \A i \in D : i \in Nat OBVIOUS
<1>1. IsFiniteSet(D) /\ Cardinality(D) = N
  <2>1. ASSUME NEW n \in Nat PROVE IsFiniteSet(1..n) /\ Cardinality(1..n) = n
    <3>1. /\ IsFiniteSet(1..n)
          /\ Cardinality(1..n) = IF 1 > n THEN 0 ELSE (n - 1) + 1
      BY FS_Interval
    <3>2. (IF 1 > n THEN 0 ELSE (n - 1) + 1) = n OBVIOUS
    <3> QED BY <3>1, <3>2
  <2> QED BY <2>1
<1>2. \A i \in D : r[i] \in D
  <2> TAKE i \in D
  <2>1. Low(i) \subseteq D /\ i \in Low(i) OBVIOUS
  <2>2. IsFiniteSet(Low(i)) /\ Cardinality(Low(i)) \in Nat /\ Cardinality(Low(i)) <= N
    BY <2>1, <1>1, FS_Subset, FS_CardinalityType
  <2>3. Cardinality(Low(i)) # 0 BY <2>1, <2>2, FS_EmptySet
  <2> QED BY <2>2, <2>3
<1>3. ASSUME NEW i \in D, NEW j \in D, <<i, j>> \in R PROVE r[i] < r[j]
  <2>1. Low(i) \subseteq Low(j) /\ j \in Low(j) /\ j \notin Low(i)
    <3>1. i # j /\ <<j, i>> \notin R BY <1>3 DEF TotalOn
    <3>2. \A k \in D : <<k, i>> \in R => <<k, j>> \in R BY <1>3 DEF TotalOn
    <3> QED BY <1>3, <3>1, <3>2
  <2>2. IsFiniteSet(Low(j)) BY <1>1, FS_Subset
  <2> HIDE DEF Low
  <2>3. Cardinality(Low(i)) < Cardinality(Low(j))
    <3>1. Low(i) # Low(j) BY <2>1
    <3>2. /\ IsFiniteSet(Low(i)) /\ Cardinality(Low(i)) <= Cardinality(Low(j))
          /\ Low(i) # Low(j) => Cardinality(Low(i)) # Cardinality(Low(j))
      BY <2>1, <2>2, FS_Subset
    <3>3. Cardinality(Low(i)) \in Nat /\ Cardinality(Low(j)) \in Nat
      BY <2>2, <3>2, FS_CardinalityType
    <3> QED BY <3>1, <3>2, <3>3
  <2> QED BY <2>3
<1>4. r \in [D -> D] BY <1>2
<1> HIDE DEF r
<1>5. \A i, j \in D : r[i] = r[j] => i = j
  <2> SUFFICES ASSUME NEW i \in D, NEW j \in D, r[i] = r[j] PROVE i = j OBVIOUS
  <2>1. r[i] \in Nat /\ r[j] \in Nat BY <1>4
  <2>2. <<i, j>> \notin R /\ <<j, i>> \notin R BY <2>1, <1>3
  <2> QED BY <2>2 DEF TotalOn
<1>6. \A i \in D : r[i] \in Nat BY <1>4
<1>61. TotalOn(D, R) OBVIOUS
<1> HIDE DEF D
<1>7. r \in Injection(D, D) BY <1>4, <1>5, Fun_IsInj
<1>8. r \in Surjection(D, D) BY <1>1, <1>7, FS_Injection
<1>9. r \in Bijection(D, D) BY <1>7, <1>8, Fun_IsBij
<1> DEFINE p == Inverse(r, D, D)
<1>10. p \in Bijection(D, D) /\ \A i \in D : p[r[i]] = i BY <1>9, Fun_BijInverse
<1> HIDE DEF p
<1>11. p \in [D -> D] /\ \A i, j \in D : p[i] = p[j] => i = j BY <1>10, Fun_BijectionProperties
<1>12. \A n \in D : r[p[n]] = n
  <2> TAKE n \in D
  <2>1. PICK i \in D : r[i] = n BY <1>8, Fun_SurjectionProperties
  <2> QED BY <2>1, <1>10
<1>13. ASSUME NEW m \in D, NEW n \in D, m < n PROVE <<p[m], p[n]>> \in R
  <2>1. p[m] \in D /\ p[n] \in D /\ p[m] # p[n] BY <1>11, <1>13, <1>0
  <2>2. <<p[n], p[m]>> \in R => n < m BY <2>1, <1>3, <1>12
  <2>3. m \in Nat /\ n \in Nat BY <1>0
  <2>4. <<p[n], p[m]>> \notin R BY <2>2, <2>3, <1>13
  <2> QED BY <2>1, <2>4, <1>61 DEF TotalOn
<1> QED BY <1>10, <1>13 DEF D

\* There is a permutation that sorts.
LEMMA OrderExists ==
  ASSUME NEW fs \in Seq(AbiFunctions)
  PROVE  \E p \in Injection(DOMAIN fs, DOMAIN fs) : IsSorting(p, fs)
<1> DEFINE N == Len(fs)
           D == 1..N
           Text(i) == StableText(fs[i])
           Ahead(i, j) == TextBefore(Text(i), Text(j)) \/ (Text(i) = Text(j) /\ i < j)
           R == {ij \in D \X D : Ahead(ij[1], ij[2])}
<1>0. N \in Nat /\ DOMAIN fs = D /\ \A i \in D : fs[i] \in AbiFunctions
  BY SeqFacts
<1>1. ASSUME NEW f \in AbiFunctions PROVE StableText(f) \in Seq(Nat)
  BY StableTextFacts, LetterFacts
<1>2. \A i \in D : Text(i) \in Seq(Nat) BY <1>0, <1>1
<1>3. \A i, j \in D : <<i, j>> \in R <=> Ahead(i, j) BY Zenon DEF R
<1>30. \A i \in D : i \in Nat BY <1>0
<1> HIDE DEF R, Text
<1>4. \A i, j, k \in D : /\ ~Ahead(i, i)
                         /\ i = j \/ Ahead(i, j) \/ Ahead(j, i)
                         /\ Ahead(i, j) /\ Ahead(j, k) => Ahead(i, k)
  <2> TAKE i, j, k \in D
  <2>0. Text(i) \in Seq(Nat) /\ Text(j) \in Seq(Nat) /\ Text(k) \in Seq(Nat) BY <1>2
  <2>1. /\ ~TextBefore(Text(i), Text(i))
        /\ Text(i) = Text(j) \/ TextBefore(Text(i), Text(j)) \/ TextBefore(Text(j), Text(i))
        /\ TextBefore(Text(i), Text(j)) /\ TextBefore(Text(j), Text(k)) =>
              TextBefore(Text(i), Text(k))
    BY <2>0, TextsOrdered
  <2>2. i \in Nat /\ j \in Nat /\ k \in Nat BY <1>30
  <2> QED BY <2>1, <2>2
<1> HIDE DEF Ahead
<1>5. TotalOn(D, R) BY <1>3, <1>4 DEF TotalOn
<1>6. PICK p \in Bijection(D, D) : \A m, n \in D : m < n => <<p[m], p[n]>> \in R
  BY <1>0, <1>5, RankExists
<1>7. p \in [D -> D] /\ p \in Injection(D, D) BY Fun_BijectionProperties
<1>8. \A m, n \in D : m < n => Ahead(p[m], p[n]) BY <1>3, <1>6, <1>7
<1>9. IsSorting(p, fs) BY <1>0, <1>8 DEF IsSorting, Ahead, Text
<1> QED BY <1>0, <1>7, <1>9

\* Sorting permutes the functions.
LEMMA SortKeeps ==
  ASSUME NEW fs \in Seq(AbiFunctions)
  PROVE  /\ SortAbiFunctions(fs) \in Seq(AbiFunctions)
         /\ ToSet(SortAbiFunctions(fs)) = ToSet(fs)
         /\ \E p \in Injection(DOMAIN fs, DOMAIN fs) :
               /\ IsSorting(p, fs)
               /\ SortAbiFunctions(fs) = [n \in DOMAIN fs |-> fs[p[n]]]
         /\ NamedOnce(SortAbiFunctions(fs)) <=> NamedOnce(fs)
<1> DEFINE N == Len(fs)
           D == 1..N
           p == CHOOSE q \in Injection(DOMAIN fs, DOMAIN fs) : IsSorting(q, fs)
           gs == SortAbiFunctions(fs)
<1>0. /\ N \in Nat /\ DOMAIN fs = D /\ \A i \in D : fs[i] \in AbiFunctions
      /\ ToSet(fs) = {fs[i] : i \in D}
  BY SeqFacts
<1>1. p \in Injection(D, D) /\ IsSorting(p, fs) BY <1>0, OrderExists
<1>2. gs = [n \in D |-> fs[p[n]]] BY <1>0 DEF SortAbiFunctions, IsSorting
<1> HIDE DEF p, gs
<1>3. p \in [D -> D] /\ \A i, j \in D : p[i] = p[j] => i = j BY <1>1, Fun_InjectionProperties
<1>4. p \in Surjection(D, D)
  <2>1. IsFiniteSet(D) BY <1>0, FS_Interval
  <2> HIDE DEF D
  <2> QED BY <2>1, <1>1, FS_Injection
<1>5. \A i \in D : \E n \in D : p[n] = i BY <1>4, Fun_SurjectionProperties
<1>6. gs \in Seq(AbiFunctions) /\ Len(gs) = N
  <2>1. gs \in [1..N -> AbiFunctions] BY <1>0, <1>2, <1>3
  <2> QED BY <2>1, <1>0, FunctionIsSeq
<1>7. ToSet(gs) = {gs[n] : n \in D} /\ DOMAIN gs = D BY <1>6, SeqFacts
<1>8. ToSet(gs) = ToSet(fs)
  <2> HIDE DEF D, ToSet
  <2>1. \A n \in D : gs[n] = fs[p[n]] /\ p[n] \in D BY <1>2, <1>3
  <2>2. ASSUME NEW x \in ToSet(fs) PROVE x \in ToSet(gs)
    <3>1. PICK i \in D : x = fs[i] BY <1>0
    <3>2. PICK n \in D : p[n] = i BY <1>5
    <3> QED BY <3>1, <3>2, <2>1, <1>7
  <2>3. ASSUME NEW x \in ToSet(gs) PROVE x \in ToSet(fs)
    <3>1. PICK n \in D : x = gs[n] BY <1>7
    <3> QED BY <3>1, <2>1, <1>0
  <2> QED BY <2>2, <2>3
<1>9. NamedOnce(gs) <=> NamedOnce(fs)
  <2> HIDE DEF D
  <2>1. \A n \in D : gs[n].key = fs[p[n]].key BY <1>2
  <2>2. ASSUME NamedOnce(fs) PROVE NamedOnce(gs)
    BY <2>1, <2>2, <1>0, <1>3, <1>7 DEF NamedOnce
  <2>3. ASSUME NamedOnce(gs) PROVE NamedOnce(fs)
    BY <2>1, <2>3, <1>0, <1>3, <1>5, <1>7 DEF NamedOnce
  <2> QED BY <2>2, <2>3
<1> QED BY <1>0, <1>1, <1>2, <1>6, <1>8, <1>9 DEF gs

\* Functions named once are ordered by key.
LEMMA SortFacts ==
  ASSUME NEW fs \in Seq(AbiFunctions), NamedOnce(fs)
  PROVE  /\ SortAbiFunctions(fs) \in Seq(AbiFunctions)
         /\ ToSet(SortAbiFunctions(fs)) = ToSet(fs)
         /\ Increasing(SortAbiFunctions(fs))
<1> DEFINE D == 1..Len(fs)
           gs == SortAbiFunctions(fs)
<1>0. /\ Len(fs) \in Nat /\ DOMAIN fs = D /\ \A i \in D : fs[i] \in AbiFunctions
      /\ \A i, j \in D : fs[i].key = fs[j].key => i = j
  BY NamedFacts
<1>1. PICK p \in Injection(D, D) : IsSorting(p, fs) /\ gs = [n \in D |-> fs[p[n]]]
  BY <1>0, SortKeeps
<1>2. p \in [D -> D] /\ \A i, j \in D : p[i] = p[j] => i = j BY <1>1, Fun_InjectionProperties
<1> HIDE DEF gs
<1>3. Increasing(gs)
  <2> SUFFICES ASSUME NEW m \in D, NEW n \in D, m < n PROVE gs[m].key < gs[n].key
    BY <1>1 DEF Increasing
  <2>1. p[m] \in D /\ p[n] \in D /\ p[m] # p[n] BY <1>0, <1>2
  <2>2. fs[p[m]] \in AbiFunctions /\ fs[p[n]] \in AbiFunctions /\ fs[p[m]].key # fs[p[n]].key
    BY <2>1, <1>0
  <2>3. \/ TextBefore(StableText(fs[p[m]]), StableText(fs[p[n]]))
        \/ StableText(fs[p[m]]) = StableText(fs[p[n]])
    BY <1>0, <1>1 DEF IsSorting
  <2>4. fs[p[m]].key < fs[p[n]].key BY <2>2, <2>3, TextOrder
  <2> QED BY <2>4, <1>1
<1> QED BY <1>3, SortKeeps DEF gs

\* Of two sorted lists of the same functions, neither is ahead where they
\* first differ.
LEMMA SortedAhead ==
  ASSUME NEW gs \in Seq(AbiFunctions), NEW hs \in Seq(AbiFunctions), Increasing(gs),
         ToSet(gs) \subseteq ToSet(hs), NEW x \in 1..Len(gs),
         \A m \in 1..(x - 1) : m \in 1..Len(hs) /\ gs[m] = hs[m]
  PROVE  x \in 1..Len(hs) /\ \E k \in x..Len(hs) : gs[x] = hs[k]
<1>0. /\ Len(gs) \in Nat /\ DOMAIN gs = 1..Len(gs)
      /\ Len(hs) \in Nat /\ gs[x] \in ToSet(gs)
      /\ ToSet(hs) = {hs[k] : k \in 1..Len(hs)}
      /\ \A n \in 1..Len(gs) : gs[n] \in AbiFunctions
  BY SeqFacts
<1>1. PICK k \in 1..Len(hs) : gs[x] = hs[k] BY <1>0
<1>2. ~(k < x)
  <2> SUFFICES ASSUME k < x PROVE FALSE OBVIOUS
  <2>1. k \in 1..(x - 1) /\ k \in 1..Len(gs) BY <1>0
  <2>2. gs[k] = gs[x] BY <2>1, <1>1
  <2>3. gs[k].key < gs[x].key BY <2>1, <1>0 DEF Increasing
  <2>4. gs[x].key \in Nat BY <1>0 DEF AbiFunctions
  <2> QED BY <2>2, <2>3, <2>4
<1> QED BY <1>0, <1>1, <1>2

\* Sorted lists of the same functions are equal: the declared order is lost.
LEMMA SortedEqual ==
  ASSUME NEW gs \in Seq(AbiFunctions), NEW hs \in Seq(AbiFunctions),
         Increasing(gs), Increasing(hs), ToSet(gs) = ToSet(hs)
  PROVE  gs = hs
<1>0. /\ Len(gs) \in Nat /\ DOMAIN gs = 1..Len(gs)
      /\ Len(hs) \in Nat /\ DOMAIN hs = 1..Len(hs)
      /\ \A n \in 1..Len(gs) : gs[n] \in AbiFunctions
      /\ \A n \in 1..Len(hs) : hs[n] \in AbiFunctions
  BY SeqFacts
<1> DEFINE Differ == {n \in (1..Len(gs)) \cup (1..Len(hs)) :
                        ~(n \in 1..Len(gs) /\ n \in 1..Len(hs) /\ gs[n] = hs[n])}
<1>1. Differ = {}
  <2> SUFFICES ASSUME Differ # {} PROVE FALSE OBVIOUS
  <2>1. Differ \in SUBSET Nat BY <1>0
  <2>2. PICK x \in Differ : \A y \in Differ : x <= y BY <2>1, Least
  <2>3. x \in Nat /\ x >= 1 /\ (x <= Len(gs) \/ x <= Len(hs)) BY <1>0
  <2>4. ASSUME NEW m \in 1..(x - 1)
        PROVE  m \in 1..Len(gs) /\ m \in 1..Len(hs) /\ gs[m] = hs[m]
    <3>1. m \notin Differ BY <2>2, <2>3
    <3>2. m \in (1..Len(gs)) \cup (1..Len(hs)) BY <2>3, <1>0
    <3> QED BY <3>1, <3>2
  <2>5. ASSUME x \in 1..Len(gs)
        PROVE  x \in 1..Len(hs) /\ \E k \in x..Len(hs) : gs[x] = hs[k]
    BY <2>4, <2>5, SortedAhead
  <2>6. ASSUME x \in 1..Len(hs)
        PROVE  x \in 1..Len(gs) /\ \E k \in x..Len(gs) : hs[x] = gs[k]
    BY <2>4, <2>6, SortedAhead
  <2>7. x \in 1..Len(gs) /\ x \in 1..Len(hs) BY <2>3, <2>5, <2>6, <1>0
  <2>8. PICK k \in x..Len(hs) : gs[x] = hs[k] BY <2>5, <2>7
  <2>9. PICK l \in x..Len(gs) : hs[x] = gs[l] BY <2>6, <2>7
  <2>10. gs[x].key \in Nat /\ hs[x].key \in Nat BY <2>7, <1>0 DEF AbiFunctions
  <2>11. k # x => hs[x].key < gs[x].key
    BY <2>3, <2>7, <2>8, <1>0 DEF Increasing
  <2>12. l # x => gs[x].key < hs[x].key
    BY <2>3, <2>7, <2>9, <1>0 DEF Increasing
  <2>13. k = x \/ l = x BY <2>10, <2>11, <2>12
  <2>14. gs[x] = hs[x] BY <2>8, <2>9, <2>13
  <2> QED BY <2>7, <2>14
<1>2. \A n \in 1..Len(gs) : n \in 1..Len(hs) /\ gs[n] = hs[n] BY <1>1
<1>3. \A n \in 1..Len(hs) : n \in 1..Len(gs) BY <1>1
<1> HIDE DEF Differ
<1>4. Len(gs) = Len(hs)
  <2>1. Len(gs) <= Len(hs) BY <1>0, <1>2
  <2>2. Len(hs) <= Len(gs) BY <1>0, <1>3
  <2>3. Len(gs) \in Nat /\ Len(hs) \in Nat BY <1>0
  <2> QED BY <2>1, <2>2, <2>3
<1> QED BY <1>2, <1>4, SeqEqual

-----------------------------------------------------------------------------
(* Renamed ABIs: their worklists, and renaming twice.                      *)

\* On the types X, the definitions of b refer to what those of a refer to,
\* under p.
Follows(a, b, p, X) ==
    \A id \in X :
        /\ (id \in DOMAIN a.types) = (p[id] \in DOMAIN b.types)
        /\ id \in DOMAIN a.types =>
              DefinitionRefs(b.types[p[id]]) = Numbered(DefinitionRefs(a.types[id]), p)

\* A scan of the renumbered ABI is the renumbered scan.
LEMMA ScannedNumbered ==
  ASSUME NEW a, NEW b, NEW p \in [TypeIds -> TypeIds], IsInjective(p), Refers(a),
         NEW list \in Seq(TypeIds), Follows(a, b, p, ToSet(list)), NEW n \in Nat
  PROVE  Scanned(Numbered(list, p), n, b.types) = Numbered(Scanned(list, n, a.types), p)
<1>9. ASSUME NEW ids \in Seq(TypeIds)
      PROVE  Assign(Numbered(list, p), Numbered(ids, p)) = Numbered(Assign(list, ids), p)
  BY AssignNumbered
<1>0. Len(list) \in Nat /\ DOMAIN list = 1..Len(list) /\ \A m \in 1..Len(list) : list[m] \in ToSet(list) /\ list[m] \in TypeIds
  BY SeqFacts
<1>1. DOMAIN Numbered(list, p) = DOMAIN list /\ \A m \in DOMAIN list : Numbered(list, p)[m] = p[list[m]]
  BY DEF Numbered
<1>2. CASE n \in DOMAIN list /\ list[n] \in DOMAIN a.types
  <2>1. list[n] \in ToSet(list) /\ list[n] \in TypeIds BY <1>0, <1>2
  <2>2. /\ p[list[n]] \in DOMAIN b.types
        /\ DefinitionRefs(b.types[p[list[n]]]) = Numbered(DefinitionRefs(a.types[list[n]]), p)
    BY <2>1, <1>2 DEF Follows
  <2>3. DefinitionRefs(a.types[list[n]]) \in Seq(TypeIds) BY <2>1, <1>2 DEF Refers
  <2>4. Scanned(list, n, a.types) = Assign(list, DefinitionRefs(a.types[list[n]]))
    BY <1>2 DEF Scanned
  <2>5. Scanned(Numbered(list, p), n, b.types) =
            Assign(Numbered(list, p), Numbered(DefinitionRefs(a.types[list[n]]), p))
    BY <1>1, <1>2, <2>2 DEF Scanned
  <2> QED BY <2>3, <2>4, <2>5, <1>9
<1>3. CASE ~(n \in DOMAIN list /\ list[n] \in DOMAIN a.types)
  <2>1. n \in DOMAIN list => p[list[n]] \notin DOMAIN b.types
    BY <1>0, <1>3 DEF Follows
  <2> QED BY <2>1, <1>1, <1>3 DEF Scanned
<1> QED BY <1>2, <1>3

\* The worklist of a renumbered ABI is the worklist renumbered: positions
\* depend on order of first use and not on numbers (canonical.mbt 175-176).
LEMMA WorklistNumbered ==
  ASSUME NEW a, NEW b, NEW p \in [TypeIds -> TypeIds], IsInjective(p), Refers(a), Refers(b),
         Roots(b) = Numbered(Roots(a), p), Follows(a, b, p, ToSet(Worklist(a)))
  PROVE  Worklist(b) = Numbered(Worklist(a), p)
<1>9. ASSUME NEW ids \in Seq(TypeIds) PROVE ToSet(Assign(<<>>, ids)) = ToSet(ids)
  <2>1. <<>> \in Seq(TypeIds) /\ ToSet(<<>>) = {} BY DEF ToSet
  <2>2. \A w \in Seq(TypeIds) : ToSet(Assign(w, ids)) = ToSet(w) \cup ToSet(ids) BY AssignFacts
  <2>3. ToSet(Assign(<<>>, ids)) = ToSet(<<>>) \cup ToSet(ids) BY <2>1, <2>2
  <2> QED BY <2>1, <2>3
<1> DEFINE X == ToSet(Worklist(a))
<1>0. Cap \in Nat BY CapFacts
<1>1. Closed(X, a) BY WorklistFacts
<1>2. PICK h \in [0..Cap -> Seq(TypeIds)] : Scans(h, a) BY WorklistFold
<1>3. PICK k \in [0..Cap -> Seq(TypeIds)] : Scans(k, b) BY WorklistFold
<1>4. /\ h[0] = Assign(<<>>, Roots(a)) /\ Worklist(a) = h[Cap]
      /\ \A n \in 1..Cap : h[n] = Scanned(h[n-1], n, a.types)
  BY <1>2 DEF Scans
<1>5. /\ k[0] = Assign(<<>>, Roots(b)) /\ Worklist(b) = k[Cap]
      /\ \A n \in 1..Cap : k[n] = Scanned(k[n-1], n, b.types)
  BY <1>3 DEF Scans
<1> HIDE DEF X
<1> DEFINE Good(n) == k[n] = Numbered(h[n], p) /\ ToSet(h[n]) \subseteq X
           P == {n \in Nat : n <= Cap => Good(n)}
<1>6. 0 \in P
  <2>1. <<>> \in Seq(TypeIds) /\ Roots(a) \in Seq(TypeIds) /\ Numbered(<<>>, p) = <<>>
    BY DEF Refers, Numbered
  <2>2. Assign(Numbered(<<>>, p), Numbered(Roots(a), p)) = Numbered(Assign(<<>>, Roots(a)), p)
    BY <2>1, AssignNumbered
  <2>3. ToSet(h[0]) = ToSet(Roots(a)) BY <2>1, <1>4, <1>9
  <2>5. ToSet(h[0]) \subseteq X BY <2>3, <1>1 DEF Closed
  <2>6. Good(0) BY <2>1, <2>2, <2>5, <1>4, <1>5
  <2> QED BY <2>6
<1>7. ASSUME NEW n \in Nat, n \in P PROVE n + 1 \in P
  <2> SUFFICES ASSUME n + 1 <= Cap PROVE Good(n + 1) OBVIOUS
  <2>1. n + 1 \in 1..Cap /\ (n + 1) - 1 = n /\ n \in 0..Cap /\ n <= Cap BY <1>0
  <2>2. Good(n) BY <1>7, <2>1
  <2> HIDE DEF P
  <2>3. h[n] \in Seq(TypeIds) BY <2>1
  <2>4. h[n + 1] = Scanned(h[n], n + 1, a.types) /\ k[n + 1] = Scanned(k[n], n + 1, b.types)
    BY <2>1, <1>4, <1>5
  <2>5. Follows(a, b, p, ToSet(h[n])) BY <2>2 DEF Follows, X
  <2>6. Scanned(Numbered(h[n], p), n + 1, b.types) = Numbered(Scanned(h[n], n + 1, a.types), p)
    BY <2>3, <2>5, ScannedNumbered
  <2>7. ToSet(Scanned(h[n], n + 1, a.types)) \subseteq X
    BY <2>2, <2>3, <1>1, ScannedFacts
  <2> QED BY <2>2, <2>4, <2>6, <2>7
<1> HIDE DEF P
<1>8. Cap \in P BY <1>0, <1>6, <1>7, InductSet
<1> QED BY <1>0, <1>4, <1>5, <1>8 DEF P

\* On the numbers X, q after p is r.
Composed(p, q, r, X) ==
    \A id \in X : p[id] \in TypeIds /\ q[p[id]] = r[id] /\ r[id] \in TypeIds

\* To rename values twice is to rename them once.
LEMMA ValuesComposed ==
  ASSUME NEW vs \in Seq(AbiValues), NEW p, NEW q, NEW r, Composed(p, q, r, ToSet(RefsIn(vs)))
  PROVE  RenameValues(RenameValues(vs, p), q) = RenameValues(vs, r)
<1>0. /\ Len(vs) \in Nat /\ DOMAIN vs = 1..Len(vs)
      /\ \A n \in 1..Len(vs) : vs[n] \in AbiValues
      /\ ToSet(vs) = {vs[n] : n \in 1..Len(vs)}
  BY SeqFacts
<1>1. ASSUME NEW n \in 1..Len(vs)
      PROVE  RenameValue(RenameValue(vs[n], p), q) = RenameValue(vs[n], r)
  <2>1. CASE vs[n].id = 0 BY <2>1 DEF RenameValue, IsRef
  <2>2. CASE vs[n].id # 0
    <3>1. vs[n].id \in ToSet(RefsIn(vs)) BY <2>2, <1>0, RefsInFacts
    <3>2. p[vs[n].id] \in TypeIds /\ q[p[vs[n].id]] = r[vs[n].id] BY <3>1 DEF Composed
    <3>3. p[vs[n].id] # 0 BY <3>2, IdFacts
    <3>4. vs[n] \in AbiValues BY <1>0
    <3>5. /\ RenameValue(vs[n], p) = [vs[n] EXCEPT !.id = p[vs[n].id]]
          /\ RenameValue(vs[n], r) = [vs[n] EXCEPT !.id = r[vs[n].id]]
      BY <2>2 DEF RenameValue, IsRef
    <3>6. RenameValue(vs[n], p).id = p[vs[n].id] BY <3>4, <3>5 DEF AbiValues
    <3>7. RenameValue(RenameValue(vs[n], p), q) = [RenameValue(vs[n], p) EXCEPT !.id = r[vs[n].id]]
      BY <3>2, <3>3, <3>6 DEF RenameValue, IsRef
    <3>8. ASSUME NEW v \in AbiValues, NEW x, NEW y
          PROVE  [[v EXCEPT !.id = x] EXCEPT !.id = y] = [v EXCEPT !.id = y]
      BY DEF AbiValues
    <3> QED BY <3>4, <3>5, <3>7, <3>8
  <2> QED BY <2>1, <2>2
<1>2. DOMAIN RenameValues(vs, p) = 1..Len(vs)
      /\ \A n \in 1..Len(vs) : RenameValues(vs, p)[n] = RenameValue(vs[n], p)
  BY <1>0 DEF RenameValues
<1>3. RenameValues(RenameValues(vs, p), q) =
          [n \in 1..Len(vs) |-> RenameValue(RenameValues(vs, p)[n], q)]
  BY <1>2 DEF RenameValues
<1>4. RenameValues(vs, r) = [n \in 1..Len(vs) |-> RenameValue(vs[n], r)]
  BY <1>0 DEF RenameValues
<1>5. \A n \in 1..Len(vs) : RenameValue(RenameValues(vs, p)[n], q) = RenameValue(vs[n], r)
  BY <1>1, <1>2
<1> QED BY <1>3, <1>4, <1>5

\* To rename a function twice is to rename it once.
LEMMA FunctionComposed ==
  ASSUME NEW f \in AbiFunctions, NEW p, NEW q, NEW r, Composed(p, q, r, ToSet(FunctionIds(f)))
  PROVE  RenameFunction(RenameFunction(f, p), q) = RenameFunction(f, r)
<1>1. f.params \in Seq(AbiValues) /\ f.results \in Seq(AbiValues) BY DEF AbiFunctions
<1>2. /\ Composed(p, q, r, ToSet(RefsIn(f.params)))
      /\ Composed(p, q, r, ToSet(RefsIn(f.results)))
  BY FunctionIdsFacts DEF Composed
<1>3. /\ RenameValues(RenameValues(f.params, p), q) = RenameValues(f.params, r)
      /\ RenameValues(RenameValues(f.results, p), q) = RenameValues(f.results, r)
  BY <1>1, <1>2, ValuesComposed
<1>4. ASSUME NEW x, NEW y, NEW u, NEW w
      PROVE  LET g == [f EXCEPT !.params = x, !.results = y]
             IN  /\ g.params = x /\ g.results = y
                 /\ [g EXCEPT !.params = u, !.results = w] = [f EXCEPT !.params = u, !.results = w]
  BY DEF AbiFunctions
<1>5. /\ RenameFunction(f, p).params = RenameValues(f.params, p)
      /\ RenameFunction(f, p).results = RenameValues(f.results, p)
  BY <1>4 DEF RenameFunction
<1>6. RenameFunction(RenameFunction(f, p), q) =
          [RenameFunction(f, p) EXCEPT !.params = RenameValues(f.params, r),
                                       !.results = RenameValues(f.results, r)]
  BY <1>3, <1>5 DEF RenameFunction
<1> QED BY <1>4, <1>6 DEF RenameFunction

\* To rename functions twice is to rename them once.
LEMMA FunctionsComposed ==
  ASSUME NEW fs \in Seq(AbiFunctions), NEW p, NEW q, NEW r,
         Composed(p, q, r, ToSet(FunctionRefs(fs)))
  PROVE  RenameFunctions(RenameFunctions(fs, p), q) = RenameFunctions(fs, r)
<1>0. /\ Len(fs) \in Nat /\ DOMAIN fs = 1..Len(fs)
      /\ \A n \in 1..Len(fs) : fs[n] \in AbiFunctions
      /\ ToSet(fs) = {fs[n] : n \in 1..Len(fs)}
  BY SeqFacts
<1>1. ASSUME NEW n \in 1..Len(fs)
      PROVE  RenameFunction(RenameFunction(fs[n], p), q) = RenameFunction(fs[n], r)
  <2>1. fs[n] \in AbiFunctions /\ fs[n] \in ToSet(fs) BY <1>0
  <2>2. ToSet(FunctionIds(fs[n])) \subseteq ToSet(FunctionRefs(fs)) BY <2>1, FunctionRefsFacts
  <2>3. Composed(p, q, r, ToSet(FunctionIds(fs[n]))) BY <2>2 DEF Composed
  <2> QED BY <2>1, <2>3, FunctionComposed
<1>2. DOMAIN RenameFunctions(fs, p) = 1..Len(fs)
      /\ \A n \in 1..Len(fs) : RenameFunctions(fs, p)[n] = RenameFunction(fs[n], p)
  BY <1>0 DEF RenameFunctions, RenameFunction
<1>3. RenameFunctions(RenameFunctions(fs, p), q) =
          [n \in 1..Len(fs) |-> RenameFunction(RenameFunctions(fs, p)[n], q)]
  BY <1>2 DEF RenameFunctions, RenameFunction
<1>4. RenameFunctions(fs, r) = [n \in 1..Len(fs) |-> RenameFunction(fs[n], r)]
  BY <1>0 DEF RenameFunctions, RenameFunction
<1>5. \A n \in 1..Len(fs) : RenameFunction(RenameFunctions(fs, p)[n], q) = RenameFunction(fs[n], r)
  BY <1>1, <1>2
<1> QED BY <1>3, <1>4, <1>5

\* To rename a definition twice is to rename it once.
LEMMA DefinitionComposed ==
  ASSUME NEW d \in AbiDefinitions, NEW p, NEW q, NEW r,
         Composed(p, q, r, ToSet(DefinitionRefs(d)))
  PROVE  RenameDefinition(RenameDefinition(d, p), q) = RenameDefinition(d, r)
<1> DEFINE e == RenameDefinition(d, p)
           a == RenameDefinition(e, q)
           b == RenameDefinition(d, r)
           X == ToSet(DefinitionRefs(d))
<1>0. /\ \A id \in X : p[id] \in TypeIds
      /\ \A id \in X : r[id] \in TypeIds
      /\ \A id \in X : q[p[id]] = r[id]
  BY DEF Composed
<1>1. /\ e \in AbiDefinitions /\ e.kind = d.kind /\ e.final = d.final
      /\ e.supertypes = Numbered(d.supertypes, p)
      /\ DefinitionRefs(e) = Numbered(DefinitionRefs(d), p)
      /\ Storages(e) = RenameValues(Storages(d), p)
      /\ Len(e.fields) = Len(d.fields)
      /\ \A n \in 1..Len(d.fields) : e.fields[n] = RenameField(d.fields[n], p)
  BY <1>0, DefinitionRenamed
<1>2. /\ b \in AbiDefinitions /\ b.kind = d.kind /\ b.final = d.final
      /\ b.supertypes = Numbered(d.supertypes, r)
      /\ Storages(b) = RenameValues(Storages(d), r)
      /\ Len(b.fields) = Len(d.fields)
      /\ \A n \in 1..Len(d.fields) : b.fields[n] = RenameField(d.fields[n], r)
  BY <1>0, DefinitionRenamed
<1>3. \A id \in ToSet(DefinitionRefs(e)) : q[id] \in TypeIds
  <2>1. DefinitionRefs(d) \in Seq(TypeIds) BY DefinitionRefsFacts
  <2>2. ToSet(Numbered(DefinitionRefs(d), p)) = {p[id] : id \in X}
    BY <2>1 DEF Numbered, ToSet
  <2> QED BY <2>2, <1>0, <1>1
<1> HIDE DEF e
<1>4. /\ a \in AbiDefinitions /\ a.kind = e.kind /\ a.final = e.final
      /\ a.supertypes = Numbered(e.supertypes, q)
      /\ Storages(a) = RenameValues(Storages(e), q)
      /\ Len(a.fields) = Len(e.fields)
      /\ \A n \in 1..Len(e.fields) : a.fields[n] = RenameField(e.fields[n], q)
  BY <1>1, <1>3, DefinitionRenamed
<1> HIDE DEF a, b
<1>5. a.supertypes = b.supertypes
  <2>1. d.supertypes \in Seq(TypeIds) /\ ToSet(d.supertypes) \subseteq X BY DefinitionRefsFacts
  <2>2. \A n \in DOMAIN d.supertypes : q[p[d.supertypes[n]]] = r[d.supertypes[n]]
    BY <2>1, <1>0, SeqFacts
  <2> QED BY <2>2, <1>1, <1>2, <1>4 DEF Numbered
<1>6. a.fields = b.fields
  <2>0. d.fields \in Seq(AbiFields) /\ a.fields \in Seq(AbiFields) /\ b.fields \in Seq(AbiFields)
    BY <1>2, <1>4 DEF AbiDefinitions, AbiFields
  <2>1. Storages(a) = Storages(b)
    <3>1. ToSet(RefsIn(Storages(d))) \subseteq X BY DefinitionRefsFacts
    <3>2. Composed(p, q, r, ToSet(RefsIn(Storages(d)))) BY <3>1 DEF Composed
    <3>3. Storages(d) \in Seq(AbiValues) BY StoragesFacts
    <3> QED BY <3>2, <3>3, <1>1, <1>2, <1>4, ValuesComposed
  <2>2. Len(a.fields) = Len(d.fields) /\ Len(b.fields) = Len(d.fields) BY <1>1, <1>2, <1>4
  <2>3. ASSUME NEW n \in 1..Len(d.fields) PROVE a.fields[n] = b.fields[n]
    <3>1. a.fields[n].storage = b.fields[n].storage
      BY <2>1, <2>2, <1>2, <1>4, StoragesFacts
    <3>2. d.fields[n] \in AbiFields /\ a.fields[n] \in AbiFields /\ b.fields[n] \in AbiFields
      BY <2>0, <2>2, SeqFacts
    <3>3. a.fields[n] = RenameField(RenameField(d.fields[n], p), q) /\ b.fields[n] = RenameField(d.fields[n], r)
      BY <1>1, <1>2, <1>4
    <3>4. a.fields[n].mutable = d.fields[n].mutable /\ b.fields[n].mutable = d.fields[n].mutable
      BY <3>2, <3>3 DEF AbiFields, RenameField
    <3> QED BY <3>1, <3>2, <3>4 DEF AbiFields
  <2> QED BY <2>0, <2>2, <2>3, SeqEqual
<1>7. a = b
  <2>1. a.kind = b.kind /\ a.final = b.final BY <1>1, <1>2, <1>4
  <2>2. \A x \in AbiDefinitions :
           x = [kind |-> x.kind, supertypes |-> x.supertypes, final |-> x.final, fields |-> x.fields]
    BY DEF AbiDefinitions
  <2>3. a \in AbiDefinitions /\ b \in AbiDefinitions BY <1>2, <1>4
  <2> QED BY <2>1, <2>2, <2>3, <1>5, <1>6, Zenon
<1> QED BY <1>7 DEF a, b, e

-----------------------------------------------------------------------------
(* ABIs whose lists name each function once.                               *)

\* Definitions of some of the types.
AbiTypes == UNION {[ids -> AbiDefinitions] : ids \in SUBSET TypeIds}

\* The features there may be.
FeatureNames == SupportedFeatures \cup UNION FeatureSets

\* All ABIs.
HostAbis == [imports : Seq(AbiFunctions), exports : Seq(AbiFunctions),
             types : AbiTypes, features : SUBSET FeatureNames]

\* An ABI whose lists name each function once: WebAssembly requires it of
\* exports; of imports it is assumed (ImportedOnce).
WellFormed(abi) == abi \in HostAbis /\ NamedOnce(abi.imports) /\ NamedOnce(abi.exports)

\* Renumberings that keep types apart.
Renaming == {p \in [TypeIds -> TypeIds] : IsInjective(p)}

\* What the types of an ABI are made of.
LEMMA TypesFacts ==
  ASSUME NEW types
  PROVE  types \in AbiTypes <=>
           /\ types = [id \in DOMAIN types |-> types[id]] /\ DOMAIN types \subseteq TypeIds
           /\ \A id \in DOMAIN types : types[id] \in AbiDefinitions
<1>1. ASSUME types \in AbiTypes
      PROVE  /\ types = [id \in DOMAIN types |-> types[id]] /\ DOMAIN types \subseteq TypeIds
             /\ \A id \in DOMAIN types : types[id] \in AbiDefinitions
  <2>1. PICK ids \in SUBSET TypeIds : types \in [ids -> AbiDefinitions] BY <1>1 DEF AbiTypes
  <2> QED BY <2>1
<1>2. ASSUME types = [id \in DOMAIN types |-> types[id]], DOMAIN types \subseteq TypeIds,
             \A id \in DOMAIN types : types[id] \in AbiDefinitions
      PROVE  types \in AbiTypes
  <2>1. types \in [DOMAIN types -> AbiDefinitions] BY <1>2
  <2> QED BY <2>1, <1>2 DEF AbiTypes
<1> QED BY <1>1, <1>2

\* What an ABI is made of.
LEMMA AbiFacts ==
  ASSUME NEW abi, WellFormed(abi)
  PROVE  /\ abi.imports \in Seq(AbiFunctions) /\ NamedOnce(abi.imports)
         /\ abi.exports \in Seq(AbiFunctions) /\ NamedOnce(abi.exports)
         /\ abi.types \in AbiTypes /\ DOMAIN abi.types \subseteq TypeIds
         /\ \A id \in DOMAIN abi.types : abi.types[id] \in AbiDefinitions
         /\ abi.features \in SUBSET FeatureNames
<1>1. abi.types \in AbiTypes BY DEF WellFormed, HostAbis
<1>2. /\ abi.imports \in Seq(AbiFunctions) /\ NamedOnce(abi.imports)
      /\ abi.exports \in Seq(AbiFunctions) /\ NamedOnce(abi.exports)
      /\ abi.features \in SUBSET FeatureNames
  BY DEF WellFormed, HostAbis
<1> QED BY <1>1, <1>2, TypesFacts

\* The functions in the order in which the worklist takes them.
RootFunctions(abi) == SortAbiFunctions(abi.imports) \o SortAbiFunctions(abi.exports)

\* The types that two lists of functions name.
LEMMA FunctionRefsConcat ==
  ASSUME NEW fs \in Seq(AbiFunctions), NEW gs \in Seq(AbiFunctions)
  PROVE  /\ fs \o gs \in Seq(AbiFunctions)
         /\ ToSet(FunctionRefs(fs \o gs)) = ToSet(FunctionRefs(fs)) \cup ToSet(FunctionRefs(gs))
<1>1. fs \o gs \in Seq(AbiFunctions) BY ConcatProperties
<1>2. ToSet(fs \o gs) = ToSet(fs) \cup ToSet(gs) BY ToSetConcat
<1>3. /\ ToSet(FunctionRefs(fs)) = UNION {ToSet(FunctionIds(f)) : f \in ToSet(fs)}
      /\ ToSet(FunctionRefs(gs)) = UNION {ToSet(FunctionIds(f)) : f \in ToSet(gs)}
      /\ ToSet(FunctionRefs(fs \o gs)) = UNION {ToSet(FunctionIds(f)) : f \in ToSet(fs \o gs)}
  BY <1>1, FunctionRefsFacts
<1> HIDE DEF ToSet
<1> QED BY <1>1, <1>2, <1>3

\* Lists of the same functions name the same types.
LEMMA SameElementsSameRefs ==
  ASSUME NEW fs \in Seq(AbiFunctions), NEW gs \in Seq(AbiFunctions), ToSet(fs) = ToSet(gs)
  PROVE  ToSet(FunctionRefs(fs)) = ToSet(FunctionRefs(gs))
BY FunctionRefsFacts

\* The types that the functions of an ABI name.
Needs(abi) == ToSet(FunctionRefs(abi.imports)) \cup ToSet(FunctionRefs(abi.exports))

\* The roots of the worklist are the types that functions name.
LEMMA RootsFacts ==
  ASSUME NEW abi, WellFormed(abi)
  PROVE  /\ RootFunctions(abi) \in Seq(AbiFunctions)
         /\ Roots(abi) = FunctionRefs(RootFunctions(abi))
         /\ Roots(abi) \in Seq(TypeIds) /\ ToSet(Roots(abi)) = Needs(abi)
         /\ Refers(abi)
<1> DEFINE si == SortAbiFunctions(abi.imports)
           se == SortAbiFunctions(abi.exports)
<1>1. /\ si \in Seq(AbiFunctions) /\ ToSet(si) = ToSet(abi.imports)
      /\ se \in Seq(AbiFunctions) /\ ToSet(se) = ToSet(abi.exports)
      /\ abi.imports \in Seq(AbiFunctions) /\ abi.exports \in Seq(AbiFunctions)
  BY AbiFacts, SortFacts
<1>2. Roots(abi) = FunctionRefs(RootFunctions(abi)) BY DEF Roots, RootFunctions
<1> HIDE DEF si, se
<1>3. /\ si \o se \in Seq(AbiFunctions)
      /\ ToSet(FunctionRefs(si \o se)) = ToSet(FunctionRefs(si)) \cup ToSet(FunctionRefs(se))
  BY <1>1, FunctionRefsConcat
<1>4. /\ ToSet(FunctionRefs(si)) = ToSet(FunctionRefs(abi.imports))
      /\ ToSet(FunctionRefs(se)) = ToSet(FunctionRefs(abi.exports))
  BY <1>1, SameElementsSameRefs
<1>5. RootFunctions(abi) = si \o se BY DEF RootFunctions, si, se
<1>6. Roots(abi) \in Seq(TypeIds) BY <1>2, <1>3, <1>5, FunctionRefsFacts
<1>7. \A id \in TypeIds \cap DOMAIN abi.types : DefinitionRefs(abi.types[id]) \in Seq(TypeIds)
  BY AbiFacts, DefinitionRefsFacts
<1> QED BY <1>2, <1>3, <1>4, <1>5, <1>6, <1>7 DEF Needs, Refers

\* What a renumbering is.
LEMMA RenamingFacts ==
  ASSUME NEW p \in Renaming
  PROVE  /\ p \in [TypeIds -> TypeIds] /\ IsInjective(p)
         /\ \A id \in TypeIds : p[id] \in TypeIds
         /\ \A id, jd \in TypeIds : p[id] = p[jd] => id = jd
BY DEF Renaming, IsInjective

\* Under a renaming of all numbers.
LEMMA FunctionsUnder ==
  ASSUME NEW p \in Renaming, NEW fs \in Seq(AbiFunctions)
  PROVE  /\ RenameFunctions(fs, p) \in Seq(AbiFunctions)
         /\ Len(RenameFunctions(fs, p)) = Len(fs)
         /\ \A n \in 1..Len(fs) : RenameFunctions(fs, p)[n] = RenameFunction(fs[n], p)
                                  /\ RenameFunctions(fs, p)[n].key = fs[n].key
         /\ ToSet(RenameFunctions(fs, p)) = {RenameFunction(f, p) : f \in ToSet(fs)}
         /\ FunctionRefs(RenameFunctions(fs, p)) = Numbered(FunctionRefs(fs), p)
<1>1. FunctionRefs(fs) \in Seq(TypeIds) BY FunctionRefsFacts
<1>2. \A id \in ToSet(FunctionRefs(fs)) : p[id] \in TypeIds BY <1>1, RenamingFacts, SeqFacts
<1>3. \A f \in AbiFunctions : RenameFunction(f, p).key = f.key
  BY DEF RenameFunction, AbiFunctions
<1>4. \A n \in 1..Len(fs) : fs[n] \in AbiFunctions BY SeqFacts
<1> QED BY <1>2, <1>3, <1>4, FunctionsRenamed

\* Sorting loses the declared order and goes through renumbering.
LEMMA RenamedSort ==
  ASSUME NEW p \in Renaming, NEW fs \in Seq(AbiFunctions), NEW gs \in Seq(AbiFunctions),
         NamedOnce(fs), NamedOnce(gs), ToSet(RenameFunctions(fs, p)) = ToSet(gs)
  PROVE  SortAbiFunctions(gs) = RenameFunctions(SortAbiFunctions(fs), p)
<1> DEFINE s == SortAbiFunctions(fs)
           t == SortAbiFunctions(gs)
           u == RenameFunctions(s, p)
<1>1. /\ s \in Seq(AbiFunctions) /\ ToSet(s) = ToSet(fs) /\ Increasing(s)
      /\ t \in Seq(AbiFunctions) /\ ToSet(t) = ToSet(gs) /\ Increasing(t)
  BY SortFacts
<1> HIDE DEF s, t
<1>2. /\ u \in Seq(AbiFunctions) /\ Len(u) = Len(s)
      /\ \A n \in 1..Len(s) : u[n].key = s[n].key
      /\ ToSet(u) = {RenameFunction(f, p) : f \in ToSet(s)}
  BY <1>1, FunctionsUnder
<1>3. ToSet(RenameFunctions(fs, p)) = {RenameFunction(f, p) : f \in ToSet(fs)}
  BY FunctionsUnder
<1>4. ToSet(u) = ToSet(t) BY <1>1, <1>2, <1>3
<1>5. Increasing(u)
  <2> HIDE DEF u
  <2>1. DOMAIN u = 1..Len(s) /\ DOMAIN s = 1..Len(s) BY <1>1, <1>2, SeqFacts
  <2> QED BY <2>1, <1>1, <1>2 DEF Increasing
<1> HIDE DEF u
<1>6. u = t BY <1>1, <1>2, <1>4, <1>5, SortedEqual
<1> QED BY <1>6 DEF u, t, s

\* Renaming goes through a concatenation.
LEMMA RenamedConcat ==
  ASSUME NEW fs \in Seq(AbiFunctions), NEW gs \in Seq(AbiFunctions), NEW p
  PROVE  RenameFunctions(fs \o gs, p) = RenameFunctions(fs, p) \o RenameFunctions(gs, p)
<1> DEFINE r == [f \in AbiFunctions |-> RenameFunction(f, p)]
<1>1. ASSUME NEW hs \in Seq(AbiFunctions) PROVE RenameFunctions(hs, p) = Numbered(hs, r)
  <2>1. \A n \in DOMAIN hs : hs[n] \in AbiFunctions BY SeqFacts
  <2>2. RenameFunctions(hs, p) = [n \in DOMAIN hs |-> RenameFunction(hs[n], p)]
    BY DEF RenameFunctions, RenameFunction
  <2>3. \A n \in DOMAIN hs : r[hs[n]] = RenameFunction(hs[n], p) BY <2>1
  <2> QED BY <2>2, <2>3 DEF Numbered
<1> HIDE DEF r
<1>2. fs \o gs \in Seq(AbiFunctions) BY ConcatProperties
<1>3. Numbered(fs \o gs, r) = Numbered(fs, r) \o Numbered(gs, r) BY NumberedConcat
<1> QED BY <1>1, <1>2, <1>3

-----------------------------------------------------------------------------
(* Equal canonical forms.                                                  *)

\* Definitions correspond on the numbers X.
Agree(a, b, p, X) ==
    \A id \in X :
        /\ (id \in DOMAIN a.types) = (p[id] \in DOMAIN b.types)
        /\ id \in DOMAIN a.types => RenameDefinition(a.types[id], p) = b.types[p[id]]

\* b is a with its types numbered by p, up to order and unreachable types.
Matches(a, b, p) ==
    /\ ToSet(RenameFunctions(a.imports, p)) = ToSet(b.imports)
    /\ ToSet(RenameFunctions(a.exports, p)) = ToSet(b.exports)
    /\ Agree(a, b, p, ToSet(Worklist(a)))

\* The number that Renumber gives to a type.
Positions(order) == [id \in ToSet(order) |-> CHOOSE n \in DOMAIN order : order[n] = id]

\* Numbers given by position are positions.
LEMMA PositionsFacts ==
  ASSUME NEW order \in Seq(TypeIds), Distinct(order), Len(order) <= Cap
  PROVE  /\ \A n \in 1..Len(order) : Positions(order)[order[n]] = n
         /\ \A id \in ToSet(order) : /\ Positions(order)[id] \in 1..Len(order)
                                     /\ Positions(order)[id] \in TypeIds
                                     /\ order[Positions(order)[id]] = id
<1>0. /\ Len(order) \in Nat /\ DOMAIN order = 1..Len(order)
      /\ ToSet(order) = {order[n] : n \in 1..Len(order)}
  BY SeqFacts
<1>1. ASSUME NEW n \in 1..Len(order) PROVE Positions(order)[order[n]] = n
  <2>1. \A m \in DOMAIN order : order[m] = order[n] => m = n BY <1>0 DEF Distinct
  <2>2. order[n] \in ToSet(order) BY <1>0
  <2>3. Positions(order)[order[n]] = CHOOSE m \in DOMAIN order : order[m] = order[n]
    BY <2>2 DEF Positions
  <2>4. n \in DOMAIN order BY <1>0
  <2> QED BY <2>1, <2>3, <2>4
<1>2. ASSUME NEW id \in ToSet(order)
      PROVE  Positions(order)[id] \in 1..Len(order) /\ order[Positions(order)[id]] = id
  <2>1. PICK n \in 1..Len(order) : order[n] = id BY <1>0
  <2> QED BY <2>1, <1>1
<1>3. 1..Len(order) \subseteq TypeIds BY <1>0, CapFacts
<1> QED BY <1>1, <1>2, <1>3

\* The canonical form, part by part.
LEMMA CanonicalParts ==
  ASSUME NEW abi, WellFormed(abi)
  PROVE  LET w == Worklist(abi)
             c == CanonicalizeHostAbi(abi)
         IN  /\ c = [imports |-> c.imports, exports |-> c.exports, types |-> c.types,
                     features |-> abi.features]
             /\ c.imports = RenameFunctions(SortAbiFunctions(abi.imports), Positions(w))
             /\ c.exports = RenameFunctions(SortAbiFunctions(abi.exports), Positions(w))
             /\ c.types = [n \in {m \in DOMAIN w : w[m] \in DOMAIN abi.types} |->
                             RenameDefinition(abi.types[w[n]], Positions(w))]
<1> DEFINE w == Worklist(abi)
           c == CanonicalizeHostAbi(abi)
           x == RenameFunctions(SortAbiFunctions(abi.imports), Positions(w))
           y == RenameFunctions(SortAbiFunctions(abi.exports), Positions(w))
           z == [n \in {m \in DOMAIN w : w[m] \in DOMAIN abi.types} |->
                             RenameDefinition(abi.types[w[n]], Positions(w))]
<1>1. c = [abi EXCEPT !.imports = x, !.exports = y, !.types = z]
  BY DEF CanonicalizeHostAbi, Renumber, Positions
<1> HIDE DEF x, y, z
<1>2. abi \in HostAbis BY DEF WellFormed
<1>3. c = [imports |-> x, exports |-> y, types |-> z, features |-> abi.features]
  BY <1>1, <1>2 DEF HostAbis
<1> HIDE DEF c
<1> QED BY <1>3 DEF x, y, z, c

\* An ABI that matches another one under some renumbering has its canonical
\* form (canonicalize_host_abi).
LEMMA SameCanonical ==
  ASSUME NEW a, NEW b, WellFormed(a), WellFormed(b), NEW p \in Renaming, Matches(a, b, p),
         a.features = b.features
  PROVE  CanonicalizeHostAbi(b) = CanonicalizeHostAbi(a)
<1> DEFINE v == Worklist(a)
           w == Worklist(b)
           si == SortAbiFunctions(a.imports)
           se == SortAbiFunctions(a.exports)
<1>1. /\ a.imports \in Seq(AbiFunctions) /\ NamedOnce(a.imports)
      /\ b.imports \in Seq(AbiFunctions) /\ NamedOnce(b.imports)
      /\ a.exports \in Seq(AbiFunctions) /\ NamedOnce(a.exports)
      /\ b.exports \in Seq(AbiFunctions) /\ NamedOnce(b.exports)
  BY AbiFacts
<1>2. /\ SortAbiFunctions(b.imports) = RenameFunctions(si, p)
      /\ SortAbiFunctions(b.exports) = RenameFunctions(se, p)
  BY <1>1, RenamedSort DEF Matches
<1>3. si \in Seq(AbiFunctions) /\ se \in Seq(AbiFunctions) BY <1>1, SortFacts
<1>4. /\ v \in Seq(TypeIds) /\ Distinct(v) /\ Len(v) <= Cap /\ Closed(ToSet(v), a)
      /\ w \in Seq(TypeIds) /\ Distinct(w) /\ Len(w) <= Cap
  BY RootsFacts, WorklistFacts
<1>5. Roots(b) = Numbered(Roots(a), p)
  <2>1. RootFunctions(b) = RenameFunctions(RootFunctions(a), p)
    BY <1>2, <1>3, RenamedConcat DEF RootFunctions
  <2> QED BY <2>1, RootsFacts, FunctionsUnder
<1>6. w = Numbered(v, p)
  <2>1. Follows(a, b, p, ToSet(v))
    <3> SUFFICES ASSUME NEW id \in ToSet(v), id \in DOMAIN a.types
                 PROVE  DefinitionRefs(b.types[p[id]]) = Numbered(DefinitionRefs(a.types[id]), p)
      BY DEF Follows, Matches, Agree
    <3>1. a.types[id] \in AbiDefinitions BY AbiFacts
    <3>2. \A jd \in ToSet(DefinitionRefs(a.types[id])) : p[jd] \in TypeIds
      BY <3>1, DefinitionRefsFacts, SeqFacts, RenamingFacts
    <3>3. DefinitionRefs(RenameDefinition(a.types[id], p)) = Numbered(DefinitionRefs(a.types[id]), p)
      BY <3>1, <3>2, DefinitionRenamed
    <3> QED BY <3>3 DEF Matches, Agree
  <2> QED BY <2>1, <1>5, RootsFacts, RenamingFacts, WorklistNumbered
<1> HIDE DEF v, w, si, se
<1>7. Len(v) \in Nat /\ DOMAIN v = 1..Len(v) /\ DOMAIN w = 1..Len(v) /\ Len(w) = Len(v)
      /\ \A n \in 1..Len(v) : w[n] = p[v[n]] /\ v[n] \in TypeIds /\ v[n] \in ToSet(v)
  <2>1. Len(v) \in Nat /\ DOMAIN v = 1..Len(v) /\ \A n \in 1..Len(v) : v[n] \in TypeIds /\ v[n] \in ToSet(v)
    BY <1>4, SeqFacts
  <2>2. DOMAIN w = 1..Len(v) /\ \A n \in 1..Len(v) : w[n] = p[v[n]] BY <2>1, <1>6 DEF Numbered
  <2>3. Len(w) = Len(v) BY <2>1, <2>2, <1>4, SeqFacts
  <2> QED BY <2>1, <2>2, <2>3
<1>8. Composed(p, Positions(w), Positions(v), ToSet(v))
  <2> SUFFICES ASSUME NEW id \in ToSet(v)
               PROVE  /\ p[id] \in TypeIds /\ Positions(w)[p[id]] = Positions(v)[id]
                      /\ Positions(v)[id] \in TypeIds
    BY DEF Composed
  <2>1. PICK n \in 1..Len(v) : id = v[n] BY <1>4, SeqFacts
  <2>2. Positions(v)[id] = n /\ Positions(v)[id] \in TypeIds BY <2>1, <1>4, PositionsFacts
  <2>3. Positions(w)[w[n]] = n BY <2>1, <1>4, <1>7, PositionsFacts
  <2> QED BY <2>1, <2>2, <2>3, <1>7, RenamingFacts
<1>9. ToSet(FunctionRefs(si)) \subseteq ToSet(v) /\ ToSet(FunctionRefs(se)) \subseteq ToSet(v)
  <2>1. ToSet(Roots(a)) \subseteq ToSet(v) BY <1>4 DEF Closed
  <2>2. ToSet(FunctionRefs(si)) \subseteq ToSet(FunctionRefs(a.imports))
        /\ ToSet(FunctionRefs(se)) \subseteq ToSet(FunctionRefs(a.exports))
    BY <1>1, SortFacts, SameElementsSameRefs DEF si, se
  <2> QED BY <2>1, <2>2, RootsFacts DEF Needs
<1>10. /\ RenameFunctions(RenameFunctions(si, p), Positions(w)) = RenameFunctions(si, Positions(v))
       /\ RenameFunctions(RenameFunctions(se, p), Positions(w)) = RenameFunctions(se, Positions(v))
  <2>1. /\ Composed(p, Positions(w), Positions(v), ToSet(FunctionRefs(si)))
        /\ Composed(p, Positions(w), Positions(v), ToSet(FunctionRefs(se)))
    BY <1>8, <1>9 DEF Composed
  <2> QED BY <2>1, <1>3, FunctionsComposed
<1>11. {m \in DOMAIN w : w[m] \in DOMAIN b.types} = {m \in DOMAIN v : v[m] \in DOMAIN a.types}
  BY <1>7 DEF Matches, Agree, v
<1>12. ASSUME NEW n \in {m \in DOMAIN v : v[m] \in DOMAIN a.types}
       PROVE  RenameDefinition(b.types[w[n]], Positions(w)) = RenameDefinition(a.types[v[n]], Positions(v))
  <2>1. n \in 1..Len(v) /\ v[n] \in ToSet(v) /\ v[n] \in DOMAIN a.types /\ w[n] = p[v[n]] BY <1>7
  <2>2. b.types[w[n]] = RenameDefinition(a.types[v[n]], p) BY <2>1 DEF Matches, Agree, v
  <2>3. a.types[v[n]] \in AbiDefinitions BY <2>1, AbiFacts
  <2>4. ToSet(DefinitionRefs(a.types[v[n]])) \subseteq ToSet(v) BY <2>1, <1>4 DEF Closed
  <2>5. Composed(p, Positions(w), Positions(v), ToSet(DefinitionRefs(a.types[v[n]])))
    BY <2>4, <1>8 DEF Composed
  <2> QED BY <2>2, <2>3, <2>5, DefinitionComposed
<1> DEFINE c == CanonicalizeHostAbi(a)
           d == CanonicalizeHostAbi(b)
<1>13. /\ c = [imports |-> c.imports, exports |-> c.exports, types |-> c.types,
               features |-> a.features]
       /\ c.imports = RenameFunctions(si, Positions(v))
       /\ c.exports = RenameFunctions(se, Positions(v))
       /\ c.types = [n \in {m \in DOMAIN v : v[m] \in DOMAIN a.types} |->
                        RenameDefinition(a.types[v[n]], Positions(v))]
  BY CanonicalParts DEF v, si, se
<1>14. /\ d = [imports |-> d.imports, exports |-> d.exports, types |-> d.types,
               features |-> b.features]
       /\ d.imports = RenameFunctions(RenameFunctions(si, p), Positions(w))
       /\ d.exports = RenameFunctions(RenameFunctions(se, p), Positions(w))
       /\ d.types = [n \in {m \in DOMAIN w : w[m] \in DOMAIN b.types} |->
                        RenameDefinition(b.types[w[n]], Positions(w))]
  BY <1>2, CanonicalParts DEF w
<1> HIDE DEF c, d
<1>15. d.types = c.types BY <1>11, <1>12, <1>13, <1>14
<1>16. d = c BY <1>10, <1>13, <1>14, <1>15
<1> QED BY <1>16 DEF c, d

\* The functions that others have too.
CommonOf(fs, gs) == {f \in ToSet(fs) : f.key \in Declared(gs)}

\* Common takes the functions that others have too.
LEMMA CommonFacts ==
  ASSUME NEW fs \in Seq(AbiFunctions), NamedOnce(fs), NEW gs
  PROVE  /\ Common(fs, gs) \in Seq(AbiFunctions) /\ NamedOnce(Common(fs, gs))
         /\ ToSet(Common(fs, gs)) = CommonOf(fs, gs)
<1>9. ASSUME NEW rr \in Seq(Seq(AbiFunctions))
      PROVE  \E h \in [0..Len(rr) -> Seq(AbiFunctions)] :
                /\ h[0] = <<>> /\ FlattenSeq(rr) = h[Len(rr)]
                /\ \A i \in 1..Len(rr) : h[i] = h[i-1] \o rr[i]
  BY FlattenFold
<1> DEFINE N == Len(fs)
           ss == [n \in DOMAIN fs |-> IF fs[n].key \in Declared(gs) THEN <<fs[n]>> ELSE <<>>]
<1>0. /\ N \in Nat /\ DOMAIN fs = 1..N
      /\ \A i \in 1..N : fs[i] \in AbiFunctions /\ fs[i].key \in Nat
      /\ \A i, j \in 1..N : fs[i].key = fs[j].key => i = j
  BY NamedFacts
<1>1. \A n \in 1..N : /\ ss[n] = IF fs[n].key \in Declared(gs) THEN <<fs[n]>> ELSE <<>>
                      /\ ss[n] \in Seq(AbiFunctions)
  BY <1>0
<1>2. ss \in Seq(Seq(AbiFunctions)) /\ Len(ss) = N
  <2>1. ss \in [1..N -> Seq(AbiFunctions)] BY <1>0, <1>1
  <2> HIDE DEF ss
  <2> QED BY <2>1, <1>0, FunctionIsSeq
<1>3. Common(fs, gs) = FlattenSeq(ss) BY DEF Common
<1> HIDE DEF ss
<1>4. PICK h \in [0..N -> Seq(AbiFunctions)] :
                /\ h[0] = <<>> /\ Common(fs, gs) = h[N]
                /\ \A i \in 1..N : h[i] = h[i-1] \o ss[i]
  BY <1>2, <1>3, <1>9
<1> DEFINE Good(n) ==
      /\ NamedOnce(h[n])
      /\ ToSet(h[n]) = {fs[i] : i \in {j \in 1..n : fs[j].key \in Declared(gs)}}
    P == {n \in Nat : n <= N => Good(n)}
<1>5. 0 \in P
  <2>1. Good(0) BY <1>4 DEF NamedOnce, ToSet
  <2> QED BY <2>1
<1>6. ASSUME NEW n \in Nat, n \in P PROVE n + 1 \in P
  <2> SUFFICES ASSUME n + 1 <= N PROVE Good(n + 1) OBVIOUS
  <2>1. n + 1 \in 1..N /\ (n + 1) - 1 = n /\ n \in 0..N /\ n <= N BY <1>0
  <2>2. Good(n) BY <1>6, <2>1
  <2> HIDE DEF P
  <2>3. h[n + 1] = h[n] \o ss[n + 1] /\ h[n] \in Seq(AbiFunctions) BY <2>1, <1>4
  <2>4. 1..(n + 1) = 1..n \cup {n + 1} OBVIOUS
  <2> DEFINE f == fs[n + 1]
  <2>5. f \in AbiFunctions BY <2>1, <1>0
  <2>6. CASE f.key \in Declared(gs)
    <3>1. h[n + 1] = h[n] \o <<f>> BY <2>1, <2>3, <2>6, <1>1
    <3>2. <<f>> \in Seq(AbiFunctions) /\ ToSet(<<f>>) = {f} /\ Len(<<f>>) = 1 /\ <<f>>[1] = f
      BY <2>5 DEF ToSet
    <3>3. ToSet(h[n + 1]) = ToSet(h[n]) \cup {f} 
      <4>1. ASSUME NEW s \in Seq(AbiFunctions), NEW t \in Seq(AbiFunctions)
            PROVE  ToSet(s \o t) = ToSet(s) \cup ToSet(t)
        BY ToSetConcat
      <4> HIDE DEF f
      <4>2. ToSet(h[n] \o <<f>>) = ToSet(h[n]) \cup ToSet(<<f>>) BY <2>3, <3>2, <4>1
      <4> QED BY <4>2, <3>1, <3>2
    <3>4. ToSet(h[n + 1]) = {fs[i] : i \in {j \in 1..(n + 1) : fs[j].key \in Declared(gs)}}
      BY <3>3, <2>2, <2>4, <2>6
    <3>5. /\ Len(h[n]) \in Nat /\ DOMAIN h[n] = 1..Len(h[n])
          /\ \A m \in 1..Len(h[n]) : h[n][m] \in ToSet(h[n])
      BY <2>3, SeqFacts
    <3>6. \A m \in 1..Len(h[n]) : h[n][m].key # f.key
      <4> TAKE m \in 1..Len(h[n])
      <4>1. PICK i \in 1..n : h[n][m] = fs[i] BY <3>5, <2>2
      <4>2. i \in 1..N /\ i # n + 1 BY <2>1, <1>0
      <4> QED BY <4>1, <4>2, <2>1, <1>0
    <3>7. /\ h[n + 1] \in Seq(AbiFunctions) /\ Len(h[n + 1]) = Len(h[n]) + 1
          /\ \A m \in 1..Len(h[n]) : h[n + 1][m] = h[n][m]
          /\ h[n + 1][Len(h[n]) + 1] = f
      <4> HIDE DEF f
      <4>1. ASSUME NEW s \in Seq(AbiFunctions)
            PROVE  /\ s \o <<f>> \in Seq(AbiFunctions) /\ Len(s \o <<f>>) = Len(s) + 1
                   /\ \A m \in 1..Len(s) : (s \o <<f>>)[m] = s[m]
                   /\ (s \o <<f>>)[Len(s) + 1] = f
        BY <2>5
      <4> QED BY <3>1, <2>3, <4>1
    <3>8. NamedOnce(h[n + 1])
      <4> SUFFICES ASSUME NEW i \in 1..(Len(h[n]) + 1), NEW j \in 1..(Len(h[n]) + 1),
                          h[n + 1][i].key = h[n + 1][j].key
                   PROVE  i = j
        <5>1. DOMAIN h[n + 1] = 1..(Len(h[n]) + 1) BY <3>7, SeqFacts
        <5> QED BY <5>1 DEF NamedOnce
      <4>1. \A k \in 1..(Len(h[n]) + 1) : k \in 1..Len(h[n]) \/ k = Len(h[n]) + 1
        <5>1. Len(h[n]) \in Nat BY <3>5
        <5> QED BY <5>1
      <4>2. CASE i \in 1..Len(h[n]) /\ j \in 1..Len(h[n])
        BY <4>2, <2>2, <3>5, <3>7 DEF NamedOnce
      <4>3. CASE i = Len(h[n]) + 1 \/ j = Len(h[n]) + 1
        BY <4>1, <4>3, <3>6, <3>7
      <4> QED BY <4>1, <4>2, <4>3
    <3> QED BY <3>4, <3>8
  <2>7. CASE f.key \notin Declared(gs)
    <3>1. h[n + 1] = h[n] \o <<>> BY <2>1, <2>3, <2>7, <1>1
    <3>2. h[n + 1] = h[n] BY <3>1, <2>3
    <3>3. {j \in 1..(n + 1) : fs[j].key \in Declared(gs)} = {j \in 1..n : fs[j].key \in Declared(gs)}
      BY <2>4, <2>7
    <3> QED BY <3>2, <3>3, <2>2
  <2> QED BY <2>6, <2>7
<1> HIDE DEF P
<1>7. N \in P BY <1>0, <1>5, <1>6, InductSet
<1>8. Good(N) BY <1>0, <1>7 DEF P
<1>10. ToSet(fs) = {fs[i] : i \in 1..N} BY SeqFacts
<1>11. {fs[i] : i \in {j \in 1..N : fs[j].key \in Declared(gs)}} = CommonOf(fs, gs)
  BY <1>10 DEF CommonOf
<1> QED BY <1>0, <1>4, <1>8, <1>11

\* What common_surface_abi keeps.
LEMMA CommonSurfaceFacts ==
  ASSUME NEW a, NEW b, WellFormed(a), WellFormed(b)
  PROVE  LET x == CommonSurface(a, b)
         IN  /\ WellFormed(x) /\ x.types = a.types /\ x.features = {}
             /\ x.imports = Common(a.imports, b.imports) /\ x.exports = Common(a.exports, b.exports)
             /\ ToSet(x.imports) = CommonOf(a.imports, b.imports)
             /\ ToSet(x.exports) = CommonOf(a.exports, b.exports)
<1> DEFINE x == CommonSurface(a, b)
           i == Common(a.imports, b.imports)
           e == Common(a.exports, b.exports)
<1>1. x = [a EXCEPT !.imports = i, !.exports = e, !.features = {}] BY DEF CommonSurface
<1>2. /\ i \in Seq(AbiFunctions) /\ NamedOnce(i) /\ ToSet(i) = CommonOf(a.imports, b.imports)
      /\ e \in Seq(AbiFunctions) /\ NamedOnce(e) /\ ToSet(e) = CommonOf(a.exports, b.exports)
  BY AbiFacts, CommonFacts
<1>3. a \in HostAbis BY DEF WellFormed
<1> HIDE DEF x, i, e
<1>4. /\ x \in HostAbis /\ x.types = a.types /\ x.features = {} /\ x.imports = i /\ x.exports = e
  BY <1>1, <1>2, <1>3 DEF HostAbis
<1> QED BY <1>2, <1>4 DEF WellFormed, x, i, e

-----------------------------------------------------------------------------
(* Correspondences of type numbers, and what functions lead to.            *)

\* Correspondences of type numbers.
Bijections == Bijection(TypeIds, TypeIds)

\* What a correspondence is.
LEMMA BijectionFacts ==
  ASSUME NEW p \in Bijections
  PROVE  /\ p \in Renaming /\ p \in [TypeIds -> TypeIds]
         /\ \A id \in TypeIds : p[id] \in TypeIds
         /\ \A id, jd \in TypeIds : p[id] = p[jd] => id = jd
         /\ \A id \in TypeIds : \E jd \in TypeIds : p[jd] = id
<1>1. /\ p \in [TypeIds -> TypeIds]
      /\ \A id, jd \in TypeIds : p[id] = p[jd] => id = jd
      /\ \A id \in TypeIds : \E jd \in TypeIds : p[jd] = id
  BY Fun_BijectionProperties DEF Bijections
<1> QED BY <1>1 DEF Renaming, IsInjective

\* The correspondence that keeps numbers.
Identity == [id \in TypeIds |-> id]

\* One correspondence after another.
After(p, q) == [id \in TypeIds |-> q[p[id]]]

\* The way back.
Back(p) == Inverse(p, TypeIds, TypeIds)

\* Correspondences have an identity, compose, and have a way back.
LEMMA BijectionAlgebra ==
  /\ Identity \in Bijections
  /\ \A p, q \in Bijections : After(p, q) \in Bijections
  /\ \A p \in Bijections : Back(p) \in Bijections /\ \A id \in TypeIds : Back(p)[p[id]] = id
<1>1. Identity \in Bijections BY Fun_IsBij DEF Identity, Bijections
<1>2. \A p, q \in Bijections : After(p, q) \in Bijections
  BY Fun_BijTransitive DEF After, Bijections
<1>3. \A p \in Bijections : Back(p) \in Bijections /\ \A id \in TypeIds : Back(p)[p[id]] = id
  BY Fun_BijInverse DEF Back, Bijections
<1> QED BY <1>1, <1>2, <1>3

\* The identity renames no value.
LEMMA ValuesKept ==
  ASSUME NEW vs \in Seq(AbiValues)
  PROVE  RenameValues(vs, Identity) = vs
<1>0. /\ DOMAIN vs = 1..Len(vs) /\ vs = [n \in 1..Len(vs) |-> vs[n]]
      /\ \A n \in 1..Len(vs) : vs[n] \in AbiValues
  BY SeqFacts
<1>1. ASSUME NEW v \in AbiValues PROVE RenameValue(v, Identity) = v
  BY DEF RenameValue, IsRef, Identity, AbiValues
<1> QED BY <1>0, <1>1 DEF RenameValues

\* The identity renames no function.
LEMMA FunctionKept ==
  ASSUME NEW f \in AbiFunctions
  PROVE  RenameFunction(f, Identity) = f
<1>1. f.params \in Seq(AbiValues) /\ f.results \in Seq(AbiValues) BY DEF AbiFunctions
<1>2. RenameFunction(f, Identity) = [f EXCEPT !.params = f.params, !.results = f.results]
  BY <1>1, ValuesKept DEF RenameFunction
<1> QED BY <1>2 DEF AbiFunctions

\* The identity renames no definition.
LEMMA DefinitionKept ==
  ASSUME NEW d \in AbiDefinitions
  PROVE  RenameDefinition(d, Identity) = d
<1>1. d.fields \in Seq(AbiFields) /\ d.supertypes \in Seq(TypeIds) BY DEF AbiDefinitions, AbiFields
<1>2. [n \in DOMAIN d.supertypes |-> Identity[d.supertypes[n]]] = d.supertypes
  BY <1>1, SeqFacts DEF Identity
<1>3. \A f \in AbiFields : RenameField(f, Identity) = f
  BY DEF RenameField, RenameValue, IsRef, Identity, AbiFields, AbiValues
<1>4. [n \in DOMAIN d.fields |-> RenameField(d.fields[n], Identity)] = d.fields
  BY <1>1, <1>3, SeqFacts
<1>5. RenameDefinition(d, Identity) = [d EXCEPT !.supertypes = d.supertypes, !.fields = d.fields]
  BY <1>2, <1>4 DEF RenameDefinition
<1> QED BY <1>5 DEF AbiDefinitions

\* The types that a set of functions names.
RefsOf(F) == UNION {ToSet(FunctionIds(f)) : f \in F}

\* A set with what its types refer to.
ClosedIn(abi, X) == \A id \in X \cap DOMAIN abi.types : References(abi.types[id]) \subseteq X

\* The types that the types S lead to.
Leads(abi, S) ==
    {id \in TypeIds : \A X \in SUBSET TypeIds : S \subseteq X /\ ClosedIn(abi, X) => id \in X}

\* Definitions refer to types.
LEMMA ReferencesFacts ==
  ASSUME NEW abi, WellFormed(abi), NEW id \in DOMAIN abi.types
  PROVE  /\ References(abi.types[id]) \subseteq TypeIds
         /\ References(abi.types[id]) = ToSet(DefinitionRefs(abi.types[id]))
BY AbiFacts, DefinitionRefsFacts, SeqFacts DEF References

\* What S leads to is the least closed set with it.
LEMMA LeadsFacts ==
  ASSUME NEW abi, WellFormed(abi), NEW S \in SUBSET TypeIds
  PROVE  /\ S \subseteq Leads(abi, S) /\ Leads(abi, S) \subseteq TypeIds
         /\ ClosedIn(abi, Leads(abi, S))
         /\ \A X \in SUBSET TypeIds : S \subseteq X /\ ClosedIn(abi, X) => Leads(abi, S) \subseteq X
<1>1. S \subseteq Leads(abi, S) /\ Leads(abi, S) \subseteq TypeIds BY DEF Leads
<1>2. \A X \in SUBSET TypeIds : S \subseteq X /\ ClosedIn(abi, X) => Leads(abi, S) \subseteq X
  BY DEF Leads
<1>3. ASSUME NEW id \in Leads(abi, S) \cap DOMAIN abi.types, NEW jd \in References(abi.types[id])
      PROVE  jd \in Leads(abi, S)
  <2>1. jd \in TypeIds BY ReferencesFacts
  <2>2. ASSUME NEW X \in SUBSET TypeIds, S \subseteq X, ClosedIn(abi, X) PROVE jd \in X
    <3>1. id \in X BY <1>2, <2>2
    <3> QED BY <3>1, <2>2 DEF ClosedIn
  <2> QED BY <2>1, <2>2 DEF Leads
<1>4. ClosedIn(abi, Leads(abi, S)) BY <1>3 DEF ClosedIn
<1> QED BY <1>1, <1>2, <1>4

\* More types lead to more.
LEMMA LeadsMonotone ==
  ASSUME NEW abi, WellFormed(abi), NEW T \in SUBSET TypeIds, NEW S \in SUBSET T
  PROVE  Leads(abi, S) \subseteq Leads(abi, T)
<1>1. /\ T \subseteq Leads(abi, T) /\ Leads(abi, T) \subseteq TypeIds
      /\ ClosedIn(abi, Leads(abi, T))
  BY LeadsFacts
<1>2. S \subseteq Leads(abi, T) /\ S \in SUBSET TypeIds BY <1>1
<1> QED BY <1>1, <1>2, LeadsFacts

\* A renamed definition refers to the renamed types.
LEMMA RenamedReferences ==
  ASSUME NEW p \in Bijections, NEW d \in AbiDefinitions
  PROVE  /\ RenameDefinition(d, p) \in AbiDefinitions
         /\ References(RenameDefinition(d, p)) = {p[id] : id \in References(d)}
<1>1. DefinitionRefs(d) \in Seq(TypeIds) BY DefinitionRefsFacts
<1>2. \A id \in ToSet(DefinitionRefs(d)) : p[id] \in TypeIds BY <1>1, BijectionFacts, SeqFacts
<1>3. /\ RenameDefinition(d, p) \in AbiDefinitions
      /\ DefinitionRefs(RenameDefinition(d, p)) = Numbered(DefinitionRefs(d), p)
  BY <1>2, DefinitionRenamed
<1>4. ToSet(Numbered(DefinitionRefs(d), p)) = {p[id] : id \in ToSet(DefinitionRefs(d))}
  BY <1>1 DEF Numbered, ToSet
<1> QED BY <1>3, <1>4 DEF References

\* The types S under p.
Image(p, S) == {p[id] : id \in S}

\* Where definitions agree under p, what S leads to corresponds to what its
\* image leads to.
LEMMA LeadsImage ==
  ASSUME NEW a, NEW b, WellFormed(a), WellFormed(b), NEW p \in Bijections,
         NEW S \in SUBSET TypeIds, Agree(a, b, p, Leads(a, S))
  PROVE  Leads(b, Image(p, S)) = Image(p, Leads(a, S))
<1> DEFINE L == Leads(a, S)
           T == {p[id] : id \in S}
           M == Leads(b, T)
<1>1. /\ S \subseteq L /\ L \subseteq TypeIds /\ ClosedIn(a, L)
      /\ \A X \in SUBSET TypeIds : S \subseteq X /\ ClosedIn(a, X) => L \subseteq X
  BY LeadsFacts
<1>2. T \in SUBSET TypeIds BY BijectionFacts
<1>3. /\ T \subseteq M /\ M \subseteq TypeIds /\ ClosedIn(b, M)
      /\ \A X \in SUBSET TypeIds : T \subseteq X /\ ClosedIn(b, X) => M \subseteq X
  BY <1>2, LeadsFacts
<1> HIDE DEF L, M
<1>4. ASSUME NEW id \in L, id \in DOMAIN a.types
      PROVE  /\ p[id] \in DOMAIN b.types
             /\ References(b.types[p[id]]) = {p[jd] : jd \in References(a.types[id])}
  <2>1. p[id] \in DOMAIN b.types /\ b.types[p[id]] = RenameDefinition(a.types[id], p)
    BY <1>4 DEF Agree, L
  <2>2. a.types[id] \in AbiDefinitions BY <1>4, AbiFacts
  <2> QED BY <2>1, <2>2, RenamedReferences
<1>5. M \subseteq {p[id] : id \in L}
  <2> DEFINE X == {p[id] : id \in L}
  <2>1. X \in SUBSET TypeIds /\ T \subseteq X BY <1>1, BijectionFacts
  <2>2. ASSUME NEW id \in L, p[id] \in DOMAIN b.types PROVE References(b.types[p[id]]) \subseteq X
    <3>1. id \in DOMAIN a.types BY <2>2 DEF Agree, L
    <3>2. References(a.types[id]) \subseteq L BY <3>1, <1>1 DEF ClosedIn
    <3>3. References(b.types[p[id]]) = {p[jd] : jd \in References(a.types[id])} BY <3>1, <1>4
    <3> QED BY <3>2, <3>3
  <2>3. ClosedIn(b, X) BY <2>2 DEF ClosedIn
  <2> HIDE DEF X
  <2>4. M \subseteq X BY <2>1, <2>3, <1>3
  <2> QED BY <2>4 DEF X
<1>6. {p[id] : id \in L} \subseteq M
  <2> DEFINE X == {id \in L : p[id] \in M}
  <2>1. X \in SUBSET TypeIds /\ S \subseteq X BY <1>1, <1>3
  <2>2. ASSUME NEW id \in X, id \in DOMAIN a.types, NEW jd \in References(a.types[id])
        PROVE  jd \in X
    <3>1. jd \in L BY <2>2, <1>1 DEF ClosedIn
    <3>2. p[id] \in DOMAIN b.types /\ p[jd] \in References(b.types[p[id]]) BY <2>2, <1>4
    <3>3. p[jd] \in M BY <2>2, <3>2, <1>3 DEF ClosedIn
    <3> QED BY <3>1, <3>3
  <2>3. ClosedIn(a, X) BY <2>2 DEF ClosedIn
  <2> HIDE DEF X
  <2>4. L \subseteq X BY <2>1, <2>3, <1>1
  <2> QED BY <2>4 DEF X
<1> QED BY <1>5, <1>6 DEF L, M, Image

\* A set of functions renamed.
Maps(F, p) == {RenameFunction(f, p) : f \in F}

\* Functions I and E of a are J and H of b, with all they lead to, under p.
Corresponds(a, I, E, b, J, H, p) ==
    /\ Maps(I, p) = J
    /\ Maps(E, p) = H
    /\ Agree(a, b, p, Leads(a, RefsOf(I \cup E)))

\* Functions name types.
LEMMA RefsOfFacts ==
  ASSUME NEW F \in SUBSET AbiFunctions
  PROVE  RefsOf(F) \subseteq TypeIds /\ \A f \in F : ToSet(FunctionIds(f)) \subseteq RefsOf(F)
<1>1. \A f \in F : ToSet(FunctionIds(f)) \subseteq TypeIds BY FunctionIdsFacts, SeqFacts
<1> QED BY <1>1 DEF RefsOf

\* A function under a correspondence.
LEMMA MapFacts ==
  ASSUME NEW p \in Bijections, NEW f \in AbiFunctions
  PROVE  /\ RenameFunction(f, p) \in AbiFunctions /\ RenameFunction(f, p).key = f.key
         /\ ToSet(FunctionIds(RenameFunction(f, p))) = {p[id] : id \in ToSet(FunctionIds(f))}
<1>1. FunctionIds(f) \in Seq(TypeIds) BY FunctionIdsFacts
<1>2. \A id \in ToSet(FunctionIds(f)) : p[id] \in TypeIds BY <1>1, BijectionFacts, SeqFacts
<1>3. ToSet(Numbered(FunctionIds(f), p)) = {p[id] : id \in ToSet(FunctionIds(f))}
  BY <1>1 DEF Numbered, ToSet
<1> QED BY <1>2, <1>3, FunctionRenamed

\* A set of functions under a correspondence.
LEMMA MapsFacts ==
  ASSUME NEW p \in Bijections, NEW F \in SUBSET AbiFunctions
  PROVE  Maps(F, p) \in SUBSET AbiFunctions /\ RefsOf(Maps(F, p)) = Image(p, RefsOf(F))
<1>1. Maps(F, p) \in SUBSET AbiFunctions BY MapFacts DEF Maps
<1>2. \A f \in F : ToSet(FunctionIds(RenameFunction(f, p))) = {p[id] : id \in ToSet(FunctionIds(f))}
  BY MapFacts
<1>3. ASSUME NEW id
      PROVE  id \in RefsOf(Maps(F, p)) <=> \E f \in F : id \in ToSet(FunctionIds(RenameFunction(f, p)))
  BY DEF RefsOf, Maps
<1>4. ASSUME NEW id
      PROVE  id \in {p[jd] : jd \in RefsOf(F)} <=> \E f \in F : \E jd \in ToSet(FunctionIds(f)) : id = p[jd]
  BY DEF RefsOf
<1>5. ASSUME NEW id PROVE id \in RefsOf(Maps(F, p)) <=> id \in {p[jd] : jd \in RefsOf(F)}
  <2>1. \A f \in F : id \in ToSet(FunctionIds(RenameFunction(f, p))) <=> \E jd \in ToSet(FunctionIds(f)) : id = p[jd]
    BY <1>2
  <2> QED BY <2>1, <1>3, <1>4
<1>6. RefsOf(Maps(F, p)) = {p[jd] : jd \in RefsOf(F)} BY <1>5
<1> QED BY <1>1, <1>6 DEF Image

\* Functions under two correspondences.
LEMMA MapComposed ==
  ASSUME NEW p \in Bijections, NEW q \in Bijections, NEW f \in AbiFunctions
  PROVE  RenameFunction(RenameFunction(f, p), q) = RenameFunction(f, After(p, q))
<1>1. ToSet(FunctionIds(f)) \subseteq TypeIds BY FunctionIdsFacts, SeqFacts
<1>2. Composed(p, q, After(p, q), ToSet(FunctionIds(f)))
  BY <1>1, BijectionFacts DEF Composed, After
<1> QED BY <1>2, FunctionComposed

\* Definitions under two correspondences.
LEMMA DefinitionMapComposed ==
  ASSUME NEW p \in Bijections, NEW q \in Bijections, NEW d \in AbiDefinitions
  PROVE  RenameDefinition(RenameDefinition(d, p), q) = RenameDefinition(d, After(p, q))
<1>1. ToSet(DefinitionRefs(d)) \subseteq TypeIds BY DefinitionRefsFacts, SeqFacts
<1>2. Composed(p, q, After(p, q), ToSet(DefinitionRefs(d)))
  BY <1>1, BijectionFacts DEF Composed, After
<1> QED BY <1>2, DefinitionComposed

\* Functions correspond to themselves.
LEMMA CorrespondsItself ==
  ASSUME NEW a, WellFormed(a), NEW I \in SUBSET AbiFunctions, NEW E \in SUBSET AbiFunctions
  PROVE  Corresponds(a, I, E, a, I, E, Identity)
<1>1. Maps(I, Identity) = I /\ Maps(E, Identity) = E BY FunctionKept DEF Maps
<1>2. RefsOf(I \cup E) \in SUBSET TypeIds BY RefsOfFacts
<1>3. Leads(a, RefsOf(I \cup E)) \subseteq TypeIds BY <1>2, LeadsFacts
<1>4. \A id \in DOMAIN a.types : RenameDefinition(a.types[id], Identity) = a.types[id]
  BY AbiFacts, DefinitionKept
<1>5. \A id \in TypeIds : Identity[id] = id BY DEF Identity
<1>6. Agree(a, a, Identity, Leads(a, RefsOf(I \cup E)))
  BY <1>3, <1>4, <1>5 DEF Agree
<1> QED BY <1>1, <1>6 DEF Corresponds

\* Some of corresponding functions correspond.
LEMMA CorrespondsPartly ==
  ASSUME NEW a, WellFormed(a), NEW b, NEW J, NEW H, NEW p,
         NEW I \in SUBSET AbiFunctions, NEW E \in SUBSET AbiFunctions,
         Corresponds(a, I, E, b, J, H, p), NEW I2 \in SUBSET I, NEW E2 \in SUBSET E
  PROVE  Corresponds(a, I2, E2, b, Maps(I2, p), Maps(E2, p), p)
<1>1. RefsOf(I2 \cup E2) \subseteq RefsOf(I \cup E) BY DEF RefsOf
<1>2. RefsOf(I \cup E) \in SUBSET TypeIds BY RefsOfFacts
<1>3. Leads(a, RefsOf(I2 \cup E2)) \subseteq Leads(a, RefsOf(I \cup E))
  BY <1>1, <1>2, LeadsMonotone
<1> QED BY <1>3 DEF Corresponds, Agree

\* What J and H lead to is what I and E lead to, under p.
Carries(a, I, E, b, J, H, p) ==
    /\ J \in SUBSET AbiFunctions /\ H \in SUBSET AbiFunctions
    /\ Leads(b, RefsOf(J \cup H)) = Image(p, Leads(a, RefsOf(I \cup E)))
    /\ Leads(a, RefsOf(I \cup E)) \subseteq TypeIds

\* Corresponding functions lead to corresponding types.
LEMMA CorrespondsImage ==
  ASSUME NEW a, WellFormed(a), NEW b, WellFormed(b), NEW J, NEW H, NEW p \in Bijections,
         NEW I \in SUBSET AbiFunctions, NEW E \in SUBSET AbiFunctions,
         Corresponds(a, I, E, b, J, H, p)
  PROVE  Carries(a, I, E, b, J, H, p)
<1>1. J = Maps(I, p) /\ H = Maps(E, p) BY DEF Corresponds
<1>2. J \in SUBSET AbiFunctions /\ H \in SUBSET AbiFunctions BY <1>1, MapsFacts
<1>3. J \cup H = Maps(I \cup E, p) BY <1>1 DEF Maps
<1>4. RefsOf(J \cup H) = Image(p, RefsOf(I \cup E)) BY <1>3, MapsFacts
<1>5. RefsOf(I \cup E) \in SUBSET TypeIds BY RefsOfFacts
<1>6. Agree(a, b, p, Leads(a, RefsOf(I \cup E))) BY DEF Corresponds
<1>7. Leads(b, Image(p, RefsOf(I \cup E))) = Image(p, Leads(a, RefsOf(I \cup E)))
  BY <1>5, <1>6, LeadsImage
<1> QED BY <1>2, <1>4, <1>5, <1>7, LeadsFacts DEF Carries

\* Correspondence goes back.
LEMMA CorrespondsBack ==
  ASSUME NEW a, WellFormed(a), NEW b, WellFormed(b), NEW J, NEW H, NEW p \in Bijections,
         NEW I \in SUBSET AbiFunctions, NEW E \in SUBSET AbiFunctions,
         Corresponds(a, I, E, b, J, H, p)
  PROVE  Corresponds(b, J, H, a, I, E, Back(p))
<1> DEFINE q == Back(p)
           L == Leads(a, RefsOf(I \cup E))
<1>1. q \in Bijections /\ \A id \in TypeIds : q[p[id]] = id BY BijectionAlgebra
<1>2. After(p, q) = Identity BY <1>1 DEF After, Identity
<1> HIDE DEF q
<1>3. ASSUME NEW F \in SUBSET AbiFunctions PROVE Maps(Maps(F, p), q) = F
  <2>1. \A f \in F : RenameFunction(RenameFunction(f, p), q) = f
    BY <1>1, <1>2, MapComposed, FunctionKept
  <2> QED BY <2>1 DEF Maps
<1>4. Maps(J, q) = I /\ Maps(H, q) = E BY <1>3 DEF Corresponds
<1>5. Leads(b, RefsOf(J \cup H)) = Image(p, L) /\ L \subseteq TypeIds
  <2>1. Carries(a, I, E, b, J, H, p) BY CorrespondsImage
  <2> QED BY <2>1 DEF Carries
<1>6. ASSUME NEW id \in L
      PROVE  /\ (p[id] \in DOMAIN b.types) = (id \in DOMAIN a.types)
             /\ p[id] \in DOMAIN b.types => RenameDefinition(b.types[p[id]], q) = a.types[id]
             /\ q[p[id]] = id
  <2>1. (id \in DOMAIN a.types) = (p[id] \in DOMAIN b.types) BY DEF Corresponds, Agree, L
  <2>2. ASSUME p[id] \in DOMAIN b.types PROVE RenameDefinition(b.types[p[id]], q) = a.types[id]
    <3>1. id \in DOMAIN a.types BY <2>1, <2>2
    <3>2. b.types[p[id]] = RenameDefinition(a.types[id], p) BY <3>1 DEF Corresponds, Agree, L
    <3>3. a.types[id] \in AbiDefinitions BY <3>1, AbiFacts
    <3> QED BY <3>2, <3>3, <1>1, <1>2, DefinitionMapComposed, DefinitionKept
  <2> QED BY <2>1, <2>2, <1>1, <1>5
<1>7. Agree(b, a, q, Leads(b, RefsOf(J \cup H)))
  <2> HIDE DEF L
  <2> QED BY <1>5, <1>6 DEF Agree, Image
<1> QED BY <1>4, <1>7 DEF Corresponds, q

\* Correspondence goes on.
LEMMA CorrespondsOn ==
  ASSUME NEW a, WellFormed(a), NEW b, WellFormed(b), NEW c, NEW p \in Bijections, NEW q \in Bijections,
         NEW I \in SUBSET AbiFunctions, NEW E \in SUBSET AbiFunctions,
         NEW J, NEW H, NEW K, NEW M,
         Corresponds(a, I, E, b, J, H, p), Corresponds(b, J, H, c, K, M, q)
  PROVE  Corresponds(a, I, E, c, K, M, After(p, q))
<1> DEFINE r == After(p, q)
           L == Leads(a, RefsOf(I \cup E))
<1>1. ASSUME NEW F \in SUBSET AbiFunctions PROVE Maps(Maps(F, p), q) = Maps(F, r)
  <2>1. \A f \in F : RenameFunction(RenameFunction(f, p), q) = RenameFunction(f, r)
    BY MapComposed
  <2> QED BY <2>1 DEF Maps
<1>2. Maps(I, r) = K /\ Maps(E, r) = M BY <1>1 DEF Corresponds
<1>3. Leads(b, RefsOf(J \cup H)) = Image(p, L) /\ L \subseteq TypeIds
  <2>1. Carries(a, I, E, b, J, H, p) BY CorrespondsImage
  <2> QED BY <2>1 DEF Carries
<1>4. ASSUME NEW id \in L
      PROVE  /\ (id \in DOMAIN a.types) = (r[id] \in DOMAIN c.types)
             /\ id \in DOMAIN a.types => RenameDefinition(a.types[id], r) = c.types[r[id]]
  <2>0. r[id] = q[p[id]] BY <1>3 DEF After
  <2>1. (id \in DOMAIN a.types) = (p[id] \in DOMAIN b.types) BY DEF Corresponds, Agree, L
  <2>2. p[id] \in Leads(b, RefsOf(J \cup H)) BY <1>3 DEF Image
  <2>3. (p[id] \in DOMAIN b.types) = (q[p[id]] \in DOMAIN c.types) BY <2>2 DEF Corresponds, Agree
  <2>4. ASSUME id \in DOMAIN a.types PROVE RenameDefinition(a.types[id], r) = c.types[r[id]]
    <3>1. b.types[p[id]] = RenameDefinition(a.types[id], p) BY <2>4 DEF Corresponds, Agree, L
    <3>2. c.types[q[p[id]]] = RenameDefinition(b.types[p[id]], q)
      BY <2>1, <2>2, <2>4 DEF Corresponds, Agree
    <3>3. a.types[id] \in AbiDefinitions BY <2>4, AbiFacts
    <3> QED BY <2>0, <3>1, <3>2, <3>3, DefinitionMapComposed
  <2> QED BY <2>0, <2>1, <2>3, <2>4
<1>5. Agree(a, c, r, L) BY <1>4 DEF Agree
<1> QED BY <1>2, <1>5 DEF Corresponds

-----------------------------------------------------------------------------
(* The canonical form corresponds to what it is made of.                   *)

\* The worklist holds what the functions of an ABI lead to.
LEMMA WorklistLeads ==
  ASSUME NEW abi, WellFormed(abi)
  PROVE  /\ RefsOf(ToSet(abi.imports) \cup ToSet(abi.exports)) = Needs(abi)
         /\ Needs(abi) \subseteq TypeIds
         /\ Leads(abi, Needs(abi)) = ToSet(Worklist(abi))
<1> DEFINE X == ToSet(Worklist(abi))
<1>1. abi.imports \in Seq(AbiFunctions) /\ abi.exports \in Seq(AbiFunctions) BY AbiFacts
<1>2. /\ ToSet(FunctionRefs(abi.imports)) = UNION {ToSet(FunctionIds(f)) : f \in ToSet(abi.imports)}
      /\ ToSet(FunctionRefs(abi.exports)) = UNION {ToSet(FunctionIds(f)) : f \in ToSet(abi.exports)}
  BY <1>1, FunctionRefsFacts
<1>3. RefsOf(ToSet(abi.imports) \cup ToSet(abi.exports)) = Needs(abi)
  <2> HIDE DEF ToSet
  <2> QED BY <1>2 DEF RefsOf, Needs
<1>4. ToSet(Roots(abi)) = Needs(abi) /\ Roots(abi) \in Seq(TypeIds) BY RootsFacts
<1>5. Needs(abi) \subseteq TypeIds BY <1>4, SeqFacts
<1>6. /\ Worklist(abi) \in Seq(TypeIds) /\ Closed(X, abi)
      /\ \A Y : Closed(Y, abi) => X \subseteq Y
  BY RootsFacts, WorklistFacts
<1>7. X \subseteq TypeIds BY <1>6, SeqFacts
<1> DEFINE L == Leads(abi, Needs(abi))
<1>8. /\ Needs(abi) \subseteq L /\ L \subseteq TypeIds /\ ClosedIn(abi, L)
      /\ \A Y \in SUBSET TypeIds : Needs(abi) \subseteq Y /\ ClosedIn(abi, Y) => L \subseteq Y
  BY <1>5, LeadsFacts
<1> HIDE DEF X, L
<1>9. Closed(L, abi) BY <1>4, <1>8 DEF Closed, ClosedIn, References
<1>10. Needs(abi) \subseteq X /\ ClosedIn(abi, X) BY <1>4, <1>6 DEF Closed, ClosedIn, References
<1>11. L = X BY <1>6, <1>7, <1>8, <1>9, <1>10
<1> QED BY <1>3, <1>5, <1>11 DEF X, L

\* To match is to correspond with all functions.
LEMMA MatchesMeans ==
  ASSUME NEW a, NEW b, WellFormed(a), WellFormed(b), NEW p \in Bijections
  PROVE  Matches(a, b, p) <=>
            Corresponds(a, ToSet(a.imports), ToSet(a.exports), b, ToSet(b.imports), ToSet(b.exports), p)
<1>1. /\ a.imports \in Seq(AbiFunctions) /\ a.exports \in Seq(AbiFunctions) /\ p \in Renaming
  BY AbiFacts, BijectionFacts
<1>2. /\ ToSet(RenameFunctions(a.imports, p)) = Maps(ToSet(a.imports), p)
      /\ ToSet(RenameFunctions(a.exports, p)) = Maps(ToSet(a.exports), p)
  BY <1>1, FunctionsUnder DEF Maps
<1>3. Leads(a, RefsOf(ToSet(a.imports) \cup ToSet(a.exports))) = ToSet(Worklist(a))
  BY WorklistLeads
<1> QED BY <1>2, <1>3 DEF Matches, Corresponds

\* The canonical numbers of the reachable types extend to a correspondence of
\* all types.
LEMMA NumberingExtends ==
  ASSUME NEW order \in Seq(TypeIds), Distinct(order), Len(order) <= Cap
  PROVE  \E p \in Bijections : \A id \in ToSet(order) : p[id] = Positions(order)[id]
<1> DEFINE A == ToSet(order)
           B == 1..Len(order)
           f == Positions(order)
<1>0. /\ Len(order) \in Nat /\ A = {order[n] : n \in B} /\ A \subseteq TypeIds /\ B \subseteq TypeIds
      /\ \A n \in B : f[order[n]] = n
      /\ \A id \in A : f[id] \in B /\ order[f[id]] = id
      /\ IsFiniteSet(TypeIds)
  <2>1. Len(order) \in Nat /\ A = {order[n] : n \in B} /\ A \subseteq TypeIds BY SeqFacts
  <2>2. B \subseteq TypeIds BY <2>1, CapFacts
  <2> QED BY <2>1, <2>2, PositionsFacts, CapFacts
<1>1. f \in [A -> B]
  <2>1. f = [id \in A |-> f[id]] BY DEF Positions
  <2> HIDE DEF f, A, B
  <2> QED BY <2>1, <1>0
<1> HIDE DEF A, B, f
<1>2. f \in Bijection(A, B)
  <2>1. \A x, y \in A : f[x] = f[y] => x = y BY <1>0
  <2>2. \A n \in B : \E id \in A : f[id] = n BY <1>0
  <2> QED BY <1>1, <2>1, <2>2, Fun_IsBij
<1>3. IsFiniteSet(A) /\ Cardinality(A) = Cardinality(B) /\ IsFiniteSet(B)
  <2>1. IsFiniteSet(A) BY <1>0, FS_Subset
  <2>2. ExistsBijection(A, B) BY <1>2 DEF ExistsBijection
  <2> QED BY <2>1, <2>2, FS_Bijection
<1>4. /\ IsFiniteSet(TypeIds \ A) /\ IsFiniteSet(TypeIds \ B)
      /\ Cardinality(TypeIds \ A) = Cardinality(TypeIds \ B)
  <2>1. TypeIds \cap A = A /\ TypeIds \cap B = B BY <1>0
  <2>2. /\ IsFiniteSet(TypeIds \ A) /\ IsFiniteSet(TypeIds \ B)
        /\ Cardinality(TypeIds \ A) = Cardinality(TypeIds) - Cardinality(TypeIds \cap A)
        /\ Cardinality(TypeIds \ B) = Cardinality(TypeIds) - Cardinality(TypeIds \cap B)
    BY <1>0, <1>3, FS_Difference
  <2> QED BY <2>1, <2>2, <1>3
<1>5. PICK g : g \in Bijection(TypeIds \ A, TypeIds \ B)
  BY <1>4, FS_SameCardinalityBij DEF ExistsBijection
<1>6. /\ g \in [TypeIds \ A -> TypeIds \ B]
      /\ \A x, y \in TypeIds \ A : g[x] = g[y] => x = y
      /\ \A n \in TypeIds \ B : \E id \in TypeIds \ A : g[id] = n
  <2>1. ASSUME NEW U, NEW V, NEW k \in Bijection(U, V)
        PROVE  /\ k \in [U -> V] /\ \A x, y \in U : k[x] = k[y] => x = y
               /\ \A n \in V : \E id \in U : k[id] = n
    BY Fun_BijectionProperties
  <2> DEFINE U == TypeIds \ A
             V == TypeIds \ B
  <2>2. g \in Bijection(U, V) BY <1>5
  <2> HIDE DEF U, V
  <2>3. /\ g \in [U -> V] /\ \A x, y \in U : g[x] = g[y] => x = y
        /\ \A n \in V : \E id \in U : g[id] = n
    BY <2>1, <2>2
  <2> QED BY <2>3 DEF U, V
<1> DEFINE p == [id \in TypeIds |-> IF id \in A THEN f[id] ELSE g[id]]
<1>7. p \in [TypeIds -> TypeIds] BY <1>0, <1>6
<1>8. /\ \A id \in A : p[id] = f[id] /\ p[id] \in B
      /\ \A id \in TypeIds \ A : p[id] = g[id] /\ p[id] \in TypeIds \ B
  BY <1>0, <1>6
<1> HIDE DEF p
<1>9. \A x, y \in TypeIds : p[x] = p[y] => x = y
  <2> SUFFICES ASSUME NEW x \in TypeIds, NEW y \in TypeIds, p[x] = p[y] PROVE x = y OBVIOUS
  <2>1. CASE x \in A /\ y \in A BY <2>1, <1>0, <1>8
  <2>2. CASE x \notin A /\ y \notin A BY <2>2, <1>6, <1>8
  <2>3. CASE (x \in A) # (y \in A) BY <2>3, <1>8
  <2> QED BY <2>1, <2>2, <2>3
<1>10. \A n \in TypeIds : \E id \in TypeIds : p[id] = n
  <2> TAKE n \in TypeIds
  <2>1. CASE n \in B
    <3>1. order[n] \in A /\ f[order[n]] = n BY <2>1, <1>0
    <3> QED BY <3>1, <1>0, <1>8
  <2>2. CASE n \notin B
    <3>1. PICK id \in TypeIds \ A : g[id] = n BY <2>2, <1>6
    <3> QED BY <3>1, <1>8
  <2> QED BY <2>1, <2>2
<1>11. p \in Bijections BY <1>7, <1>9, <1>10, Fun_IsBij DEF Bijections
<1> QED BY <1>8, <1>11 DEF A, f

\* Renaming looks only at the numbers of the types that occur.
LEMMA SameNumbers ==
  ASSUME NEW p, NEW q, NEW X \in SUBSET TypeIds,
         \A id \in X : p[id] = q[id] /\ p[id] \in TypeIds
  PROVE  /\ \A fs \in Seq(AbiFunctions) : ToSet(FunctionRefs(fs)) \subseteq X =>
               RenameFunctions(fs, p) = RenameFunctions(fs, q)
         /\ \A d \in AbiDefinitions : ToSet(DefinitionRefs(d)) \subseteq X =>
               RenameDefinition(d, p) = RenameDefinition(d, q)
<1>1. Composed(Identity, p, p, X) /\ Composed(Identity, p, q, X)
  BY DEF Composed, Identity
<1>2. ASSUME NEW fs \in Seq(AbiFunctions), ToSet(FunctionRefs(fs)) \subseteq X
      PROVE  RenameFunctions(fs, p) = RenameFunctions(fs, q)
  <2>1. /\ Composed(Identity, p, p, ToSet(FunctionRefs(fs)))
        /\ Composed(Identity, p, q, ToSet(FunctionRefs(fs)))
    BY <1>1, <1>2 DEF Composed
  <2>2. RenameFunctions(RenameFunctions(fs, Identity), p) = RenameFunctions(fs, p)
        /\ RenameFunctions(RenameFunctions(fs, Identity), p) = RenameFunctions(fs, q)
    BY <2>1, FunctionsComposed
  <2> QED BY <2>2
<1>3. ASSUME NEW d \in AbiDefinitions, ToSet(DefinitionRefs(d)) \subseteq X
      PROVE  RenameDefinition(d, p) = RenameDefinition(d, q)
  <2>1. /\ Composed(Identity, p, p, ToSet(DefinitionRefs(d)))
        /\ Composed(Identity, p, q, ToSet(DefinitionRefs(d)))
    BY <1>1, <1>3 DEF Composed
  <2>2. RenameDefinition(RenameDefinition(d, Identity), p) = RenameDefinition(d, p)
        /\ RenameDefinition(RenameDefinition(d, Identity), p) = RenameDefinition(d, q)
    BY <2>1, DefinitionComposed
  <2> QED BY <2>2
<1> QED BY <1>2, <1>3

\* A list in the order of keys names each function once.
LEMMA IncreasingNamed ==
  ASSUME NEW fs \in Seq(AbiFunctions), Increasing(fs)
  PROVE  NamedOnce(fs)
<1> SUFFICES ASSUME NEW m \in DOMAIN fs, NEW n \in DOMAIN fs, fs[m].key = fs[n].key PROVE m = n
  BY DEF NamedOnce
<1>1. m \in Nat /\ n \in Nat /\ fs[m] \in AbiFunctions /\ fs[n] \in AbiFunctions
  BY SeqFacts
<1>2. fs[m].key \in Nat /\ fs[n].key \in Nat BY <1>1 DEF AbiFunctions
<1>3. ~(m < n) /\ ~(n < m) BY <1>2 DEF Increasing
<1> QED BY <1>1, <1>3

\* Sorted functions under a correspondence.
LEMMA SortedUnder ==
  ASSUME NEW p \in Bijections, NEW fs \in Seq(AbiFunctions), NamedOnce(fs)
  PROVE  LET gs == RenameFunctions(SortAbiFunctions(fs), p)
         IN  /\ gs \in Seq(AbiFunctions) /\ Increasing(gs) /\ NamedOnce(gs)
             /\ ToSet(gs) = ToSet(RenameFunctions(fs, p))
<1> DEFINE s == SortAbiFunctions(fs)
           gs == RenameFunctions(s, p)
<1>1. s \in Seq(AbiFunctions) /\ ToSet(s) = ToSet(fs) /\ Increasing(s) BY SortFacts
<1>2. p \in Renaming BY BijectionFacts
<1> HIDE DEF s
<1>3. /\ gs \in Seq(AbiFunctions) /\ Len(gs) = Len(s)
      /\ \A n \in 1..Len(s) : gs[n].key = s[n].key
      /\ ToSet(gs) = {RenameFunction(f, p) : f \in ToSet(s)}
      /\ ToSet(RenameFunctions(fs, p)) = {RenameFunction(f, p) : f \in ToSet(fs)}
  BY <1>1, <1>2, FunctionsUnder
<1> HIDE DEF gs
<1>4. DOMAIN gs = 1..Len(s) /\ DOMAIN s = 1..Len(s) BY <1>1, <1>3, SeqFacts
<1>5. Increasing(gs) BY <1>1, <1>3, <1>4 DEF Increasing
<1>6. NamedOnce(gs) BY <1>3, <1>5, IncreasingNamed
<1>7. ToSet(gs) = ToSet(RenameFunctions(fs, p)) BY <1>1, <1>3
<1> QED BY <1>3, <1>5, <1>6, <1>7 DEF gs, s

\* An ABI matches its canonical form: canonicalize_host_abi loses nothing that
\* the functions lead to.
LEMMA CanonicalMatches ==
  ASSUME NEW a, WellFormed(a)
  PROVE  LET c == CanonicalizeHostAbi(a)
         IN  /\ WellFormed(c) /\ c.features = a.features
             /\ Increasing(c.imports) /\ Increasing(c.exports)
             /\ \E p \in Bijections : Matches(a, c, p)
<1> DEFINE w == Worklist(a)
           c == CanonicalizeHostAbi(a)
           si == SortAbiFunctions(a.imports)
           se == SortAbiFunctions(a.exports)
           D == {m \in DOMAIN w : w[m] \in DOMAIN a.types}
<1>1. /\ w \in Seq(TypeIds) /\ Distinct(w) /\ Len(w) <= Cap /\ Closed(ToSet(w), a)
  BY RootsFacts, WorklistFacts
<1>2. /\ a.imports \in Seq(AbiFunctions) /\ NamedOnce(a.imports)
      /\ a.exports \in Seq(AbiFunctions) /\ NamedOnce(a.exports)
      /\ a.features \in SUBSET FeatureNames
  BY AbiFacts
<1>3. si \in Seq(AbiFunctions) /\ se \in Seq(AbiFunctions) BY <1>2, SortFacts
<1>4. ToSet(FunctionRefs(si)) \subseteq ToSet(w) /\ ToSet(FunctionRefs(se)) \subseteq ToSet(w)
  <2>1. ToSet(Roots(a)) \subseteq ToSet(w) BY <1>1 DEF Closed
  <2>2. ToSet(FunctionRefs(si)) \subseteq ToSet(FunctionRefs(a.imports))
        /\ ToSet(FunctionRefs(se)) \subseteq ToSet(FunctionRefs(a.exports))
    BY <1>2, SortFacts, SameElementsSameRefs
  <2> QED BY <2>1, <2>2, RootsFacts DEF Needs
<1>5. /\ c = [imports |-> c.imports, exports |-> c.exports, types |-> c.types,
               features |-> a.features]
      /\ c.imports = RenameFunctions(si, Positions(w))
      /\ c.exports = RenameFunctions(se, Positions(w))
      /\ c.types = [n \in D |-> RenameDefinition(a.types[w[n]], Positions(w))]
  BY CanonicalParts
<1> HIDE DEF c, w
<1>6. PICK p \in Bijections : \A id \in ToSet(w) : p[id] = Positions(w)[id]
  BY <1>1, NumberingExtends
<1>7. /\ Len(w) \in Nat /\ DOMAIN w = 1..Len(w) /\ DOMAIN w \subseteq TypeIds
      /\ ToSet(w) = {w[n] : n \in 1..Len(w)} /\ ToSet(w) \subseteq TypeIds
      /\ \A n \in 1..Len(w) : p[w[n]] = n
  <2>1. /\ Len(w) \in Nat /\ DOMAIN w = 1..Len(w)
        /\ ToSet(w) = {w[n] : n \in 1..Len(w)} /\ ToSet(w) \subseteq TypeIds
    BY <1>1, SeqFacts
  <2>2. \A n \in 1..Len(w) : p[w[n]] = n BY <2>1, <1>1, <1>6, PositionsFacts
  <2>3. 1..Len(w) \subseteq TypeIds BY <2>1, <1>1, CapFacts
  <2> QED BY <2>1, <2>2, <2>3
<1> DEFINE q == Positions(w)
           X == ToSet(w)
<1>8. \A id \in X : q[id] = p[id] /\ q[id] \in TypeIds BY <1>6, <1>7, BijectionFacts
<1> HIDE DEF q, X
<1>9. /\ RenameFunctions(si, q) = RenameFunctions(si, p)
      /\ RenameFunctions(se, q) = RenameFunctions(se, p)
      /\ \A d \in AbiDefinitions : ToSet(DefinitionRefs(d)) \subseteq X =>
            RenameDefinition(d, q) = RenameDefinition(d, p)
  <2>1. X \in SUBSET TypeIds BY <1>7 DEF X
  <2>2. ToSet(FunctionRefs(si)) \subseteq X /\ ToSet(FunctionRefs(se)) \subseteq X BY <1>4 DEF X
  <2> HIDE DEF si, se
  <2> QED BY <2>1, <2>2, <1>3, <1>8, SameNumbers
<1>10. /\ c.imports \in Seq(AbiFunctions) /\ Increasing(c.imports) /\ NamedOnce(c.imports)
       /\ ToSet(c.imports) = ToSet(RenameFunctions(a.imports, p))
       /\ c.exports \in Seq(AbiFunctions) /\ Increasing(c.exports) /\ NamedOnce(c.exports)
       /\ ToSet(c.exports) = ToSet(RenameFunctions(a.exports, p))
  BY <1>2, <1>5, <1>9, SortedUnder DEF q
<1>11. ASSUME NEW n \in D
       PROVE  /\ c.types[n] = RenameDefinition(a.types[w[n]], p)
              /\ c.types[n] \in AbiDefinitions
  <2>1. a.types[w[n]] \in AbiDefinitions BY AbiFacts
  <2>2. w[n] \in X BY <1>7 DEF X
  <2>3. ToSet(DefinitionRefs(a.types[w[n]])) \subseteq X BY <1>1, <2>2 DEF Closed, X
  <2>4. c.types[n] = RenameDefinition(a.types[w[n]], q) BY <1>5 DEF q
  <2>5. c.types[n] = RenameDefinition(a.types[w[n]], p) BY <2>1, <2>3, <2>4, <1>9
  <2> QED BY <2>1, <2>5, RenamedReferences
<1>12. DOMAIN c.types = D /\ c.types = [n \in D |-> c.types[n]] BY <1>5
<1>13. c.types \in AbiTypes
  <2>1. D \subseteq TypeIds BY <1>7
  <2> QED BY <2>1, <1>11, <1>12, TypesFacts
<1>14. WellFormed(c)
  BY <1>2, <1>5, <1>10, <1>13 DEF WellFormed, HostAbis
<1>15. Agree(a, c, p, X)
  <2> SUFFICES ASSUME NEW id \in X
               PROVE  /\ (id \in DOMAIN a.types) = (p[id] \in DOMAIN c.types)
                      /\ id \in DOMAIN a.types => RenameDefinition(a.types[id], p) = c.types[p[id]]
    BY DEF Agree
  <2>1. PICK n \in 1..Len(w) : id = w[n] BY <1>7 DEF X
  <2>2. p[id] = n BY <2>1, <1>7
  <2>3. id \in DOMAIN a.types <=> n \in D BY <2>1, <1>7
  <2> QED BY <2>1, <2>2, <2>3, <1>11, <1>12
<1>16. Matches(a, c, p) BY <1>10, <1>15 DEF Matches, X, w
<1>17. c.features = a.features BY <1>5
<1> QED BY <1>10, <1>14, <1>16, <1>17 DEF c

\* The canonical form of a canonical form is itself, so decode_lockfile accepts
\* what the tool has locked.
THEOREM CanonicalTwice ==
  ASSUME NEW a, WellFormed(a)
  PROVE  CanonicalizeHostAbi(CanonicalizeHostAbi(a)) = CanonicalizeHostAbi(a)
<1>1. /\ WellFormed(CanonicalizeHostAbi(a)) /\ CanonicalizeHostAbi(a).features = a.features
      /\ \E p \in Bijections : Matches(a, CanonicalizeHostAbi(a), p)
  BY CanonicalMatches
<1>2. PICK p \in Bijections : Matches(a, CanonicalizeHostAbi(a), p) BY <1>1
<1>3. p \in Renaming BY BijectionFacts
<1> QED BY <1>1, <1>2, <1>3, SameCanonical

\* Matching goes back.
LEMMA MatchesBack ==
  ASSUME NEW a, NEW b, WellFormed(a), WellFormed(b), NEW p \in Bijections, Matches(a, b, p)
  PROVE  Matches(b, a, Back(p)) /\ Back(p) \in Bijections
<1>1. Back(p) \in Bijections BY BijectionAlgebra
<1>2. Corresponds(a, ToSet(a.imports), ToSet(a.exports), b, ToSet(b.imports), ToSet(b.exports), p)
  BY MatchesMeans
<1>3. ToSet(a.imports) \in SUBSET AbiFunctions /\ ToSet(a.exports) \in SUBSET AbiFunctions
  BY AbiFacts, SeqFacts
<1>4. Corresponds(b, ToSet(b.imports), ToSet(b.exports), a, ToSet(a.imports), ToSet(a.exports), Back(p))
  BY <1>2, <1>3, CorrespondsBack
<1> QED BY <1>1, <1>4, MatchesMeans

\* Matching goes on.
LEMMA MatchesOn ==
  ASSUME NEW a, NEW b, NEW c, WellFormed(a), WellFormed(b), WellFormed(c),
         NEW p \in Bijections, NEW q \in Bijections, Matches(a, b, p), Matches(b, c, q)
  PROVE  Matches(a, c, After(p, q)) /\ After(p, q) \in Bijections
<1>1. After(p, q) \in Bijections BY BijectionAlgebra
<1>2. /\ Corresponds(a, ToSet(a.imports), ToSet(a.exports), b, ToSet(b.imports), ToSet(b.exports), p)
      /\ Corresponds(b, ToSet(b.imports), ToSet(b.exports), c, ToSet(c.imports), ToSet(c.exports), q)
  BY MatchesMeans
<1>3. ToSet(a.imports) \in SUBSET AbiFunctions /\ ToSet(a.exports) \in SUBSET AbiFunctions
  BY AbiFacts, SeqFacts
<1>4. Corresponds(a, ToSet(a.imports), ToSet(a.exports), c, ToSet(c.imports), ToSet(c.exports), After(p, q))
  BY <1>2, <1>3, CorrespondsOn
<1> QED BY <1>1, <1>4, MatchesMeans

\* Two ABIs match under some correspondence.
Alike(a, b) == \E p \in Bijections : Matches(a, b, p)

\* Two ABIs have one canonical form exactly when some correspondence of type
\* numbers matches them: a fingerprint says all there is to say.
THEOREM AlikeExactly ==
  ASSUME NEW a, NEW b, WellFormed(a), WellFormed(b), a.features = b.features
  PROVE  Alike(a, b) <=> CanonicalizeHostAbi(a) = CanonicalizeHostAbi(b)
<1> DEFINE c == CanonicalizeHostAbi(a)
           d == CanonicalizeHostAbi(b)
<1>1. ASSUME Alike(a, b) PROVE c = d
  <2>1. PICK p \in Bijections : Matches(a, b, p) BY <1>1 DEF Alike
  <2> QED BY <2>1, BijectionFacts, SameCanonical
<1>2. ASSUME c = d PROVE Alike(a, b)
  <2>1. WellFormed(c) /\ Alike(a, c) /\ Alike(b, d) BY CanonicalMatches DEF Alike
  <2> HIDE DEF c, d
  <2>2. PICK p \in Bijections : Matches(a, c, p) BY <2>1 DEF Alike
  <2>3. PICK q \in Bijections : Matches(b, c, q) BY <2>1, <1>2 DEF Alike
  <2>4. Matches(c, b, Back(q)) /\ Back(q) \in Bijections BY <2>1, <2>3, MatchesBack
  <2>5. Matches(a, b, After(p, Back(q))) /\ After(p, Back(q)) \in Bijections
    BY <2>1, <2>2, <2>4, MatchesOn
  <2> QED BY <2>5 DEF Alike
<1> QED BY <1>1, <1>2

-----------------------------------------------------------------------------
(* The comparison.                                                         *)

\* The keys that functions declare.
LEMMA DeclaredFacts ==
  ASSUME NEW fs \in Seq(AbiFunctions)
  PROVE  /\ \A key : key \in Declared(fs) <=> \E f \in ToSet(fs) : f.key = key
         /\ \A f \in ToSet(fs) : f \in AbiFunctions /\ f.key \in Declared(fs)
<1>1. /\ DOMAIN fs = 1..Len(fs) /\ ToSet(fs) = {fs[n] : n \in 1..Len(fs)}
      /\ \A n \in 1..Len(fs) : fs[n] \in AbiFunctions
  BY SeqFacts
<1>2. \A f : f \in ToSet(fs) <=> \E n \in 1..Len(fs) : f = fs[n] BY <1>1
<1> HIDE DEF ToSet
<1> QED BY <1>1, <1>2 DEF Declared

\* Find finds the function of a name that occurs once.
LEMMA FindFacts ==
  ASSUME NEW fs \in Seq(AbiFunctions), NamedOnce(fs), NEW f \in ToSet(fs)
  PROVE  Find(fs, f.key) = f
<1> DEFINE I == {i \in 1..Len(fs) : fs[i].key = f.key}
<1>1. /\ Len(fs) \in Nat /\ DOMAIN fs = 1..Len(fs) /\ ToSet(fs) = {fs[n] : n \in 1..Len(fs)}
      /\ \A i, j \in 1..Len(fs) : fs[i].key = fs[j].key => i = j
  BY SeqFacts, NamedFacts
<1>2. PICK n \in 1..Len(fs) : f = fs[n] BY <1>1
<1>3. I = {n} BY <1>1, <1>2
<1>4. SelectInSeq(fs, LAMBDA g : g.key = f.key) = Min(I)
  <2>1. I # {} BY <1>3
  <2> QED BY <2>1 DEF SelectInSeq
<1>5. Min(I) = n BY <1>1, <1>3 DEF Min
<1>6. Find(fs, f.key) = fs[SelectInSeq(fs, LAMBDA g : g.key = f.key)] BY DEF Find
<1> QED BY <1>2, <1>4, <1>5, <1>6

\* A signature changes for one of the functions.
LEMMA SignatureMeans ==
  ASSUME NEW fs \in Seq(AbiFunctions), NEW gs \in Seq(AbiFunctions)
  PROVE  SignatureChange(fs, gs) <=>
            \E f \in ToSet(fs) :
               /\ f.key \in Declared(gs)
               /\ f.params # Find(gs, f.key).params \/ f.results # Find(gs, f.key).results
<1>1. DOMAIN fs = 1..Len(fs) /\ ToSet(fs) = {fs[n] : n \in 1..Len(fs)} BY SeqFacts
<1>2. \A f : f \in ToSet(fs) <=> \E n \in DOMAIN fs : f = fs[n] BY <1>1
<1> HIDE DEF ToSet, Find
<1> QED BY <1>2 DEF SignatureChange

\* A list has no signature change with itself.
LEMMA SameHasNoChange ==
  ASSUME NEW fs \in Seq(AbiFunctions), NamedOnce(fs)
  PROVE  ~SignatureChange(fs, fs)
BY SignatureMeans, FindFacts

\* Sorted lists that declare the same keys with the same signatures are equal.
LEMMA NoChangeIsSame ==
  ASSUME NEW fs \in Seq(AbiFunctions), NEW gs \in Seq(AbiFunctions),
         Increasing(fs), Increasing(gs), Declared(fs) = Declared(gs),
         ~SignatureChange(fs, gs)
  PROVE  fs = gs
<1>1. NamedOnce(fs) /\ NamedOnce(gs) BY IncreasingNamed
<1>2. ASSUME NEW f \in AbiFunctions, NEW g \in AbiFunctions, f.key = g.key,
             f.params = g.params, f.results = g.results
      PROVE  f = g
  <2>1. ASSUME NEW h \in AbiFunctions
        PROVE  h = [key |-> h.key, params |-> h.params, results |-> h.results]
    BY DEF AbiFunctions
  <2>2. /\ f = [key |-> f.key, params |-> f.params, results |-> f.results]
        /\ g = [key |-> g.key, params |-> g.params, results |-> g.results]
    BY <2>1
  <2> QED BY <2>2, <1>2
<1>3. ASSUME NEW f \in ToSet(fs), NEW g \in ToSet(gs), f.key = g.key PROVE f = g
  <2>1. f \in AbiFunctions /\ g \in AbiFunctions /\ g.key \in Declared(gs) BY DeclaredFacts
  <2>2. Find(gs, f.key) = g BY <1>1, <1>3, FindFacts
  <2>3. f.params = g.params /\ f.results = g.results BY <2>1, <2>2, <1>3, SignatureMeans
  <2> QED BY <2>1, <2>3, <1>2, <1>3
<1>4. \A f \in ToSet(fs) : \E g \in ToSet(gs) : f.key = g.key
  <2> TAKE f \in ToSet(fs)
  <2>1. f.key \in Declared(gs) BY DeclaredFacts
  <2> QED BY <2>1, DeclaredFacts
<1>5. \A g \in ToSet(gs) : \E f \in ToSet(fs) : f.key = g.key
  <2> TAKE g \in ToSet(gs)
  <2>1. g.key \in Declared(fs) BY DeclaredFacts
  <2> QED BY <2>1, DeclaredFacts
<1>6. ToSet(fs) = ToSet(gs)
  <2>1. ASSUME NEW f \in ToSet(fs) PROVE f \in ToSet(gs) BY <1>3, <1>4
  <2>2. ASSUME NEW g \in ToSet(gs) PROVE g \in ToSet(fs)
    <3>1. PICK f \in ToSet(fs) : f.key = g.key BY <1>5
    <3>2. f = g BY <3>1, <1>3
    <3> QED BY <3>2
  <2> QED BY <2>1, <2>2
<1> QED BY <1>6, SortedEqual

\* Under a matching, the same functions are declared.
LEMMA MatchesDeclares ==
  ASSUME NEW a, NEW b, WellFormed(a), WellFormed(b), Alike(a, b)
  PROVE  Declared(a.imports) = Declared(b.imports) /\ Declared(a.exports) = Declared(b.exports)
<1>1. PICK p \in Bijections : Matches(a, b, p) BY DEF Alike
<1>2. ASSUME NEW fs \in Seq(AbiFunctions), NEW gs \in Seq(AbiFunctions),
             ToSet(RenameFunctions(fs, p)) = ToSet(gs)
      PROVE  Declared(fs) = Declared(gs)
  <2>1. ToSet(gs) = {RenameFunction(f, p) : f \in ToSet(fs)} BY <1>2, BijectionFacts, FunctionsUnder
  <2>2. \A f \in ToSet(fs) : RenameFunction(f, p).key = f.key BY MapFacts, DeclaredFacts
  <2>3. \A key : key \in Declared(fs) <=> \E f \in ToSet(fs) : f.key = key BY DeclaredFacts
  <2>4. \A key : key \in Declared(gs) <=> \E f \in ToSet(gs) : f.key = key BY DeclaredFacts
  <2>5. \A key : key \in Declared(gs) <=> \E f \in ToSet(fs) : f.key = key
    <3> HIDE DEF ToSet
    <3> QED BY <2>1, <2>2, <2>4
  <2> QED BY <2>3, <2>5
<1> QED BY <1>1, <1>2, AbiFacts DEF Matches

\* Common functions are declared by both.
LEMMA CommonDeclares ==
  ASSUME NEW fs \in Seq(AbiFunctions), NamedOnce(fs), NEW gs
  PROVE  Declared(Common(fs, gs)) = Declared(fs) \cap Declared(gs)
<1>1. /\ Common(fs, gs) \in Seq(AbiFunctions) /\ ToSet(Common(fs, gs)) = CommonOf(fs, gs)
  BY CommonFacts
<1>2. \A key : key \in Declared(Common(fs, gs)) <=> \E f \in CommonOf(fs, gs) : f.key = key
  BY <1>1, DeclaredFacts
<1>3. \A key : key \in Declared(fs) <=> \E f \in ToSet(fs) : f.key = key BY DeclaredFacts
<1> QED BY <1>2, <1>3 DEF CommonOf

\* The comparison of canonical common surfaces finds a change exactly when no
\* correspondence of type numbers matches the surfaces (diff.mbt).
LEMMA CommonChange ==
  ASSUME NEW a, NEW b, WellFormed(a), WellFormed(b)
  PROVE  BreakingCommonChange(CanonicalizeHostAbi(CommonSurface(a, b)),
                              CanonicalizeHostAbi(CommonSurface(b, a)))
            <=> ~Alike(CommonSurface(a, b), CommonSurface(b, a))
<1> DEFINE x == CommonSurface(a, b)
           y == CommonSurface(b, a)
           c == CanonicalizeHostAbi(x)
           d == CanonicalizeHostAbi(y)
<1>1. /\ WellFormed(x) /\ x.features = {} /\ x.imports = Common(a.imports, b.imports)
      /\ x.exports = Common(a.exports, b.exports)
      /\ WellFormed(y) /\ y.features = {} /\ y.imports = Common(b.imports, a.imports)
      /\ y.exports = Common(b.exports, a.exports)
  BY CommonSurfaceFacts
<1>2. /\ Declared(x.imports) = Declared(a.imports) \cap Declared(b.imports)
      /\ Declared(x.exports) = Declared(a.exports) \cap Declared(b.exports)
      /\ Declared(y.imports) = Declared(b.imports) \cap Declared(a.imports)
      /\ Declared(y.exports) = Declared(b.exports) \cap Declared(a.exports)
  BY <1>1, AbiFacts, CommonDeclares
<1> HIDE DEF x, y
<1>3. /\ WellFormed(c) /\ c.features = {} /\ Increasing(c.imports) /\ Increasing(c.exports)
      /\ Alike(x, c)
      /\ WellFormed(d) /\ d.features = {} /\ Increasing(d.imports) /\ Increasing(d.exports)
      /\ Alike(y, d)
  BY <1>1, CanonicalMatches DEF Alike
<1>4. Alike(x, y) <=> c = d BY <1>1, AlikeExactly
<1> HIDE DEF c, d
<1>5. /\ Declared(c.imports) = Declared(x.imports) /\ Declared(c.exports) = Declared(x.exports)
      /\ Declared(d.imports) = Declared(y.imports) /\ Declared(d.exports) = Declared(y.exports)
  BY <1>1, <1>3, MatchesDeclares
<1>6. /\ c.imports \in Seq(AbiFunctions) /\ c.exports \in Seq(AbiFunctions)
      /\ d.imports \in Seq(AbiFunctions) /\ d.exports \in Seq(AbiFunctions)
      /\ NamedOnce(c.imports) /\ NamedOnce(c.exports)
  BY <1>3, AbiFacts
<1>7. ASSUME c = d PROVE ~BreakingCommonChange(c, d)
  BY <1>6, <1>7, SameHasNoChange DEF BreakingCommonChange
<1>8. ASSUME ~BreakingCommonChange(c, d) PROVE c = d
  <2>1. c.imports = d.imports /\ c.exports = d.exports
    BY <1>2, <1>3, <1>5, <1>6, <1>8, NoChangeIsSame DEF BreakingCommonChange
  <2>2. c.types = d.types BY <1>8 DEF BreakingCommonChange
  <2>3. c \in HostAbis /\ d \in HostAbis BY <1>3 DEF WellFormed
  <2>4. ASSUME NEW h \in HostAbis
        PROVE  h = [imports |-> h.imports, exports |-> h.exports,
                    types |-> h.types, features |-> h.features]
    BY DEF HostAbis
  <2>5. /\ c = [imports |-> c.imports, exports |-> c.exports,
                 types |-> c.types, features |-> c.features]
        /\ d = [imports |-> d.imports, exports |-> d.exports,
                 types |-> d.types, features |-> d.features]
    BY <2>3, <2>4
  <2> QED BY <2>1, <2>2, <2>5, <1>3
<1> QED BY <1>4, <1>7, <1>8 DEF x, y, c, d

\* What functions reach.
LEMMA ReachableLeads ==
  ASSUME NEW abi, NEW fs
  PROVE  Reachable(abi, fs) = Leads(abi, ToSet(FunctionRefs(fs)))
BY DEF Reachable, Leads, ClosedIn

\* Only definitions matter to what types lead to.
LEMMA SameTypesLead ==
  ASSUME NEW a, NEW b, a.types = b.types, NEW S
  PROVE  Leads(a, S) = Leads(b, S)
BY DEF Leads, ClosedIn

\* Common functions reach what the worklist of the common surface holds.
LEMMA CommonReach ==
  ASSUME NEW a, NEW b, WellFormed(a), WellFormed(b)
  PROVE  /\ Reachable(a, CommonFunctions(a, b)) = ToSet(Worklist(CommonSurface(a, b)))
         /\ Reachable(a, CommonFunctions(a, b)) =
               Leads(a, RefsOf(CommonOf(a.imports, b.imports) \cup CommonOf(a.exports, b.exports)))
<1> DEFINE x == CommonSurface(a, b)
           i == Common(a.imports, b.imports)
           e == Common(a.exports, b.exports)
<1>1. /\ WellFormed(x) /\ x.types = a.types /\ x.imports = i /\ x.exports = e
      /\ ToSet(i) = CommonOf(a.imports, b.imports) /\ ToSet(e) = CommonOf(a.exports, b.exports)
  BY CommonSurfaceFacts
<1> HIDE DEF x, i, e
<1>2. i \in Seq(AbiFunctions) /\ e \in Seq(AbiFunctions) BY <1>1, AbiFacts
<1>3. ToSet(FunctionRefs(i \o e)) = Needs(x) BY <1>1, <1>2, FunctionRefsConcat DEF Needs
<1>4. Reachable(a, i \o e) = Leads(x, Needs(x)) BY <1>1, <1>3, ReachableLeads, SameTypesLead
<1>5. CommonFunctions(a, b) = i \o e BY DEF CommonFunctions, i, e
<1>6. /\ RefsOf(ToSet(x.imports) \cup ToSet(x.exports)) = Needs(x)
      /\ Leads(x, Needs(x)) = ToSet(Worklist(x))
  BY <1>1, WorklistLeads
<1>7. Leads(x, Needs(x)) = Leads(a, Needs(x)) BY <1>1, SameTypesLead
<1> QED BY <1>1, <1>4, <1>5, <1>6, <1>7 DEF x

\* The common functions of two ABIs are the same exactly when the common
\* surfaces match.
LEMMA SameMeans ==
  ASSUME NEW a, NEW b, WellFormed(a), WellFormed(b)
  PROVE  SameWhereBothAre(a, b) <=> Alike(CommonSurface(a, b), CommonSurface(b, a))
<1> DEFINE x == CommonSurface(a, b)
           y == CommonSurface(b, a)
<1>1. /\ x.types = a.types /\ y.types = b.types
      /\ x.imports = Common(a.imports, b.imports) /\ x.exports = Common(a.exports, b.exports)
      /\ y.imports = Common(b.imports, a.imports) /\ y.exports = Common(b.exports, a.exports)
  BY CommonSurfaceFacts
<1>2. Reachable(a, CommonFunctions(a, b)) = ToSet(Worklist(x)) BY CommonReach
<1> HIDE DEF x, y
<1>3. SameWhereBothAre(a, b) <=> \E p \in Bijections : Matches(x, y, p)
  BY <1>1, <1>2 DEF SameWhereBothAre, Bijections, Matches, Agree
<1> QED BY <1>3 DEF Alike, x, y

\* The same with sets of functions, for composing.
SharedBy(a, b, p) ==
    Corresponds(a, CommonOf(a.imports, b.imports), CommonOf(a.exports, b.exports),
                b, CommonOf(b.imports, a.imports), CommonOf(b.exports, a.exports), p)

\* The same as a correspondence of sets of functions.
LEMMA SharedMeans ==
  ASSUME NEW a, NEW b, WellFormed(a), WellFormed(b)
  PROVE  SameWhereBothAre(a, b) <=> \E p \in Bijections : SharedBy(a, b, p)
<1>1. /\ Common(a.imports, b.imports) \in Seq(AbiFunctions)
      /\ Common(a.exports, b.exports) \in Seq(AbiFunctions)
      /\ ToSet(Common(a.imports, b.imports)) = CommonOf(a.imports, b.imports)
      /\ ToSet(Common(a.exports, b.exports)) = CommonOf(a.exports, b.exports)
      /\ ToSet(Common(b.imports, a.imports)) = CommonOf(b.imports, a.imports)
      /\ ToSet(Common(b.exports, a.exports)) = CommonOf(b.exports, a.exports)
  BY AbiFacts, CommonFacts
<1>2. ASSUME NEW p \in Bijections
      PROVE  /\ ToSet(RenameFunctions(Common(a.imports, b.imports), p)) =
                    Maps(CommonOf(a.imports, b.imports), p)
             /\ ToSet(RenameFunctions(Common(a.exports, b.exports), p)) =
                    Maps(CommonOf(a.exports, b.exports), p)
  BY <1>1, BijectionFacts, FunctionsUnder DEF Maps
<1>3. Reachable(a, CommonFunctions(a, b)) =
               Leads(a, RefsOf(CommonOf(a.imports, b.imports) \cup CommonOf(a.exports, b.exports)))
  BY CommonReach
<1>4. ASSUME NEW p \in Bijections
      PROVE  SharedBy(a, b, p) <=>
               /\ ToSet(RenameFunctions(Common(a.imports, b.imports), p)) =
                      ToSet(Common(b.imports, a.imports))
               /\ ToSet(RenameFunctions(Common(a.exports, b.exports), p)) =
                      ToSet(Common(b.exports, a.exports))
               /\ Agree(a, b, p, Reachable(a, CommonFunctions(a, b)))
  BY <1>1, <1>2, <1>3 DEF SharedBy, Corresponds
<1> QED BY <1>4 DEF SameWhereBothAre, Agree, Bijections

\* A host works with the release it was written against.
LEMMA UsableItself ==
  ASSUME NEW a, WellFormed(a)
  PROVE  Usable(a, a)
<1>1. CommonOf(a.imports, a.imports) \in SUBSET AbiFunctions
      /\ CommonOf(a.exports, a.exports) \in SUBSET AbiFunctions
  BY AbiFacts, SeqFacts DEF CommonOf
<1>2. SharedBy(a, a, Identity) BY <1>1, CorrespondsItself DEF SharedBy
<1> QED BY <1>2, BijectionAlgebra, SharedMeans DEF Usable

\* Nothing is breaking between an ABI and itself.
LEMMA NothingBreaks ==
  ASSUME NEW a, WellFormed(a)
  PROVE  ~BreakingFound(a, a, "semantic")
<1>1. ~BreakingSurfaceChange(a, a, "semantic") BY DEF BreakingSurfaceChange, OnlyIn
<1> QED BY <1>1, CommonChange, SameMeans, UsableItself DEF BreakingFound, Usable

\* Everything of a and b is common to them when they match.
LEMMA UsableAlike ==
  ASSUME NEW a, NEW b, WellFormed(a), WellFormed(b), Alike(a, b)
  PROVE  Usable(a, b)
<1>1. PICK p \in Bijections : Matches(a, b, p) BY DEF Alike
<1>2. Declared(a.imports) = Declared(b.imports) /\ Declared(a.exports) = Declared(b.exports)
  BY MatchesDeclares
<1>3. ASSUME NEW fs \in Seq(AbiFunctions), NEW gs, Declared(fs) = Declared(gs)
      PROVE  CommonOf(fs, gs) = ToSet(fs)
  BY <1>3, DeclaredFacts DEF CommonOf
<1>4. /\ CommonOf(a.imports, b.imports) = ToSet(a.imports)
      /\ CommonOf(a.exports, b.exports) = ToSet(a.exports)
      /\ CommonOf(b.imports, a.imports) = ToSet(b.imports)
      /\ CommonOf(b.exports, a.exports) = ToSet(b.exports)
  BY <1>2, <1>3, AbiFacts
<1>5. SharedBy(a, b, p) BY <1>1, <1>4, MatchesMeans DEF SharedBy
<1> QED BY <1>2, <1>5, SharedMeans DEF Usable

\* What works with each of two releases in turn works with the second.
LEMMA UsableOn ==
  ASSUME NEW a, NEW b, NEW c, WellFormed(a), WellFormed(b), WellFormed(c),
         Usable(a, b), Usable(b, c)
  PROVE  Usable(a, c)
<1>1. PICK p \in Bijections : SharedBy(a, b, p) BY SharedMeans DEF Usable
<1>2. PICK q \in Bijections : SharedBy(b, c, q) BY SharedMeans DEF Usable
<1>3. /\ Declared(c.imports) \subseteq Declared(b.imports)
      /\ Declared(b.imports) \subseteq Declared(a.imports)
      /\ Declared(a.exports) \subseteq Declared(b.exports)
      /\ Declared(b.exports) \subseteq Declared(c.exports)
  BY DEF Usable
<1> DEFINE I == CommonOf(a.imports, b.imports)
           E == CommonOf(a.exports, b.exports)
           J == CommonOf(b.imports, a.imports)
           H == CommonOf(b.exports, a.exports)
           I2 == CommonOf(a.imports, c.imports)
           E2 == CommonOf(a.exports, c.exports)
           J2 == CommonOf(b.imports, c.imports)
           H2 == H
           K2 == CommonOf(c.imports, a.imports)
           M2 == CommonOf(c.exports, a.exports)
<1>4. ASSUME NEW fs \in Seq(AbiFunctions), NEW gs PROVE CommonOf(fs, gs) \in SUBSET AbiFunctions
  BY SeqFacts DEF CommonOf
<1>5. /\ a.imports \in Seq(AbiFunctions) /\ a.exports \in Seq(AbiFunctions)
      /\ b.imports \in Seq(AbiFunctions) /\ b.exports \in Seq(AbiFunctions)
      /\ c.imports \in Seq(AbiFunctions) /\ c.exports \in Seq(AbiFunctions)
  BY AbiFacts
<1>6. /\ I \in SUBSET AbiFunctions /\ E \in SUBSET AbiFunctions
      /\ J2 \in SUBSET AbiFunctions /\ CommonOf(b.exports, c.exports) \in SUBSET AbiFunctions
  BY <1>4, <1>5
<1>7. ASSUME NEW r \in Bijections, NEW F \in SUBSET AbiFunctions, NEW S
      PROVE  Maps({f \in F : f.key \in S}, r) = {g \in Maps(F, r) : g.key \in S}
  <2>1. \A f \in F : RenameFunction(f, r).key = f.key BY MapFacts
  <2> QED BY <2>1 DEF Maps
<1>8. I2 = {f \in I : f.key \in Declared(c.imports)} /\ J2 = {f \in J : f.key \in Declared(c.imports)}
  BY <1>3, <1>5, DeclaredFacts DEF CommonOf
<1>9. E2 = E /\ CommonOf(a.exports, b.exports) = ToSet(a.exports)
  BY <1>3, <1>5, DeclaredFacts DEF CommonOf
<1>10. Maps(I, p) = J /\ Maps(E, p) = H BY <1>1 DEF SharedBy, Corresponds
<1>11. Maps(I2, p) = J2 /\ Maps(E2, p) = H
  <2> HIDE DEF I, E, J, H, I2, E2, J2
  <2>1. Maps({f \in I : f.key \in Declared(c.imports)}, p)
            = {g \in Maps(I, p) : g.key \in Declared(c.imports)}
    BY <1>6, <1>7
  <2> QED BY <2>1, <1>8, <1>9, <1>10
<1>12. Corresponds(a, I2, E2, b, J2, H, p)
  <2>1. I2 \in SUBSET I /\ E2 \in SUBSET E BY <1>8, <1>9
  <2>2. Corresponds(a, I, E, b, J, H, p) BY <1>1 DEF SharedBy
  <2> HIDE DEF I, E, J, H, I2, E2, J2
  <2>3. Corresponds(a, I2, E2, b, Maps(I2, p), Maps(E2, p), p)
    BY <2>1, <2>2, <1>6, CorrespondsPartly
  <2> QED BY <2>3, <1>11
<1>13. CommonOf(b.imports, c.imports) = J2 /\ Maps(J2, q) = CommonOf(c.imports, b.imports)
       /\ Maps(CommonOf(b.exports, c.exports), q) = CommonOf(c.exports, b.exports)
  BY <1>2 DEF SharedBy, Corresponds
<1>14. K2 = CommonOf(c.imports, b.imports)
  BY <1>3, <1>5, DeclaredFacts DEF CommonOf
<1>15. H = {f \in CommonOf(b.exports, c.exports) : f.key \in Declared(a.exports)}
  BY <1>3, <1>5, DeclaredFacts DEF CommonOf
<1>16. M2 = {f \in CommonOf(c.exports, b.exports) : f.key \in Declared(a.exports)}
  BY <1>3, <1>5, DeclaredFacts DEF CommonOf
<1>17. Maps(J2, q) = K2 /\ Maps(H, q) = M2
  <2> DEFINE G == CommonOf(b.exports, c.exports)
             M == CommonOf(c.exports, b.exports)
  <2>1. G \in SUBSET AbiFunctions /\ Maps(G, q) = M BY <1>6, <1>13
  <2>2. H = {f \in G : f.key \in Declared(a.exports)} BY <1>15
  <2>3. M2 = {f \in M : f.key \in Declared(a.exports)} BY <1>16
  <2> HIDE DEF G, M, H, M2, J2, K2
  <2>4. Maps({f \in G : f.key \in Declared(a.exports)}, q)
            = {g \in Maps(G, q) : g.key \in Declared(a.exports)}
    BY <2>1, <1>7
  <2> QED BY <2>1, <2>2, <2>3, <2>4, <1>13, <1>14
<1>18. Corresponds(b, J2, H, c, K2, M2, q)
  <2> DEFINE G == CommonOf(b.exports, c.exports)
  <2>1. J2 \in SUBSET J2 /\ H \in SUBSET G BY <1>15
  <2>2. Corresponds(b, J2, G, c, CommonOf(c.imports, b.imports), CommonOf(c.exports, b.exports), q)
    BY <1>2 DEF SharedBy
  <2>3. J2 \in SUBSET AbiFunctions /\ G \in SUBSET AbiFunctions BY <1>6
  <2> HIDE DEF H, J2, G, K2, M2
  <2>4. Corresponds(b, J2, H, c, Maps(J2, q), Maps(H, q), q)
    BY <2>1, <2>2, <2>3, CorrespondsPartly
  <2> QED BY <2>4, <1>17
<1>19. SharedBy(a, c, After(p, q))
  <2>1. I2 \in SUBSET AbiFunctions /\ E2 \in SUBSET AbiFunctions BY <1>4, <1>5
  <2>2. Corresponds(a, I2, E2, c, K2, M2, After(p, q))
    <3> HIDE DEF I2, E2, J2, H, K2, M2
    <3> QED BY <2>1, <1>12, <1>18, CorrespondsOn
  <2> QED BY <2>2 DEF SharedBy
<1>20. After(p, q) \in Bijections BY BijectionAlgebra
<1> QED BY <1>3, <1>19, <1>20, SharedMeans DEF Usable

-----------------------------------------------------------------------------
(* What is understood.                                                     *)

\* A value that the comparison does not know.
Unclear(values) == \E v \in ToSet(values) : v.type = "unknown"

\* Renaming makes no value known and none unknown.
LEMMA UnclearKept ==
  ASSUME NEW vs \in Seq(AbiValues), NEW q
  PROVE  Unclear(RenameValues(vs, q)) <=> Unclear(vs)
<1>1. /\ DOMAIN vs = 1..Len(vs) /\ ToSet(vs) = {vs[n] : n \in 1..Len(vs)}
      /\ \A n \in 1..Len(vs) : vs[n] \in AbiValues
  BY SeqFacts
<1>2. ASSUME NEW v \in AbiValues PROVE RenameValue(v, q).type = v.type
  BY DEF RenameValue, AbiValues
<1>3. ToSet(RenameValues(vs, q)) = {RenameValue(vs[n], q) : n \in 1..Len(vs)}
  BY <1>1 DEF RenameValues, ToSet
<1>4. Unclear(vs) <=> \E n \in 1..Len(vs) : vs[n].type = "unknown" BY <1>1 DEF Unclear
<1>5. Unclear(RenameValues(vs, q)) <=> \E n \in 1..Len(vs) : RenameValue(vs[n], q).type = "unknown"
  BY <1>3 DEF Unclear
<1> QED BY <1>1, <1>2, <1>4, <1>5

\* A function with an unknown value.
UnclearFunction(f) == Unclear(f.params) \/ Unclear(f.results)

\* A list with an unknown value has a function with one.
LEMMA UnknownMeans ==
  ASSUME NEW fs \in Seq(AbiFunctions)
  PROVE  UnknownIn(fs) <=> \E f \in ToSet(fs) : UnclearFunction(f)
<1>1. /\ DOMAIN fs = 1..Len(fs) /\ ToSet(fs) = {fs[n] : n \in 1..Len(fs)}
      /\ \A n \in 1..Len(fs) : fs[n] \in AbiFunctions
  BY SeqFacts
<1>2. ASSUME NEW f \in AbiFunctions
      PROVE  (\E v \in ToSet(f.params \o f.results) : v.type = "unknown") <=> UnclearFunction(f)
  <2>1. f.params \in Seq(AbiValues) /\ f.results \in Seq(AbiValues) BY DEF AbiFunctions
  <2>2. ToSet(f.params \o f.results) = ToSet(f.params) \cup ToSet(f.results)
    BY <2>1, ToSetConcat
  <2> QED BY <2>2 DEF UnclearFunction, Unclear
<1>3. UnknownIn(fs) <=> \E n \in 1..Len(fs) : UnclearFunction(fs[n])
  BY <1>1, <1>2 DEF UnknownIn
<1> QED BY <1>1, <1>3

\* Renamed and reordered functions have unknown values where the others have.
LEMMA UnknownKept ==
  ASSUME NEW fs \in Seq(AbiFunctions), NEW gs \in Seq(AbiFunctions), NEW q,
         ToSet(gs) = {RenameFunction(f, q) : f \in ToSet(fs)}
  PROVE  UnknownIn(gs) <=> UnknownIn(fs)
<1>1. ASSUME NEW f \in AbiFunctions
      PROVE  UnclearFunction(RenameFunction(f, q)) <=> UnclearFunction(f)
  <2>1. f.params \in Seq(AbiValues) /\ f.results \in Seq(AbiValues) BY DEF AbiFunctions
  <2>2. /\ RenameFunction(f, q).params = RenameValues(f.params, q)
        /\ RenameFunction(f, q).results = RenameValues(f.results, q)
    BY DEF RenameFunction, AbiFunctions
  <2> QED BY <2>1, <2>2, UnclearKept DEF UnclearFunction
<1>2. \A f \in ToSet(fs) : f \in AbiFunctions BY SeqFacts
<1> HIDE DEF ToSet
<1>3. (\E g \in ToSet(gs) : UnclearFunction(g)) <=>
         \E f \in ToSet(fs) : UnclearFunction(RenameFunction(f, q))
  OBVIOUS
<1> QED BY <1>1, <1>2, <1>3, UnknownMeans

\* A definition with an unknown value.
UnclearDefinition(d) == Unclear(Storages(d))

\* An ABI is understood exactly when its features are supported and its
\* canonical form has no unknown value.
LEMMA UnderstoodMeans ==
  ASSUME NEW a, WellFormed(a)
  PROVE  Understood(a) <=> a.features \subseteq SupportedFeatures /\ ~UnknownValue(a)
<1> DEFINE w == Worklist(a)
           c == CanonicalizeHostAbi(a)
           si == SortAbiFunctions(a.imports)
           se == SortAbiFunctions(a.exports)
           q == Positions(w)
           D == {m \in DOMAIN w : w[m] \in DOMAIN a.types}
           fs == a.imports \o a.exports
<1>1. /\ a.imports \in Seq(AbiFunctions) /\ NamedOnce(a.imports)
      /\ a.exports \in Seq(AbiFunctions) /\ NamedOnce(a.exports)
  BY AbiFacts
<1>2. /\ si \in Seq(AbiFunctions) /\ ToSet(si) = ToSet(a.imports)
      /\ se \in Seq(AbiFunctions) /\ ToSet(se) = ToSet(a.exports)
  BY <1>1, SortFacts
<1>3. w \in Seq(TypeIds) /\ Distinct(w) /\ Len(w) <= Cap /\ Closed(ToSet(w), a)
  BY RootsFacts, WorklistFacts
<1>4. /\ c.imports = RenameFunctions(si, q) /\ c.exports = RenameFunctions(se, q)
      /\ c.types = [n \in D |-> RenameDefinition(a.types[w[n]], q)]
      /\ c.imports \in Seq(AbiFunctions) /\ c.exports \in Seq(AbiFunctions)
  BY CanonicalParts, CanonicalMatches, AbiFacts
<1>5. /\ DOMAIN w = 1..Len(w) /\ ToSet(w) = {w[n] : n \in 1..Len(w)}
      /\ \A id \in ToSet(w) : q[id] \in TypeIds
  BY <1>3, SeqFacts, PositionsFacts
<1>6. fs \in Seq(AbiFunctions) /\ ToSet(fs) = ToSet(a.imports) \cup ToSet(a.exports)
  BY <1>1, ToSetConcat, FunctionRefsConcat
<1>7. Reachable(a, fs) = ToSet(w)
  <2>1. ToSet(FunctionRefs(fs)) = Needs(a) BY <1>1, FunctionRefsConcat DEF Needs
  <2> QED BY <2>1, ReachableLeads, WorklistLeads
<1>8. /\ ToSet(c.imports) = {RenameFunction(f, q) : f \in ToSet(si)}
      /\ ToSet(c.exports) = {RenameFunction(f, q) : f \in ToSet(se)}
  <2>1. ToSet(FunctionRefs(si)) \subseteq ToSet(w) /\ ToSet(FunctionRefs(se)) \subseteq ToSet(w)
    <3>1. ToSet(Roots(a)) \subseteq ToSet(w) BY <1>3 DEF Closed
    <3>2. ToSet(FunctionRefs(si)) \subseteq ToSet(FunctionRefs(a.imports))
          /\ ToSet(FunctionRefs(se)) \subseteq ToSet(FunctionRefs(a.exports))
      BY <1>1, <1>2, SameElementsSameRefs
    <3> QED BY <3>1, <3>2, RootsFacts DEF Needs
  <2>2. /\ \A id \in ToSet(FunctionRefs(si)) : q[id] \in TypeIds
        /\ \A id \in ToSet(FunctionRefs(se)) : q[id] \in TypeIds
    BY <2>1, <1>5
  <2> HIDE DEF si, se, q
  <2> QED BY <2>2, <1>2, <1>4, FunctionsRenamed
<1> HIDE DEF c, w, si, se, q, fs
<1>9. UnknownIn(c.imports) <=> UnknownIn(si)
  BY <1>2, <1>4, <1>8, UnknownKept
<1>10. UnknownIn(c.exports) <=> UnknownIn(se)
  BY <1>2, <1>4, <1>8, UnknownKept
<1>11. UnknownIn(fs) <=> UnknownIn(c.imports) \/ UnknownIn(c.exports)
  <2>1. UnknownIn(fs) <=> \E f \in ToSet(fs) : UnclearFunction(f) BY <1>6, UnknownMeans
  <2>2. UnknownIn(si) <=> \E f \in ToSet(si) : UnclearFunction(f) BY <1>2, UnknownMeans
  <2>3. UnknownIn(se) <=> \E f \in ToSet(se) : UnclearFunction(f) BY <1>2, UnknownMeans
  <2> HIDE DEF ToSet
  <2> QED BY <2>1, <2>2, <2>3, <1>2, <1>6, <1>9, <1>10
<1>12. ASSUME NEW n \in D
       PROVE  UnclearDefinition(c.types[n]) <=> UnclearDefinition(a.types[w[n]])
  <2>1. a.types[w[n]] \in AbiDefinitions BY AbiFacts
  <2>2. c.types[n] = RenameDefinition(a.types[w[n]], q) BY <1>4
  <2>3. w[n] \in ToSet(w) BY <1>5
  <2>4. ToSet(DefinitionRefs(a.types[w[n]])) \subseteq ToSet(w) BY <2>3, <1>3 DEF Closed
  <2>5. Storages(c.types[n]) = RenameValues(Storages(a.types[w[n]]), q)
    BY <2>1, <2>2, <2>4, <1>5, DefinitionRenamed
  <2>6. Storages(a.types[w[n]]) \in Seq(AbiValues) BY <2>1, StoragesFacts
  <2> QED BY <2>5, <2>6, UnclearKept DEF UnclearDefinition
<1>13. DOMAIN c.types = D BY <1>4
<1>14. (\E n \in DOMAIN c.types : UnclearDefinition(c.types[n])) <=>
          \E id \in ToSet(w) \cap DOMAIN a.types : UnclearDefinition(a.types[id])
  <2>1. \A id : id \in ToSet(w) <=> \E n \in DOMAIN w : id = w[n] BY <1>5
  <2> HIDE DEF ToSet
  <2> QED BY <2>1, <1>12, <1>13
<1>15. UnknownValue(a) <=>
         \/ UnknownIn(c.imports) \/ UnknownIn(c.exports)
         \/ \E n \in DOMAIN c.types : UnclearDefinition(c.types[n])
  BY DEF UnknownValue, UnclearDefinition, Unclear, c
<1>16. Understood(a) <=>
         /\ a.features \subseteq SupportedFeatures
         /\ ~UnknownIn(fs)
         /\ ~\E id \in ToSet(w) \cap DOMAIN a.types : UnclearDefinition(a.types[id])
  BY <1>7 DEF Understood, UnclearDefinition, Unclear, fs
<1> QED BY <1>11, <1>14, <1>15, <1>16

\* The comparison stops at what it does not understand, and at nothing else.
LEMMA UnknownFoundMeans ==
  ASSUME NEW a, NEW b, WellFormed(a), WellFormed(b)
  PROVE  UnknownFound(a, b) <=> ~(Understood(a) /\ Understood(b))
BY UnderstoodMeans DEF UnknownFound

\* Of ABIs it understands, the semantic comparison accepts exactly those that a
\* host of the first can run (compare_host_abi).
THEOREM SemanticMeans ==
  ASSUME NEW a, NEW b, WellFormed(a), WellFormed(b), Understood(a), Understood(b)
  PROVE  (CompareHostAbi(a, b, "semantic") = "compatible") <=> Usable(a, b)
<1>1. ~UnknownFound(a, b) BY UnknownFoundMeans
<1>2. BreakingSurfaceChange(a, b, "semantic") <=>
         ~(/\ Declared(b.imports) \subseteq Declared(a.imports)
           /\ Declared(a.exports) \subseteq Declared(b.exports))
  BY DEF BreakingSurfaceChange, OnlyIn
<1>3. BreakingFound(a, b, "semantic") <=> ~Usable(a, b)
  BY <1>2, CommonChange, SameMeans DEF BreakingFound, Usable
<1> QED BY <1>1, <1>3 DEF CompareHostAbi

\* Of ABIs it understands, the strict comparison accepts exactly those that
\* match.
THEOREM StrictMeans ==
  ASSUME NEW a, NEW b, WellFormed(a), WellFormed(b), Understood(a), Understood(b)
  PROVE  (CompareHostAbi(a, b, "strict") = "compatible") <=> Alike(a, b)
<1>1. ~UnknownFound(a, b) BY UnknownFoundMeans
<1>2. BreakingSurfaceChange(a, b, "strict") <=>
         ~(/\ Declared(b.imports) = Declared(a.imports)
           /\ Declared(a.exports) = Declared(b.exports))
  BY DEF BreakingSurfaceChange, OnlyIn
<1>3. ASSUME Declared(b.imports) = Declared(a.imports), Declared(a.exports) = Declared(b.exports)
      PROVE  SameWhereBothAre(a, b) <=> Alike(a, b)
  <2>1. ASSUME NEW fs \in Seq(AbiFunctions), NEW gs, Declared(fs) = Declared(gs)
        PROVE  CommonOf(fs, gs) = ToSet(fs)
    BY <2>1, DeclaredFacts DEF CommonOf
  <2>2. /\ CommonOf(a.imports, b.imports) = ToSet(a.imports)
        /\ CommonOf(a.exports, b.exports) = ToSet(a.exports)
        /\ CommonOf(b.imports, a.imports) = ToSet(b.imports)
        /\ CommonOf(b.exports, a.exports) = ToSet(b.exports)
    BY <1>3, <2>1, AbiFacts
  <2>3. \A p \in Bijections : SharedBy(a, b, p) <=> Matches(a, b, p)
    BY <2>2, MatchesMeans DEF SharedBy
  <2> QED BY <2>3, SharedMeans DEF Alike
<1>4. Alike(a, b) => Declared(a.imports) = Declared(b.imports) /\ Declared(a.exports) = Declared(b.exports)
  BY MatchesDeclares
<1>5. BreakingFound(a, b, "strict") <=> ~Alike(a, b)
  BY <1>2, <1>3, <1>4, CommonChange, SameMeans DEF BreakingFound
<1> QED BY <1>1, <1>5 DEF CompareHostAbi

-----------------------------------------------------------------------------
(* The release line.                                                       *)

\* A reversed list has the same functions.
LEMMA ReverseFacts ==
  ASSUME NEW fs \in Seq(AbiFunctions), NamedOnce(fs)
  PROVE  Reverse(fs) \in Seq(AbiFunctions) /\ NamedOnce(Reverse(fs)) /\ ToSet(Reverse(fs)) = ToSet(fs)
<1> DEFINE N == Len(fs)
           gs == [i \in 1..N |-> fs[(N - i) + 1]]
<1>0. /\ N \in Nat /\ ToSet(fs) = {fs[n] : n \in 1..N}
      /\ \A i \in 1..N : fs[i] \in AbiFunctions
      /\ \A i, j \in 1..N : fs[i].key = fs[j].key => i = j
  BY SeqFacts, NamedFacts
<1>1. Reverse(fs) = gs BY DEF Reverse
<1> HIDE DEF N
<1>2. \A i \in 1..N : (N - i) + 1 \in 1..N /\ (N - ((N - i) + 1)) + 1 = i BY <1>0
<1>3. gs \in [1..N -> AbiFunctions] BY <1>0, <1>2
<1>4. gs \in Seq(AbiFunctions) /\ Len(gs) = N BY <1>0, <1>3, FunctionIsSeq
<1>5. \A i \in 1..N : gs[i] = fs[(N - i) + 1] OBVIOUS
<1> HIDE DEF gs
<1>6. DOMAIN gs = 1..N /\ ToSet(gs) = {gs[i] : i \in 1..N} BY <1>4, SeqFacts
<1>7. NamedOnce(gs)
  <2> SUFFICES ASSUME NEW i \in 1..N, NEW j \in 1..N, gs[i].key = gs[j].key PROVE i = j
    BY <1>6 DEF NamedOnce
  <2>1. (N - i) + 1 = (N - j) + 1 BY <1>0, <1>2, <1>5
  <2> QED BY <2>1, <1>2
<1>8. ToSet(gs) = ToSet(fs)
  <2>1. \A i \in 1..N : \E j \in 1..N : gs[i] = fs[j] BY <1>2, <1>5
  <2>2. \A j \in 1..N : \E i \in 1..N : gs[i] = fs[j]
    <3> TAKE j \in 1..N
    <3>1. gs[(N - j) + 1] = fs[j] BY <1>2, <1>5
    <3> QED BY <3>1, <1>2
  <2>3. ASSUME NEW f PROVE f \in ToSet(gs) <=> f \in ToSet(fs)
    <3>1. f \in ToSet(gs) <=> \E i \in 1..N : f = gs[i] BY <1>6
    <3>2. f \in ToSet(fs) <=> \E j \in 1..N : f = fs[j] BY <1>0
    <3> HIDE DEF ToSet
    <3> QED BY <3>1, <3>2, <2>1, <2>2
  <2> HIDE DEF ToSet
  <2> QED BY <2>3
<1> QED BY <1>1, <1>4, <1>7, <1>8

\* An artifact with other type numbers matches.
LEMMA RenumberedMatches ==
  ASSUME NEW a, WellFormed(a), NEW p \in Bijections
  PROVE  LET b == Renumbered(a, p)
         IN  WellFormed(b) /\ b.features = a.features /\ Matches(a, b, p)
<1> DEFINE b == Renumbered(a, p)
           D == DOMAIN a.types
           i == RenameFunctions(a.imports, p)
           e == RenameFunctions(a.exports, p)
           t == [n \in {p[id] : id \in D} |->
                     RenameDefinition(a.types[CHOOSE m \in D : p[m] = n], p)]
<1>1. /\ a.imports \in Seq(AbiFunctions) /\ NamedOnce(a.imports)
      /\ a.exports \in Seq(AbiFunctions) /\ NamedOnce(a.exports)
      /\ D \subseteq TypeIds /\ \A id \in D : a.types[id] \in AbiDefinitions
  BY AbiFacts
<1>2. /\ p \in Renaming /\ \A id \in TypeIds : p[id] \in TypeIds
      /\ \A id, jd \in TypeIds : p[id] = p[jd] => id = jd
  BY BijectionFacts
<1>3. ASSUME NEW fs \in Seq(AbiFunctions), NamedOnce(fs)
      PROVE  RenameFunctions(fs, p) \in Seq(AbiFunctions) /\ NamedOnce(RenameFunctions(fs, p))
  <2> DEFINE gs == RenameFunctions(fs, p)
  <2>1. gs \in Seq(AbiFunctions) /\ Len(gs) = Len(fs) /\ \A n \in 1..Len(fs) : gs[n].key = fs[n].key
    BY <1>2, FunctionsUnder
  <2> HIDE DEF gs
  <2>2. DOMAIN gs = 1..Len(fs) /\ DOMAIN fs = 1..Len(fs) BY <2>1, SeqFacts
  <2>3. NamedOnce(gs) BY <2>1, <2>2, <1>3 DEF NamedOnce
  <2> QED BY <2>1, <2>3 DEF gs
<1>4. i \in Seq(AbiFunctions) /\ NamedOnce(i) /\ e \in Seq(AbiFunctions) /\ NamedOnce(e)
  BY <1>1, <1>3
<1>5. b = [a EXCEPT !.imports = i, !.exports = e, !.types = t] BY DEF Renumbered
<1>6. ASSUME NEW id \in D
      PROVE  p[id] \in DOMAIN t /\ t[p[id]] = RenameDefinition(a.types[id], p)
             /\ t[p[id]] \in AbiDefinitions
  <2>1. (CHOOSE m \in D : p[m] = p[id]) = id BY <1>1, <1>2
  <2>2. p[id] \in DOMAIN t /\ t[p[id]] = RenameDefinition(a.types[id], p) BY <2>1
  <2> QED BY <2>2, <1>1, RenamedReferences
<1>7. DOMAIN t = {p[id] : id \in D} /\ t = [n \in DOMAIN t |-> t[n]] OBVIOUS
<1> HIDE DEF b, i, e, t
<1>8. DOMAIN t \subseteq TypeIds BY <1>1, <1>2, <1>7
<1>9. t \in AbiTypes BY <1>6, <1>7, <1>8, TypesFacts
<1>10. a \in HostAbis BY DEF WellFormed
<1>11. /\ b \in HostAbis /\ b.imports = i /\ b.exports = e /\ b.types = t /\ b.features = a.features
  BY <1>4, <1>5, <1>9, <1>10 DEF HostAbis
<1>12. WellFormed(b) BY <1>4, <1>11 DEF WellFormed
<1>13. ToSet(Worklist(a)) \subseteq TypeIds BY RootsFacts, WorklistFacts, SeqFacts
<1>14. ASSUME NEW id \in TypeIds PROVE id \in D <=> p[id] \in DOMAIN t
  BY <1>1, <1>2, <1>7
<1>15. Agree(a, b, p, ToSet(Worklist(a)))
  BY <1>6, <1>11, <1>13, <1>14 DEF Agree
<1>16. Matches(a, b, p) BY <1>11, <1>15 DEF Matches, i, e
<1> QED BY <1>11, <1>12, <1>16 DEF b

\* To reorder declarations keeps a match.
LEMMA ReorderedMatches ==
  ASSUME NEW a, NEW b, WellFormed(a), WellFormed(b), NEW p \in Bijections, Matches(a, b, p)
  PROVE  WellFormed(Reordered(b)) /\ Reordered(b).features = b.features /\ Matches(a, Reordered(b), p)
<1> DEFINE c == Reordered(b)
           i == Reverse(b.imports)
           e == Reverse(b.exports)
<1>1. /\ i \in Seq(AbiFunctions) /\ NamedOnce(i) /\ ToSet(i) = ToSet(b.imports)
      /\ e \in Seq(AbiFunctions) /\ NamedOnce(e) /\ ToSet(e) = ToSet(b.exports)
  BY AbiFacts, ReverseFacts
<1>2. c = [b EXCEPT !.imports = i, !.exports = e] BY DEF Reordered
<1>3. b \in HostAbis BY DEF WellFormed
<1> HIDE DEF c, i, e
<1>4. /\ c \in HostAbis /\ c.imports = i /\ c.exports = e /\ c.types = b.types /\ c.features = b.features
  BY <1>1, <1>2, <1>3 DEF HostAbis
<1>5. WellFormed(c) BY <1>1, <1>4 DEF WellFormed
<1>6. Matches(a, c, p) BY <1>1, <1>4 DEF Matches, Agree
<1> QED BY <1>4, <1>5, <1>6 DEF c

\* An artifact with other type numbers and in another order has the same
\* canonical form.
LEMMA NumbersLost ==
  ASSUME NEW a, WellFormed(a), NEW p \in Bijections
  PROVE  /\ CanonicalizeHostAbi(Renumbered(a, p)) = CanonicalizeHostAbi(a)
         /\ CanonicalizeHostAbi(Reordered(Renumbered(a, p))) = CanonicalizeHostAbi(a)
<1> DEFINE b == Renumbered(a, p)
           c == Reordered(b)
<1>1. WellFormed(b) /\ b.features = a.features /\ Matches(a, b, p) BY RenumberedMatches
<1> HIDE DEF b
<1>2. WellFormed(c) /\ c.features = b.features /\ Matches(a, c, p) BY <1>1, ReorderedMatches
<1> HIDE DEF c
<1>3. p \in Renaming BY BijectionFacts
<1> QED BY <1>1, <1>2, <1>3, SameCanonical DEF b, c

\* The features that this version of the tool detects are those of its imports.
Featured(abi) == abi.features \cap SupportedFeatures = Detected(abi.imports)

\* The inductive invariant: what is compared is well formed and has the
\* features of its imports, the lock decodes, and the host works with it.
LineInv ==
    /\ WellFormed(source) /\ WellFormed(lock) /\ WellFormed(host)
    /\ Featured(source) /\ Featured(lock)
    /\ DecodesAsLockfile(lock)
    /\ Usable(host, lock)

\* What `lock` writes decodes, and works for those who used the source.
LEMMA CanonicalKeeps ==
  ASSUME NEW a, WellFormed(a)
  PROVE  /\ WellFormed(CanonicalizeHostAbi(a)) /\ DecodesAsLockfile(CanonicalizeHostAbi(a))
         /\ Featured(a) => Featured(CanonicalizeHostAbi(a))
         /\ Usable(a, CanonicalizeHostAbi(a))
<1> DEFINE c == CanonicalizeHostAbi(a)
<1>1. WellFormed(c) /\ Alike(a, c) /\ c.features = a.features BY CanonicalMatches DEF Alike
<1>2. DecodesAsLockfile(c) BY CanonicalTwice DEF DecodesAsLockfile
<1> HIDE DEF c
<1>3. Declared(a.imports) = Declared(c.imports) BY <1>1, MatchesDeclares
<1>4. Featured(a) => Featured(c) BY <1>1, <1>3 DEF Featured, Detected
<1>5. Usable(a, c) BY <1>1, UsableAlike
<1> QED BY <1>1, <1>2, <1>4, <1>5 DEF c

\* Definitions of types are definitions of some types.
LEMMA DefinedFacts ==
  ASSUME NEW t, \A id \in TypeIds : t[id] # NoDefinition => t[id] \in AbiDefinitions
  PROVE  Defined(t) \in AbiTypes
<1> DEFINE D == {n \in TypeIds : t[n] # NoDefinition}
<1>1. Defined(t) = [id \in D |-> t[id]] BY DEF Defined
<1>2. D \subseteq TypeIds /\ \A id \in D : t[id] \in AbiDefinitions OBVIOUS
<1> HIDE DEF D
<1>3. DOMAIN Defined(t) = D /\ \A id \in D : Defined(t)[id] = t[id] BY <1>1
<1> QED BY <1>1, <1>2, <1>3, TypesFacts

\* Detected features are supported ones.
LEMMA DetectedFacts ==
  ASSUME NEW imports
  PROVE  /\ Detected(imports) \subseteq SupportedFeatures
         /\ Detected(imports) \subseteq FeatureNames
         /\ \A f : f \cap SupportedFeatures = {} =>
               (Detected(imports) \cup f) \cap SupportedFeatures = Detected(imports)
<1>1. Detected(imports) = SupportedFeatures \/ Detected(imports) = {}
  BY DEF Detected, SupportedFeatures
<1> QED BY <1>1, Zenon DEF FeatureNames

\* The first release keeps the invariant.
LEMMA InitLine == ImportedOnce /\ Init => LineInv
<1> SUFFICES ASSUME ImportedOnce, Init PROVE LineInv OBVIOUS
<1>1. PICK i \in ImportLists, e \in ExportLists, t \in [TypeIds -> Definitions] :
         source = [imports |-> i, exports |-> e, types |-> Defined(t), features |-> Detected(i)]
  BY DEF Init, Abis
<1>2. i \in Seq(AbiFunctions) /\ NamedOnce(i) /\ e \in Seq(AbiFunctions) /\ NamedOnce(e)
  BY ListsAssumption DEF ImportedOnce
<1>3. \A id \in TypeIds : t[id] # NoDefinition => t[id] \in AbiDefinitions
  BY DefinitionsAssumption
<1>4. Defined(t) \in AbiTypes BY <1>3, DefinedFacts
<1>5. Detected(i) \subseteq FeatureNames /\ Detected(i) \subseteq SupportedFeatures BY DetectedFacts
<1>6. WellFormed(source) BY <1>1, <1>2, <1>4, <1>5 DEF WellFormed, HostAbis
<1>7. Featured(source) BY <1>1, <1>5 DEF Featured
<1>8. lock = CanonicalizeHostAbi(source) /\ host = lock BY DEF Init, Lock
<1>9. WellFormed(lock) /\ DecodesAsLockfile(lock) /\ Featured(lock)
  BY <1>6, <1>7, <1>8, CanonicalKeeps
<1>10. Usable(host, lock) BY <1>8, <1>9, UsableItself
<1> QED BY <1>6, <1>7, <1>8, <1>9, <1>10 DEF LineInv

\* Every step keeps it; the lock changes only to what the check accepts.
LEMMA NextLine == ImportedOnce /\ LineInv /\ [Next]_vars => LineInv'
<1> SUFFICES ASSUME ImportedOnce, LineInv, [Next]_vars PROVE LineInv' OBVIOUS
<1>0. /\ WellFormed(source) /\ WellFormed(lock) /\ WellFormed(host)
      /\ Featured(source) /\ Featured(lock) /\ DecodesAsLockfile(lock) /\ Usable(host, lock)
  BY DEF LineInv
<1>00. source \in HostAbis /\ NamedOnce(source.imports) /\ NamedOnce(source.exports)
  BY <1>0 DEF WellFormed
\* A step of the source only.
<1>01. ASSUME UNCHANGED released, WellFormed(source'), Featured(source') PROVE LineInv'
  BY <1>01, <1>0 DEF released, LineInv, WellFormed, Featured, DecodesAsLockfile
<1>1. ASSUME ChangeImports PROVE LineInv'
  <2>1. PICK i \in ImportLists :
          /\ source' = [source EXCEPT !.imports = i,
                           !.features = (source.features \ SupportedFeatures) \cup Detected(i)]
          /\ UNCHANGED <<resources, released>>
    BY <1>1 DEF ChangeImports
  <2>2. i \in Seq(AbiFunctions) /\ NamedOnce(i) BY ListsAssumption DEF ImportedOnce
  <2> DEFINE f == (source.features \ SupportedFeatures) \cup Detected(i)
  <2>3. f \in SUBSET FeatureNames /\ f \cap SupportedFeatures = Detected(i)
    BY <1>00, DetectedFacts DEF HostAbis
  <2> HIDE DEF f
  <2>4. source' = [source EXCEPT !.imports = i, !.features = f] BY <2>1 DEF f
  <2>5. /\ source' \in HostAbis /\ source'.imports = i /\ source'.exports = source.exports
        /\ source'.features = f
    BY <2>2, <2>3, <2>4, <1>00 DEF HostAbis
  <2>6. WellFormed(source') BY <2>2, <2>5, <1>00 DEF WellFormed
  <2>7. Featured(source') BY <2>3, <2>5 DEF Featured
  <2> QED BY <2>1, <2>6, <2>7, <1>01
<1>2. ASSUME ChangeExports PROVE LineInv'
  <2>1. PICK e \in ExportLists : source' = [source EXCEPT !.exports = e] /\ UNCHANGED <<resources, released>>
    BY <1>2 DEF ChangeExports
  <2>2. e \in Seq(AbiFunctions) /\ NamedOnce(e) BY ListsAssumption
  <2>3. /\ source' \in HostAbis /\ source'.imports = source.imports /\ source'.exports = e
        /\ source'.features = source.features
    BY <2>1, <2>2, <1>00 DEF HostAbis
  <2>4. WellFormed(source') BY <2>2, <2>3, <1>00 DEF WellFormed
  <2>5. Featured(source') BY <2>3, <1>0 DEF Featured
  <2> QED BY <2>1, <2>4, <2>5, <1>01
<1>3. ASSUME NEW id \in TypeIds, ChangeType(id) PROVE LineInv'
  <2> DEFINE T(d) == [n \in TypeIds |-> IF n = id THEN d
                        ELSE IF n \in DOMAIN source.types THEN source.types[n] ELSE NoDefinition]
  <2>1. PICK d \in Definitions :
          source' = [source EXCEPT !.types = Defined(T(d))] /\ UNCHANGED <<resources, released>>
    BY <1>3 DEF ChangeType
  <2>2. \A n \in DOMAIN source.types : source.types[n] \in AbiDefinitions BY <1>0, AbiFacts
  <2>3. d # NoDefinition => d \in AbiDefinitions BY DefinitionsAssumption
  <2>4. \A n \in TypeIds : T(d)[n] # NoDefinition => T(d)[n] \in AbiDefinitions BY <2>2, <2>3
  <2> HIDE DEF T
  <2>5. Defined(T(d)) \in AbiTypes BY <2>4, DefinedFacts
  <2>6. /\ source' \in HostAbis /\ source'.imports = source.imports
        /\ source'.exports = source.exports /\ source'.features = source.features
    BY <2>1, <2>5, <1>00 DEF HostAbis
  <2>7. WellFormed(source') BY <2>6, <1>00 DEF WellFormed
  <2>8. Featured(source') BY <2>6, <1>0 DEF Featured
  <2> QED BY <2>1, <2>7, <2>8, <1>01
<1>4. ASSUME ChangeFeatures PROVE LineInv'
  <2>1. PICK f \in FeatureSets :
          /\ source' = [source EXCEPT !.features = Detected(source.imports) \cup f]
          /\ UNCHANGED <<resources, released>>
    BY <1>4 DEF ChangeFeatures
  <2>2. f \subseteq FeatureNames /\ f \cap SupportedFeatures = {}
    BY FeaturesAssumption DEF FeatureNames
  <2> DEFINE g == Detected(source.imports) \cup f
  <2>3. g \in SUBSET FeatureNames /\ g \cap SupportedFeatures = Detected(source.imports)
    BY <2>2, DetectedFacts
  <2> HIDE DEF g
  <2>4. source' = [source EXCEPT !.features = g] BY <2>1 DEF g
  <2>5. /\ source' \in HostAbis /\ source'.imports = source.imports
        /\ source'.exports = source.exports /\ source'.features = g
    BY <2>3, <2>4, <1>00 DEF HostAbis
  <2>6. WellFormed(source') BY <2>5, <1>00 DEF WellFormed
  <2>7. Featured(source') BY <2>3, <2>5 DEF Featured
  <2> QED BY <2>1, <2>6, <2>7, <1>01
<1>5. ASSUME Release PROVE LineInv'
  <2>1. lock' = CanonicalizeHostAbi(source) /\ source' = source /\ host' = host
    BY <1>5 DEF Release, Lock
  <2>2. CompareHostAbi(lock, source, "semantic") = "compatible"
    BY <1>5, <1>0 DEF Release, Check, Compare
  <2>3. Understood(lock) /\ Understood(source)
    BY <2>2, <1>0, UnknownFoundMeans DEF CompareHostAbi
  <2>4. Usable(lock, source) BY <2>2, <2>3, <1>0, SemanticMeans
  <2> DEFINE c == CanonicalizeHostAbi(source)
  <2>5. /\ WellFormed(c) /\ DecodesAsLockfile(c) /\ Featured(c) /\ Usable(source, c)
    BY <1>0, CanonicalKeeps
  <2>6. lock' = c BY <2>1
  <2> HIDE DEF c
  <2>7. Usable(host, c)
    <3>1. Usable(host, source) BY <2>4, <1>0, UsableOn
    <3> QED BY <3>1, <2>5, <1>0, UsableOn
  <2> QED BY <2>1, <2>5, <2>6, <2>7, <1>0 DEF LineInv, WellFormed, Featured, DecodesAsLockfile
<1>6. ASSUME ChangeResources PROVE LineInv'
  <2>1. source' = source /\ UNCHANGED released BY <1>6 DEF ChangeResources
  <2> QED BY <2>1, <1>0, <1>01 DEF WellFormed, Featured
<1>7. ASSUME UNCHANGED vars PROVE LineInv'
  <2>1. source' = source /\ UNCHANGED released BY <1>7 DEF vars, released
  <2> QED BY <2>1, <1>0, <1>01 DEF WellFormed, Featured
<1> QED BY <1>1, <1>2, <1>3, <1>4, <1>5, <1>6, <1>7 DEF Next

\* The release line keeps its invariant, through any number of releases, if
\* modules import each name once.
THEOREM LineSafe ==
  ASSUME ImportedOnce
  PROVE  Spec => []LineInv
BY InitLine, NextLine, PTL DEF Spec

\* However the compiler numbers types and orders declarations, a rebuild of
\* the same source has the same fingerprint (canonical.mbt 175-176).
THEOREM NumbersAreNotIdentityAlways ==
  ASSUME ImportedOnce
  PROVE  Spec => []NumbersAreNotIdentity
<1>1. LineInv => NumbersAreNotIdentity
  BY NumbersLost DEF LineInv, NumbersAreNotIdentity, Bijections
<1> QED BY <1>1, LineSafe, PTL

\* Of the artifacts without diagnostics in which everything is known, the check
\* refuses exactly those that the host of the last release cannot run, and the
\* strict one exactly those with another fingerprint; all others are called
\* unknown (docs/report-schema.md 96-97).
THEOREM CheckIsExactAlways ==
  ASSUME ImportedOnce
  PROVE  Spec => []CheckIsExact
<1>1. LineInv => CheckIsExact
  <2> SUFFICES ASSUME LineInv PROVE CheckIsExact OBVIOUS
  <2>0. /\ WellFormed(source) /\ WellFormed(lock) /\ Featured(source) /\ Featured(lock)
        /\ DecodesAsLockfile(lock)
    BY DEF LineInv
  <2>1. \A surface : Compare(surface) = IF Diagnosed THEN "unknown"
                                        ELSE CompareHostAbi(lock, source, surface)
    BY <2>0 DEF Compare
  <2>2. ASSUME ~(Understood(lock) /\ Understood(source) /\ ~Diagnosed)
        PROVE  Check = "unknown"
    BY <2>0, <2>1, <2>2, UnknownFoundMeans DEF Check, CompareHostAbi
  <2>3. ASSUME Understood(lock), Understood(source), ~Diagnosed
        PROVE  /\ Check = IF Usable(lock, source) THEN "compatible" ELSE "breaking"
               /\ (Compare("strict") = "compatible") <=> (CanonicalizeHostAbi(source) = lock)
    <3>0. /\ Check = CompareHostAbi(lock, source, "semantic")
          /\ Compare("strict") = CompareHostAbi(lock, source, "strict")
          /\ ~UnknownFound(lock, source)
      BY <2>0, <2>1, <2>3, UnknownFoundMeans DEF Check
    <3>1. (Check = "compatible") <=> Usable(lock, source)
      BY <3>0, <2>0, <2>3, SemanticMeans
    <3>2. (Compare("strict") = "compatible") <=> Alike(lock, source)
      BY <3>0, <2>0, <2>3, StrictMeans
    <3>3. CanonicalizeHostAbi(lock) = lock BY <2>0 DEF DecodesAsLockfile
    <3>4. lock.features = Detected(lock.imports) /\ source.features = Detected(source.imports)
      BY <2>0, <2>3 DEF Understood, Featured
    <3>5. ASSUME Alike(lock, source) PROVE CanonicalizeHostAbi(source) = lock
      <4>1. Declared(lock.imports) = Declared(source.imports) BY <2>0, <3>5, MatchesDeclares
      <4>2. lock.features = source.features BY <4>1, <3>4 DEF Detected
      <4> QED BY <4>2, <3>3, <3>5, <2>0, AlikeExactly
    <3>6. ASSUME CanonicalizeHostAbi(source) = lock PROVE Alike(lock, source)
      <4>1. lock.features = source.features BY <2>0, <3>6, CanonicalMatches
      <4> QED BY <4>1, <3>3, <3>6, <2>0, AlikeExactly
    <3>7. Check \in {"compatible", "breaking"} BY <3>0 DEF CompareHostAbi
    <3> QED BY <3>1, <3>2, <3>5, <3>6, <3>7
  <2> QED BY <2>2, <2>3 DEF CheckIsExact, Usable
<1> QED BY <1>1, LineSafe, PTL

\* Through any number of releases, each checked only against the one before it,
\* a host keeps working with the last release.
THEOREM HostStillWorksAlways ==
  ASSUME ImportedOnce
  PROVE  Spec => []HostStillWorks
<1>1. LineInv => HostStillWorks BY DEF LineInv, HostStillWorks
<1> QED BY <1>1, LineSafe, PTL

=============================================================================
