----------------------------- MODULE TextProofs -----------------------------
(***************************************************************************)
(* How a QQ message is taken apart (ReadAsMeant), for every message.       *)
(* Texts are gone through with folds, so the first section is about folds: *)
(* the library's own theorems on induction take an operator, which the     *)
(* provers cannot instantiate, and induction is here over a set of numbers *)
(* instead.                                                                *)
(***************************************************************************)
EXTENDS Parts, Integers, FiniteSets, FiniteSetTheorems, SequenceTheorems, WellFoundedInduction, TLAPS

----------------------------------------------------------------------------
(* Every set of numbers that is not empty has a least one. *)
LEMMA LeastOf ==
    ASSUME NEW T \in SUBSET Nat, T # {}
    PROVE  \E x \in T : \A y \in T : x <= y
<1> DEFINE Less == {p \in Nat \X Nat : p[1] < p[2]}
<1>1. IsWellFoundedOn(Less, Nat)
  <2>1. OpToRel(<, Nat) = Less
    BY DEF OpToRel
  <2> QED
    BY <2>1, NatLessThanWellFounded
<1>2. PICK x \in T : \A y \in T : ~(<<y, x>> \in Less)
  <2> HIDE DEF Less
  <2> QED
    BY <1>1, WFMin
<1>3. ASSUME NEW y \in T PROVE x <= y
  <2>1. ~(y < x)
    BY <1>2
  <2> QED
    BY <2>1
<1> QED
  BY <1>3

(* Induction on the natural numbers. *)
LEMMA Climb ==
    ASSUME NEW T \in SUBSET Nat, 0 \in T, \A k \in T : k + 1 \in T
    PROVE  T = Nat
<1> SUFFICES ASSUME T # Nat PROVE FALSE
  OBVIOUS
<1>1. PICK n \in Nat \ T : \A k \in Nat \ T : n <= k
  BY LeastOf
<1>2. n # 0 /\ n - 1 \in Nat
  BY <1>1
<1>3. n - 1 \in T
  BY <1>1, <1>2
<1> QED
  BY <1>2, <1>3

(* Induction up to a bound: T is the set of the numbers the claim holds of. *)
LEMMA Upto ==
    ASSUME NEW n \in Nat, NEW T, 0 \in T, \A k \in 0..n : k \in T /\ k < n => k + 1 \in T
    PROVE  \A k \in 0..n : k \in T
<1> DEFINE U == {k \in Nat : k <= n => k \in T}
<1>1. U \in SUBSET Nat /\ 0 \in U
  OBVIOUS
<1>2. ASSUME NEW k \in U PROVE k + 1 \in U
  OBVIOUS
<1>3. U = Nat
  <2> HIDE DEF U
  <2> QED
    BY <1>1, <1>2, Climb
<1> QED
  BY <1>3

Top(S) == CHOOSE x \in S : \A y \in S : x >= y

LEMMA GreatestOf ==
    ASSUME NEW n \in Nat, NEW S \in SUBSET (0..n), S # {}
    PROVE  /\ Top(S) \in S /\ \A x \in S : x <= Top(S)
           /\ \A x \in S : (\A y \in S : y <= x) => x = Top(S)
<1> DEFINE P(k) == \A U \in SUBSET (0..k) : U # {} => \E x \in U : \A y \in U : y <= x
           T == {k \in Nat : P(k)}
<1>1. P(0)
  <2>1. 0..0 = {0}
    OBVIOUS
  <2> SUFFICES ASSUME NEW U \in SUBSET (0..0), U # {} PROVE \E x \in U : \A y \in U : y <= x
    OBVIOUS
  <2>2. U = {0}
    BY <2>1
  <2> QED
    BY <2>2
<1>2. ASSUME NEW k \in Nat, P(k) PROVE P(k + 1)
  <2> SUFFICES ASSUME NEW U \in SUBSET (0..(k + 1)), U # {}, k + 1 \notin U
               PROVE  \E x \in U : \A y \in U : y <= x
    OBVIOUS
  <2>1. U \in SUBSET (0..k)
    OBVIOUS
  <2> QED
    BY <1>2, <2>1
<1>3. P(n)
  <2> HIDE DEF P
  <2>1. T \in SUBSET Nat /\ 0 \in T
    BY <1>1
  <2>2. ASSUME NEW k \in T PROVE k + 1 \in T
    <3>1. k \in Nat /\ P(k)
      OBVIOUS
    <3>2. P(k + 1)
      BY <1>2, <3>1
    <3> QED
      BY <3>1, <3>2
  <2>3. T = Nat
    <3> HIDE DEF T
    <3> QED
      BY <2>1, <2>2, Climb
  <2> QED
    BY <2>3
<1>4. PICK m \in S : \A y \in S : y <= m
  BY <1>3
<1>5. Top(S) \in S /\ \A y \in S : Top(S) >= y
  <2>1. \A y \in S : m >= y
    BY <1>4
  <2> QED
    BY <2>1 DEF Top
<1>6. ASSUME NEW x \in S, \A y \in S : y <= x PROVE x = Top(S)
  <2>1. x \in 0..n /\ Top(S) \in 0..n
    BY <1>5
  <2>2. Top(S) <= x /\ Top(S) >= x
    BY <1>5, <1>6
  <2> QED
    BY <2>1, <2>2
<1>7. \A x \in S : x <= Top(S)
  BY <1>5
<1> QED
  BY <1>5, <1>6, <1>7

(* What a fold over the positions 1..n computes, step by step. *)
Iterates(I, n, base, step) ==
    I = [S \in SUBSET (1..n) |->
            IF S = {} THEN base ELSE step[<<I[S \ {Top(S)}], Top(S)>>]]

LEMMA TopIn ==
    ASSUME NEW n \in Nat, NEW S \in SUBSET (1..n), S # {}
    PROVE  Top(S) \in 1..n
<1>1. S \in SUBSET (0..n)
  OBVIOUS
<1> QED
  BY <1>1, GreatestOf

LEMMA FoldExists ==
    ASSUME NEW A, NEW base \in A, NEW n \in Nat, NEW step \in [A \X (1..n) -> A]
    PROVE  \E I \in [SUBSET (1..n) -> A] : Iterates(I, n, base, step)
<1> DEFINE P(k) == k <= n => \E I \in [SUBSET (1..k) -> A] : Iterates(I, k, base, step)
           T == {k \in Nat : P(k)}
<1>1. P(0)
  <2>1. 1..0 = {} /\ SUBSET (1..0) = {{}}
    OBVIOUS
  <2> DEFINE I == [S \in {{}} |-> base]
  <2>2. I \in [SUBSET (1..0) -> A] /\ Iterates(I, 0, base, step)
    BY <2>1 DEF Iterates
  <2> QED
    BY <2>2
<1>2. ASSUME NEW k \in Nat, P(k) PROVE P(k + 1)
  <2> SUFFICES ASSUME k + 1 <= n
               PROVE  \E I \in [SUBSET (1..(k + 1)) -> A] : Iterates(I, k + 1, base, step)
    OBVIOUS
  <2>1. PICK J \in [SUBSET (1..k) -> A] : Iterates(J, k, base, step)
    <3>1. k <= n
      OBVIOUS
    <3> QED
      BY <1>2, <3>1
  <2> DEFINE I == [S \in SUBSET (1..(k + 1)) |->
                      IF k + 1 \in S THEN step[<<J[S \ {k + 1}], k + 1>>] ELSE J[S]]
  <2>2. ASSUME NEW S \in SUBSET (1..(k + 1))
        PROVE  /\ k + 1 \in S => S \ {k + 1} \in SUBSET (1..k) /\ Top(S) = k + 1
               /\ k + 1 \notin S => S \in SUBSET (1..k)
               /\ S # {} => Top(S) \in S
    <3>1. CASE S = {}
      BY <3>1
    <3>2. CASE S # {}
      <4>1. S \in SUBSET (0..(k + 1)) /\ k + 1 \in Nat
        OBVIOUS
      <4>2. /\ Top(S) \in S
            /\ \A x \in S : (\A y \in S : y <= x) => x = Top(S)
        BY <3>2, <4>1, GreatestOf
      <4>3. k + 1 \in S => S \ {k + 1} \in SUBSET (1..k)
        OBVIOUS
      <4>4. k + 1 \notin S => S \in SUBSET (1..k)
        OBVIOUS
      <4>5. \A y \in S : y <= k + 1
        OBVIOUS
      <4> QED
        BY <4>2, <4>3, <4>4, <4>5
    <3> QED
      BY <3>1, <3>2
  <2>3. ASSUME NEW S \in SUBSET (1..(k + 1)), k + 1 \notin S, S # {}
        PROVE  J[S] = step[<<I[S \ {Top(S)}], Top(S)>>]
    <3>1. S \in SUBSET (1..k) /\ S \ {Top(S)} \in SUBSET (1..k) /\ k + 1 \notin S \ {Top(S)}
      BY <2>2, <2>3
    <3>2. J[S] = step[<<J[S \ {Top(S)}], Top(S)>>]
      BY <2>1, <2>3, <3>1 DEF Iterates
    <3> QED
      BY <3>1, <3>2
  <2>4. ASSUME NEW S \in SUBSET (1..(k + 1)), k + 1 \in S
        PROVE  I[S] = step[<<I[S \ {Top(S)}], Top(S)>>]
    <3>1. S \ {k + 1} \in SUBSET (1..k) /\ Top(S) = k + 1
      BY <2>2, <2>4
    <3>2. I[S \ {k + 1}] = J[S \ {k + 1}]
      BY <3>1
    <3> QED
      BY <2>4, <3>1, <3>2
  <2>5. I[{}] = base
    BY <2>1 DEF Iterates
  <2>6. ASSUME NEW S \in SUBSET (1..(k + 1)) PROVE I[S] \in A
    <3>1. CASE k + 1 \in S
      <4>1. J[S \ {k + 1}] \in A
        BY <2>2, <3>1
      <4> QED
        BY <3>1, <4>1
    <3>2. CASE k + 1 \notin S
      BY <2>2, <3>2
    <3> QED
      BY <3>1, <3>2
  <2>7. \A S \in SUBSET (1..(k + 1)) :
            I[S] = IF S = {} THEN base ELSE step[<<I[S \ {Top(S)}], Top(S)>>]
    BY <2>3, <2>4, <2>5
  <2>8. I = [S \in SUBSET (1..(k + 1)) |-> I[S]]
    OBVIOUS
  <2> HIDE DEF I
  <2> QED
    BY <2>6, <2>7, <2>8 DEF Iterates
<1>3. P(n)
  <2> HIDE DEF P
  <2>1. T \in SUBSET Nat /\ 0 \in T
    BY <1>1
  <2>2. ASSUME NEW k \in T PROVE k + 1 \in T
    <3>1. k \in Nat /\ P(k)
      OBVIOUS
    <3>2. P(k + 1)
      BY <1>2, <3>1
    <3> QED
      BY <3>1, <3>2
  <2>3. T = Nat
    <3> HIDE DEF T
    <3> QED
      BY <2>1, <2>2, Climb
  <2> QED
    BY <2>3
<1>4. n <= n
  OBVIOUS
<1> QED
  BY <1>3, <1>4
Steps(J, A, n, base, step) ==
    /\ J[{}] = base
    /\ \A S \in SUBSET (1..n) : S # {} /\ J[S \ {Top(S)}] \in A =>
           J[S] = step[<<J[S \ {Top(S)}], Top(S)>>]

Run(r, n, base, step, J) ==
    r[0] = base /\ r[n] = J[1..n] /\ \A k \in 1..n : r[k] = step[<<r[k - 1], k>>]

LEMMA FoldRun ==
    ASSUME NEW A, NEW base \in A, NEW n \in Nat, NEW step \in [A \X (1..n) -> A], NEW J,
           Steps(J, A, n, base, step)
    PROVE  \E r \in [0..n -> A] : Run(r, n, base, step, J)
<1>1. ASSUME NEW k \in 1..n, J[1..(k - 1)] \in A
      PROVE  J[1..k] = step[<<J[1..(k - 1)], k>>] /\ J[1..k] \in A
  <2>1. 1..k \in SUBSET (0..k) /\ k \in Nat /\ k \in 1..k /\ \A y \in 1..k : y <= k
    OBVIOUS
  <2>2. Top(1..k) = k
    BY <2>1, GreatestOf
  <2>3. 1..k \in SUBSET (1..n) /\ 1..k # {} /\ (1..k) \ {k} = 1..(k - 1)
    OBVIOUS
  <2>4. J[1..k] = step[<<J[1..(k - 1)], k>>]
    BY <1>1, <2>2, <2>3 DEF Steps
  <2> QED
    BY <1>1, <2>4
<1> DEFINE P(k) == k <= n => J[1..k] \in A
           T == {k \in Nat : P(k)}
<1>2. P(0)
  <2>1. 1..0 = {}
    OBVIOUS
  <2> QED
    BY <2>1 DEF Steps
<1>3. ASSUME NEW k \in Nat, P(k) PROVE P(k + 1)
  <2> SUFFICES ASSUME k + 1 <= n PROVE J[1..(k + 1)] \in A
    OBVIOUS
  <2>1. k + 1 \in 1..n /\ (k + 1) - 1 = k /\ k <= n
    OBVIOUS
  <2> QED
    BY <1>1, <1>3, <2>1
<1>4. \A k \in Nat : P(k)
  <2> HIDE DEF P
  <2>1. T \in SUBSET Nat /\ 0 \in T
    BY <1>2
  <2>2. ASSUME NEW k \in T PROVE k + 1 \in T
    <3>1. k \in Nat /\ P(k)
      OBVIOUS
    <3>2. P(k + 1)
      BY <1>3, <3>1
    <3> QED
      BY <3>1, <3>2
  <2>3. T = Nat
    <3> HIDE DEF T
    <3> QED
      BY <2>1, <2>2, Climb
  <2> QED
    BY <2>3
<1> DEFINE r == [k \in 0..n |-> J[1..k]]
<1>5. r \in [0..n -> A]
  <2>1. ASSUME NEW k \in 0..n PROVE J[1..k] \in A
    <3>1. k \in Nat /\ k <= n
      OBVIOUS
    <3> QED
      BY <1>4, <3>1
  <2> QED
    BY <2>1
<1>6. r[0] = base
  <2>1. 1..0 = {} /\ 0 \in 0..n
    OBVIOUS
  <2> QED
    BY <2>1 DEF Steps
<1>7. ASSUME NEW k \in 1..n PROVE r[k] = step[<<r[k - 1], k>>]
  <2>1. k \in 0..n /\ k - 1 \in 0..n
    OBVIOUS
  <2>2. r[k - 1] = J[1..(k - 1)] /\ r[k] = J[1..k] /\ r[k - 1] \in A
    BY <1>5, <2>1
  <2> QED
    BY <1>1, <2>2
<1>8. r[n] = J[1..n]
  OBVIOUS
<1> HIDE DEF r
<1> QED
  BY <1>5, <1>6, <1>7, <1>8 DEF Run


----------------------------------------------------------------------------
(***************************************************************************)
(* Reading a QQ message.                                                   *)
(***************************************************************************)
Literal == {"[CQ:image,", "[CQ:reply,", "[CQ:at,", "]", ",", "file=", "url=", "id=", "a", "b"}
Token == Tokens \cup Literal
StripAcc == [depth : Nat, text : Seq(Token)]
StripBase == [depth |-> 0, text |-> <<>>]
SplitAcc == Seq(Seq(Token)) \ {<<>>}
ScanAcc == [depth : Nat, inner : Seq(Token), images : Seq(Seq(Token))]
ScanBase == [depth |-> 0, inner |-> <<>>, images |-> <<>>]

(* A prefix that grows by one, and prefixes of a concatenation. *)
LEMMA PrefixGrows ==
    ASSUME NEW X, NEW s \in Seq(X), NEW m \in Nat, m + 1 <= Len(s)
    PROVE  SubSeq(s, 1, m + 1) = Append(SubSeq(s, 1, m), s[m + 1])
OBVIOUS

LEMMA PrefixOf ==
    ASSUME NEW X, NEW s \in Seq(X), NEW t \in Seq(X)
    PROVE  SubSeq(s \o t, 1, Len(s)) = s
OBVIOUS

LEMMA PrefixWhole ==
    ASSUME NEW X, NEW s \in Seq(X)
    PROVE  SubSeq(s, 1, Len(s)) = s
OBVIOUS

LEMMA SplitKeeps ==
    ASSUME NEW ps \in SplitAcc, NEW t \in Token
    PROVE  Cq!Split(ps, t) \in SplitAcc
<1>1. ps \in Seq(Seq(Token)) /\ ps # <<>>
  BY DEF SplitAcc
<1>2. CASE t = ","
  <2>1. <<>> \in Seq(Token)
    BY EmptySeq
  <2>2. Append(ps, <<>>) \in Seq(Seq(Token)) /\ Append(ps, <<>>) # <<>>
    BY <1>1, <2>1, AppendProperties
  <2> QED
    BY <1>2, <2>2 DEF Cq!Split, SplitAcc
<1>3. CASE t # ","
  <2>1. Len(ps) \in 1..Len(ps) /\ ps[Len(ps)] \in Seq(Token)
    BY <1>1
  <2>2. Append(ps[Len(ps)], t) \in Seq(Token)
    BY <2>1
  <2>3. PICK qs : qs = [ps EXCEPT ![Len(ps)] = Append(ps[Len(ps)], t)]
    OBVIOUS
  <2>4. qs \in Seq(Seq(Token))
    BY <1>1, <2>1, <2>2, <2>3, ExceptSeq
  <2>5. DOMAIN qs = DOMAIN ps /\ DOMAIN ps # {}
    BY <1>1, <2>1, <2>3
  <2>6. qs # <<>>
    BY <2>5
  <2> QED
    BY <1>3, <2>3, <2>4, <2>6 DEF Cq!Split, SplitAcc
<1> QED
  BY <1>2, <1>3

LEMMA SplitRun ==
    ASSUME NEW s \in Seq(Token)
    PROVE  \E r \in [0..Len(s) -> SplitAcc] :
              /\ r[0] = <<<<>>>> /\ r[Len(s)] = Cq!Parts(s)
              /\ \A k \in 1..Len(s) : r[k] = Cq!Split(r[k - 1], s[k])
<1>1. PICK n \in Nat : n = Len(s) /\ DOMAIN s = 1..n /\ \A k \in 1..n : s[k] \in Token
  OBVIOUS
<1>2. PICK step \in [SplitAcc \X (1..n) -> SplitAcc] :
          \A a \in SplitAcc, k \in 1..n : step[<<a, k>>] = Cq!Split(a, s[k])
  <2> DEFINE step == [q \in SplitAcc \X (1..n) |-> Cq!Split(q[1], s[q[2]])]
  <2>1. step \in [SplitAcc \X (1..n) -> SplitAcc]
    BY <1>1, SplitKeeps
  <2>2. \A a \in SplitAcc, k \in 1..n : step[<<a, k>>] = Cq!Split(a, s[k])
    OBVIOUS
  <2> HIDE DEF step
  <2> QED
    BY <2>1, <2>2
<1> DEFINE Q(J) == J = [S \in SUBSET (1..n) |->
                           IF S = {} THEN <<<<>>>> ELSE LET x == Top(S) IN Cq!Split(J[S \ {x}], s[x])]
<1>3. PICK J : J = CHOOSE I : Q(I)
  OBVIOUS
<1>4. Cq!Parts(s) = J[1..n]
  BY <1>1, <1>3 DEF Cq!Parts, Cq!FoldLeft, Cq!MapThenFoldSet, Cq!Max, Top
<1>5. <<<<>>>> \in SplitAcc
  BY EmptySeq DEF SplitAcc
<1>6. Q(J)
  <2>1. PICK I \in [SUBSET (1..n) -> SplitAcc] : Iterates(I, n, <<<<>>>>, step)
    BY <1>5, FoldExists
  <2>2. ASSUME NEW S \in SUBSET (1..n), S # {}
        PROVE  step[<<I[S \ {Top(S)}], Top(S)>>] = Cq!Split(I[S \ {Top(S)}], s[Top(S)])
    <3>1. I[S \ {Top(S)}] \in SplitAcc /\ Top(S) \in 1..n
      BY <2>2, TopIn
    <3> QED
      BY <1>2, <3>1
  <2>3. Q(I)
    BY <2>1, <2>2 DEF Iterates
  <2> HIDE DEF Q
  <2> QED
    BY <1>3, <2>3
<1>7. Steps(J, SplitAcc, n, <<<<>>>>, step)
  <2>1. J[{}] = <<<<>>>>
    BY <1>6
  <2>2. ASSUME NEW S \in SUBSET (1..n), S # {}, J[S \ {Top(S)}] \in SplitAcc
        PROVE  J[S] = step[<<J[S \ {Top(S)}], Top(S)>>]
    <3>1. J[S] = Cq!Split(J[S \ {Top(S)}], s[Top(S)])
      BY <1>6, <2>2
    <3> QED
      BY <1>2, <2>2, <3>1, TopIn
  <2> QED
    BY <2>1, <2>2 DEF Steps
<1> HIDE DEF Q
<1>8. PICK r \in [0..n -> SplitAcc] : Run(r, n, <<<<>>>>, step, J)
  BY <1>5, <1>7, FoldRun
<1>9. ASSUME NEW k \in 1..n PROVE r[k] = Cq!Split(r[k - 1], s[k])
  <2>1. k - 1 \in 0..n
    OBVIOUS
  <2>2. r[k - 1] \in SplitAcc /\ r[k] = step[<<r[k - 1], k>>]
    BY <1>8, <2>1 DEF Run
  <2> QED
    BY <1>2, <2>2
<1> QED
  BY <1>1, <1>4, <1>8, <1>9 DEF Run

LEMMA StripKeeps ==
    ASSUME NEW a \in StripAcc, NEW t \in Token
    PROVE  Cq!Strip(a, t) \in StripAcc
<1>1. a.depth \in Nat /\ a.text \in Seq(Token) /\ Append(a.text, t) \in Seq(Token)
  BY DEF StripAcc
<1>2. a.depth > 0 => Cq!Deeper(a.depth, t) \in Nat
  BY <1>1 DEF Cq!Deeper
<1> QED
  BY <1>1, <1>2 DEF StripAcc, Cq!Strip

LEMMA StripRun ==
    ASSUME NEW s \in Seq(Token)
    PROVE  \E r \in [0..Len(s) -> StripAcc] :
              /\ r[0] = StripBase /\ r[Len(s)] = Cq!Stripped(s)
              /\ \A k \in 1..Len(s) : r[k] = Cq!Strip(r[k - 1], s[k])
<1>1. PICK n \in Nat : n = Len(s) /\ DOMAIN s = 1..n /\ \A k \in 1..n : s[k] \in Token
  OBVIOUS
<1>2. PICK step \in [StripAcc \X (1..n) -> StripAcc] :
          \A a \in StripAcc, k \in 1..n : step[<<a, k>>] = Cq!Strip(a, s[k])
  <2> DEFINE step == [q \in StripAcc \X (1..n) |-> Cq!Strip(q[1], s[q[2]])]
  <2>1. step \in [StripAcc \X (1..n) -> StripAcc]
    BY <1>1, StripKeeps
  <2>2. \A a \in StripAcc, k \in 1..n : step[<<a, k>>] = Cq!Strip(a, s[k])
    OBVIOUS
  <2> HIDE DEF step
  <2> QED
    BY <2>1, <2>2
<1> DEFINE Q(J) == J = [S \in SUBSET (1..n) |->
                           IF S = {} THEN StripBase ELSE LET x == Top(S) IN Cq!Strip(J[S \ {x}], s[x])]
<1>3. PICK J : J = CHOOSE I : Q(I)
  OBVIOUS
<1>4. Cq!Stripped(s) = J[1..n]
  BY <1>1, <1>3 DEF Cq!Stripped, StripBase, Cq!FoldLeft, Cq!MapThenFoldSet, Cq!Max, Top
<1>5. StripBase \in StripAcc
  BY EmptySeq DEF StripAcc, StripBase
<1>6. Q(J)
  <2>1. PICK I \in [SUBSET (1..n) -> StripAcc] : Iterates(I, n, StripBase, step)
    BY <1>5, FoldExists
  <2>2. ASSUME NEW S \in SUBSET (1..n), S # {}
        PROVE  step[<<I[S \ {Top(S)}], Top(S)>>] = Cq!Strip(I[S \ {Top(S)}], s[Top(S)])
    <3>1. I[S \ {Top(S)}] \in StripAcc /\ Top(S) \in 1..n
      BY <2>2, TopIn
    <3> QED
      BY <1>2, <3>1
  <2>3. Q(I)
    BY <2>1, <2>2 DEF Iterates
  <2> HIDE DEF Q
  <2> QED
    BY <1>3, <2>3
<1>7. Steps(J, StripAcc, n, StripBase, step)
  <2>1. J[{}] = StripBase
    BY <1>6
  <2>2. ASSUME NEW S \in SUBSET (1..n), S # {}, J[S \ {Top(S)}] \in StripAcc
        PROVE  J[S] = step[<<J[S \ {Top(S)}], Top(S)>>]
    <3>1. J[S] = Cq!Strip(J[S \ {Top(S)}], s[Top(S)])
      BY <1>6, <2>2
    <3> QED
      BY <1>2, <2>2, <3>1, TopIn
  <2> QED
    BY <2>1, <2>2 DEF Steps
<1> HIDE DEF Q
<1>8. PICK r \in [0..n -> StripAcc] : Run(r, n, StripBase, step, J)
  BY <1>5, <1>7, FoldRun
<1>9. ASSUME NEW k \in 1..n PROVE r[k] = Cq!Strip(r[k - 1], s[k])
  <2>1. k - 1 \in 0..n
    OBVIOUS
  <2>2. r[k - 1] \in StripAcc /\ r[k] = step[<<r[k - 1], k>>]
    BY <1>8, <2>1 DEF Run
  <2> QED
    BY <1>2, <2>2
<1> QED
  BY <1>1, <1>4, <1>8, <1>9 DEF Run

(* One part of a code is named key at most where the code has the key. *)
LEMMA UrlKeeps ==
    ASSUME NEW s \in Seq(Token)
    PROVE  Cq!UrlIn(s) \in Seq(Seq(Token))
<1>1. PICK ps \in Seq(Seq(Token)) : ps = Cq!Parts(s)
  <2>1. PICK n \in Nat : n = Len(s)
    OBVIOUS
  <2>2. PICK r \in [0..n -> SplitAcc] : r[n] = Cq!Parts(s)
    BY <2>1, SplitRun
  <2> QED
    BY <2>2 DEF SplitAcc
<1>2. PICK us : us = Cq!With("url=", ps)
  OBVIOUS
<1>3. CASE us = {}
  <2>1. Cq!UrlIn(s) = <<>>
    BY <1>1, <1>2, <1>3 DEF Cq!UrlIn
  <2> QED
    BY <2>1, EmptySeq
<1>4. CASE us # {}
  <2>1. us \subseteq DOMAIN ps /\ \A i \in us : ps[i] # <<>>
    BY <1>2 DEF Cq!With
  <2>2. PICK n \in Nat : n = Len(ps) /\ DOMAIN ps = 1..n
    OBVIOUS
  <2>3. us \in SUBSET (0..n)
    BY <2>1, <2>2
  <2>4. Top(us) \in us
    BY <1>4, <2>3, GreatestOf
  <2>5. ps[Top(us)] \in Seq(Token) /\ ps[Top(us)] # <<>>
    BY <2>1, <2>4
  <2>6. Tail(ps[Top(us)]) \in Seq(Token)
    BY <2>5, HeadTailProperties
  <2>7. Cq!UrlIn(s) = <<Tail(ps[Top(us)])>>
    BY <1>1, <1>2, <1>4 DEF Cq!UrlIn, Cq!Max, Top
  <2> QED
    BY <2>6, <2>7
<1> QED
  BY <1>3, <1>4

LEMMA ScanKeeps ==
    ASSUME NEW a \in ScanAcc, NEW t \in Token
    PROVE  Cq!Scan(a, t) \in ScanAcc
<1>1. /\ a.depth \in Nat /\ a.inner \in Seq(Token) /\ a.images \in Seq(Seq(Token))
      /\ Append(a.inner, t) \in Seq(Token) /\ <<>> \in Seq(Token)
  BY EmptySeq DEF ScanAcc
<1>2. a.depth > 0 => Cq!Deeper(a.depth, t) \in Nat
  BY <1>1 DEF Cq!Deeper
<1>3. a.images \o Cq!UrlIn(a.inner) \in Seq(Seq(Token))
  BY <1>1, UrlKeeps, ConcatProperties
<1> QED
  BY <1>1, <1>2, <1>3 DEF ScanAcc, Cq!Scan

LEMMA ScanRun ==
    ASSUME NEW s \in Seq(Token)
    PROVE  \E r \in [0..Len(s) -> ScanAcc] :
              /\ r[0] = ScanBase /\ r[Len(s)] = Cq!Scanned(s)
              /\ \A k \in 1..Len(s) : r[k] = Cq!Scan(r[k - 1], s[k])
<1>1. PICK n \in Nat : n = Len(s) /\ DOMAIN s = 1..n /\ \A k \in 1..n : s[k] \in Token
  OBVIOUS
<1>2. PICK step \in [ScanAcc \X (1..n) -> ScanAcc] :
          \A a \in ScanAcc, k \in 1..n : step[<<a, k>>] = Cq!Scan(a, s[k])
  <2> DEFINE step == [q \in ScanAcc \X (1..n) |-> Cq!Scan(q[1], s[q[2]])]
  <2>1. step \in [ScanAcc \X (1..n) -> ScanAcc]
    BY <1>1, ScanKeeps
  <2>2. \A a \in ScanAcc, k \in 1..n : step[<<a, k>>] = Cq!Scan(a, s[k])
    OBVIOUS
  <2> HIDE DEF step
  <2> QED
    BY <2>1, <2>2
<1> DEFINE Q(J) == J = [S \in SUBSET (1..n) |->
                           IF S = {} THEN ScanBase ELSE LET x == Top(S) IN Cq!Scan(J[S \ {x}], s[x])]
<1>3. PICK J : J = CHOOSE I : Q(I)
  OBVIOUS
<1>4. Cq!Scanned(s) = J[1..n]
  BY <1>1, <1>3 DEF Cq!Scanned, ScanBase, Cq!FoldLeft, Cq!MapThenFoldSet, Cq!Max, Top
<1>5. ScanBase \in ScanAcc
  BY EmptySeq DEF ScanAcc, ScanBase
<1>6. Q(J)
  <2>1. PICK I \in [SUBSET (1..n) -> ScanAcc] : Iterates(I, n, ScanBase, step)
    BY <1>5, FoldExists
  <2>2. ASSUME NEW S \in SUBSET (1..n), S # {}
        PROVE  step[<<I[S \ {Top(S)}], Top(S)>>] = Cq!Scan(I[S \ {Top(S)}], s[Top(S)])
    <3>1. I[S \ {Top(S)}] \in ScanAcc /\ Top(S) \in 1..n
      BY <2>2, TopIn
    <3> QED
      BY <1>2, <3>1
  <2>3. Q(I)
    BY <2>1, <2>2 DEF Iterates
  <2> HIDE DEF Q
  <2> QED
    BY <1>3, <2>3
<1>7. Steps(J, ScanAcc, n, ScanBase, step)
  <2>1. J[{}] = ScanBase
    BY <1>6
  <2>2. ASSUME NEW S \in SUBSET (1..n), S # {}, J[S \ {Top(S)}] \in ScanAcc
        PROVE  J[S] = step[<<J[S \ {Top(S)}], Top(S)>>]
    <3>1. J[S] = Cq!Scan(J[S \ {Top(S)}], s[Top(S)])
      BY <1>6, <2>2
    <3> QED
      BY <1>2, <2>2, <3>1, TopIn
  <2> QED
    BY <2>1, <2>2 DEF Steps
<1> HIDE DEF Q
<1>8. PICK r \in [0..n -> ScanAcc] : Run(r, n, ScanBase, step, J)
  BY <1>5, <1>7, FoldRun
<1>9. ASSUME NEW k \in 1..n PROVE r[k] = Cq!Scan(r[k - 1], s[k])
  <2>1. k - 1 \in 0..n
    OBVIOUS
  <2>2. r[k - 1] \in ScanAcc /\ r[k] = step[<<r[k - 1], k>>]
    BY <1>8, <2>1 DEF Run
  <2> QED
    BY <1>2, <2>2
<1> QED
  BY <1>1, <1>4, <1>8, <1>9 DEF Run

(***************************************************************************)
(* What a segment becomes when it is written and decoded: a text is as it  *)
(* was, and a code is a code, of which only the address is anyone's.       *)
(***************************************************************************)
ImageHead == <<"[CQ:image,", "file=", "a", ",", "url=">>
Piece(s) ==
    CASE s.kind = "text" -> s.text
      [] s.kind = "image" -> ImageHead \o s.url \o <<"]">>
      [] s.kind = "reply" -> <<"[CQ:reply,", "id=", "a", "]">>
      [] s.kind = "at" -> <<"[CQ:at,", "id=", "b", "]">>

Raw == Token \cup Cq!Escaped

LEMMA EscapeUndone ==
    ASSUME Cq!CqAssumption, NEW t \in Token
    PROVE  /\ Cq!Decoded(t) = t
           /\ t \in Tokens => /\ Cq!Escape(t) \in Raw /\ Cq!Decoded(Cq!Escape(t)) = t
                              /\ Cq!EscapeText(t) \in Raw /\ Cq!Decoded(Cq!EscapeText(t)) = t
<1>1. t \notin {"&[", "&[CQ:image,", "&[CQ:reply,", "&[CQ:at,", "&]", "&,"}
  BY DEF Cq!CqAssumption, Cq!Escaped, Token, Literal
<1>2. Cq!Decoded(t) = t
  BY <1>1 DEF Cq!Decoded
<1>3. Cq!Escape(t) \in Raw /\ Cq!Decoded(Cq!Escape(t)) = t
  <2>1. t \in Raw
    BY DEF Raw
  <2>2. CASE t \in {"[", "[CQ:image,", "[CQ:reply,", "[CQ:at,", "]", ","}
    BY <2>2 DEF Cq!Escape, Cq!Decoded, Raw, Cq!Escaped
  <2>3. CASE t \notin {"[", "[CQ:image,", "[CQ:reply,", "[CQ:at,", "]", ","}
    <3>1. Cq!Escape(t) = t
      BY <2>3 DEF Cq!Escape
    <3> QED
      BY <1>2, <2>1, <3>1
  <2> QED
    BY <2>2, <2>3
<1> QED
  BY <1>2, <1>3 DEF Cq!EscapeText, Raw

(* The parts of a segment. *)
LEMMA SegmentKinds ==
    ASSUME Cq!CqAssumption, NEW s \in Cq!Segments
    PROVE  /\ s.kind \in {"text", "image", "reply", "at"}
           /\ s.kind = "text" => s.text \in Seq(Tokens)
           /\ s.kind = "image" => s.url \in Seq(Tokens)
BY DEF Cq!CqAssumption, Cq!Segments

LEMMA Widen ==
    ASSUME NEW X, NEW Y, X \subseteq Y, NEW s \in Seq(X)
    PROVE  s \in Seq(Y)
OBVIOUS

LEMMA Joined ==
    ASSUME NEW X, NEW x \in Seq(X), NEW y \in Seq(X), NEW m \in Nat, m = Len(x), NEW n \in Nat, n = Len(y)
    PROVE  /\ x \o y \in Seq(X) /\ Len(x \o y) = m + n /\ DOMAIN (x \o y) = 1..(m + n)
           /\ \A i \in 1..(m + n) : (x \o y)[i] = IF i <= m THEN x[i] ELSE y[i - m]
           /\ x \o y = [i \in 1..(m + n) |-> IF i <= m THEN x[i] ELSE y[i - m]]
<1>1. /\ x \o y \in Seq(X) /\ Len(x \o y) = Len(x) + Len(y)
      /\ \A i \in 1..(Len(x) + Len(y)) : (x \o y)[i] = IF i <= Len(x) THEN x[i] ELSE y[i - Len(x)]
  BY ConcatProperties
<1>2. PICK z : z = x \o y
  OBVIOUS
<1>3. z \in Seq(X) /\ Len(z) = m + n
  BY <1>1, <1>2
<1>4. DOMAIN z = 1..(m + n) /\ z = [i \in 1..(m + n) |-> z[i]]
  BY <1>3
<1>5. \A i \in 1..(m + n) : z[i] = IF i <= m THEN x[i] ELSE y[i - m]
  BY <1>1, <1>2
<1> QED
  BY <1>2, <1>3, <1>4, <1>5

LEMMA Few ==
    ASSUME NEW X, NEW a \in X, NEW b \in X, NEW c \in X, NEW d \in X
    PROVE  /\ <<a>> \in Seq(X) /\ Len(<<a>>) = 1
           /\ <<a, b, c, d>> \in Seq(X) /\ Len(<<a, b, c, d>>) = 4
OBVIOUS

(* A sequence between two others. *)
Wraps(w, h, u, z, a, n) ==
    /\ Len(w) = a + n + 1 /\ w[a + n + 1] = z
    /\ \A i \in 1..a : w[i] = h[i]
    /\ \A i \in 1..n : w[a + i] = u[i]

LEMMA Between ==
    ASSUME NEW X, NEW h \in Seq(X), NEW u \in Seq(X), NEW z \in X, NEW a \in Nat, a = Len(h),
           NEW n \in Nat, n = Len(u)
    PROVE  h \o u \o <<z>> \in Seq(X) /\ Wraps(h \o u \o <<z>>, h, u, z, a, n)
<1>1. PICK v \in Seq(X) :
          /\ v = h \o u /\ Len(v) = a + n
          /\ \A i \in 1..(a + n) : v[i] = IF i <= a THEN h[i] ELSE u[i - a]
  <2>1. /\ h \o u \in Seq(X) /\ Len(h \o u) = Len(h) + Len(u)
        /\ \A i \in 1..(Len(h) + Len(u)) : (h \o u)[i] = IF i <= Len(h) THEN h[i] ELSE u[i - Len(h)]
    BY ConcatProperties
  <2> QED
    BY <2>1
<1>2. PICK w : w = Append(v, z) /\ w = h \o u \o <<z>>
  <2>1. v \o <<z>> = Append(v, z)
    BY AppendIsConcat
  <2> QED
    BY <1>1, <2>1
<1>3. /\ w \in Seq(X) /\ Len(w) = a + n + 1 /\ w[a + n + 1] = z
      /\ \A i \in 1..(a + n) : w[i] = v[i]
  <2>1. /\ Append(v, z) \in Seq(X) /\ Len(Append(v, z)) = Len(v) + 1
        /\ \A k \in 1..Len(v) : Append(v, z)[k] = v[k]
        /\ Append(v, z)[Len(v) + 1] = z
    BY AppendProperties
  <2> QED
    BY <1>1, <1>2, <2>1
<1>4. \A i \in 1..a : i \in 1..(a + n) /\ i <= a
  OBVIOUS
<1>5. \A i \in 1..n : a + i \in 1..(a + n) /\ ~(a + i <= a) /\ (a + i) - a = i
  OBVIOUS
<1> QED
  BY <1>1, <1>2, <1>3, <1>4, <1>5 DEF Wraps

LEMMA ImageHeadIs ==
    /\ ImageHead \in Seq(Token) /\ Len(ImageHead) = 5 /\ "]" \in Token
    /\ ImageHead[1] = "[CQ:image," /\ ImageHead[2] = "file=" /\ ImageHead[3] = "a"
    /\ ImageHead[4] = "," /\ ImageHead[5] = "url="
BY DEF ImageHead, Token, Literal

LEMMA DecodeConcat ==
    ASSUME NEW x \in Seq(Raw), NEW y \in Seq(Raw)
    PROVE  Cq!Decode(x \o y) = Cq!Decode(x) \o Cq!Decode(y)
<1>1. PICK m \in Nat : m = Len(x) /\ DOMAIN x = 1..m
  OBVIOUS
<1>2. PICK n \in Nat : n = Len(y) /\ DOMAIN y = 1..n
  OBVIOUS
<1>3. PICK z : /\ z = x \o y /\ DOMAIN z = 1..(m + n)
               /\ \A i \in 1..(m + n) : z[i] = IF i <= m THEN x[i] ELSE y[i - m]
  <2>1. /\ DOMAIN (x \o y) = 1..(m + n)
        /\ \A i \in 1..(m + n) : (x \o y)[i] = IF i <= m THEN x[i] ELSE y[i - m]
    BY <1>1, <1>2, Joined
  <2> QED
    BY <2>1
<1>4. PICK dx : dx = Cq!Decode(x) /\ dx = [i \in 1..m |-> Cq!Decoded(x[i])]
  BY <1>1 DEF Cq!Decode
<1>5. PICK dy : dy = Cq!Decode(y) /\ dy = [i \in 1..n |-> Cq!Decoded(y[i])]
  BY <1>2 DEF Cq!Decode
<1>6. PICK S : dx \in Seq(S) /\ dy \in Seq(S)
  <2> DEFINE S == {dx[i] : i \in 1..m} \cup {dy[i] : i \in 1..n}
  <2>1. dx \in [1..m -> S] /\ dy \in [1..n -> S]
    BY <1>4, <1>5
  <2>2. dx \in Seq(S) /\ dy \in Seq(S)
    <3> HIDE DEF S
    <3> QED
      BY <2>1
  <2> HIDE DEF S
  <2> QED
    BY <2>2
<1>7. Len(dx) = m /\ Len(dy) = n
  BY <1>4, <1>5, <1>6
<1>8. PICK d : /\ d = dx \o dy /\ d = [i \in 1..(m + n) |-> IF i <= m THEN dx[i] ELSE dy[i - m]]
  <2>1. dx \o dy \in Seq(S) /\ Len(dx \o dy) = m + n /\ DOMAIN (dx \o dy) = 1..(m + n)
        /\ \A i \in 1..(m + n) : (dx \o dy)[i] = IF i <= m THEN dx[i] ELSE dy[i - m]
    BY <1>6, <1>7, Joined
  <2>2. PICK e : e = dx \o dy
    OBVIOUS
  <2>3. e \in Seq(S) /\ Len(e) = m + n /\ DOMAIN e = 1..(m + n)
        /\ \A i \in 1..(m + n) : e[i] = IF i <= m THEN dx[i] ELSE dy[i - m]
    BY <2>1, <2>2
  <2>4. e = [i \in 1..(m + n) |-> e[i]]
    BY <2>3
  <2>5. e = [i \in 1..(m + n) |-> IF i <= m THEN dx[i] ELSE dy[i - m]]
    BY <2>3, <2>4
  <2> QED
    BY <2>2, <2>5
<1>9. \A i \in 1..(m + n) : Cq!Decoded(z[i]) = d[i]
  <2> SUFFICES ASSUME NEW i \in 1..(m + n) PROVE Cq!Decoded(z[i]) = d[i]
    OBVIOUS
  <2>1. CASE i <= m
    <3>1. i \in 1..m
      BY <2>1
    <3> QED
      BY <1>3, <1>4, <1>8, <2>1, <3>1
  <2>2. CASE ~(i <= m)
    <3>1. i - m \in 1..n
      BY <2>2
    <3> QED
      BY <1>3, <1>5, <1>8, <2>2, <3>1
  <2> QED
    BY <2>1, <2>2
<1>10. Cq!Decode(z) = [i \in 1..(m + n) |-> Cq!Decoded(z[i])]
  BY <1>3 DEF Cq!Decode
<1>11. Cq!Decode(z) = d
  BY <1>8, <1>9, <1>10
<1> QED
  BY <1>3, <1>4, <1>5, <1>8, <1>11

(* A token is as it was decoded. *)
LEMMA DecodePlain ==
    ASSUME Cq!CqAssumption, NEW s \in Seq(Token)
    PROVE  Cq!Decode(s) = s /\ s \in Seq(Raw)
<1>1. PICK n \in Nat : n = Len(s) /\ s = [i \in 1..n |-> s[i]] /\ \A i \in 1..n : s[i] \in Token
  OBVIOUS
<1>2. \A i \in 1..n : Cq!Decoded(s[i]) = s[i]
  BY <1>1, EscapeUndone
<1>3. Cq!Decode(s) = s
  BY <1>1, <1>2 DEF Cq!Decode
<1>4. Token \subseteq Raw
  BY DEF Raw
<1> QED
  BY <1>3, <1>4, Widen

(* An escaped address, or an escaped text, is decoded to what it was. *)
LEMMA EscapedBack ==
    ASSUME Cq!CqAssumption, NEW s \in Seq(Tokens), NEW u,
           \/ u = [i \in DOMAIN s |-> Cq!Escape(s[i])]
           \/ u = [i \in DOMAIN s |-> Cq!EscapeText(s[i])]
    PROVE  u \in Seq(Raw) /\ Cq!Decode(u) = s
<1>1. PICK n \in Nat : /\ n = Len(s) /\ DOMAIN s = 1..n /\ s = [i \in 1..n |-> s[i]]
                       /\ \A i \in 1..n : s[i] \in Tokens
  OBVIOUS
<1>2. DOMAIN u = 1..n /\ u = [i \in 1..n |-> u[i]]
  BY <1>1
<1>3. \A i \in 1..n : u[i] \in Raw /\ Cq!Decoded(u[i]) = s[i]
  <2>1. \A i \in 1..n : s[i] \in Token /\ s[i] \in Tokens
    BY <1>1 DEF Token
  <2>2. \A i \in 1..n : /\ Cq!Escape(s[i]) \in Raw /\ Cq!Decoded(Cq!Escape(s[i])) = s[i]
                        /\ Cq!EscapeText(s[i]) \in Raw /\ Cq!Decoded(Cq!EscapeText(s[i])) = s[i]
    BY <2>1, EscapeUndone
  <2> QED
    BY <1>1, <2>2
<1>4. u \in [1..n -> Raw]
  BY <1>2, <1>3
<1>5. u \in Seq(Raw)
  BY <1>4
<1>6. Cq!Decode(u) = [i \in 1..n |-> s[i]]
  BY <1>2, <1>3 DEF Cq!Decode
<1> QED
  BY <1>1, <1>5, <1>6

LEMMA PieceDecoded ==
    ASSUME Cq!CqAssumption, NEW s \in Cq!Segments
    PROVE  Cq!Wire(s) \in Seq(Raw) /\ Piece(s) \in Seq(Token) /\ Cq!Decode(Cq!Wire(s)) = Piece(s)
<1>1. CASE s.kind = "text"
  <2>1. s.text \in Seq(Tokens) /\ Tokens \subseteq Token
    BY <1>1, SegmentKinds DEF Token
  <2>2. Piece(s) = s.text /\ Cq!Wire(s) = [i \in DOMAIN s.text |-> Cq!EscapeText(s.text[i])]
    BY <1>1 DEF Piece, Cq!Wire
  <2>3. s.text \in Seq(Token)
    BY <2>1, Widen
  <2> QED
    BY <2>1, <2>2, <2>3, EscapedBack
<1>2. CASE s.kind = "image"
  <2>1. s.url \in Seq(Tokens) /\ Tokens \subseteq Token
    BY <1>2, SegmentKinds DEF Token
  <2>2. PICK u : u = [i \in DOMAIN s.url |-> Cq!Escape(s.url[i])]
    OBVIOUS
  <2>3. u \in Seq(Raw) /\ Cq!Decode(u) = s.url
    BY <2>1, <2>2, EscapedBack
  <2>4. Piece(s) = ImageHead \o s.url \o <<"]">> /\ Cq!Wire(s) = ImageHead \o u \o <<"]">>
    BY <1>2, <2>2 DEF Piece, Cq!Wire, ImageHead
  <2>5. <<"]">> \in Seq(Token) /\ ImageHead \in Seq(Token)
    BY ImageHeadIs, Few
  <2>6. /\ Cq!Decode(ImageHead) = ImageHead /\ ImageHead \in Seq(Raw)
        /\ Cq!Decode(<<"]">>) = <<"]">> /\ <<"]">> \in Seq(Raw)
    BY <2>5, DecodePlain
  <2>7. Cq!Decode(ImageHead \o u) = ImageHead \o s.url /\ ImageHead \o u \in Seq(Raw)
    BY <2>3, <2>6, DecodeConcat, ConcatProperties
  <2>8. Cq!Wire(s) \in Seq(Raw) /\ Cq!Decode(Cq!Wire(s)) = Piece(s)
    BY <2>4, <2>6, <2>7, DecodeConcat, ConcatProperties
  <2>9. s.url \in Seq(Token)
    BY <2>1, Widen
  <2>10. Piece(s) \in Seq(Token)
    BY <2>4, <2>5, <2>9, ConcatProperties
  <2> QED
    BY <2>8, <2>10
<1>3. CASE s.kind \in {"reply", "at"}
  <2>1. Cq!Wire(s) = Piece(s)
    BY <1>3 DEF Cq!Wire, Piece
  <2>2. /\ "[CQ:reply," \in Token /\ "[CQ:at," \in Token /\ "id=" \in Token /\ "a" \in Token
        /\ "b" \in Token /\ "]" \in Token
    BY DEF Token, Literal
  <2>3. CASE s.kind = "reply"
    <3>1. Piece(s) = <<"[CQ:reply,", "id=", "a", "]">>
      BY <2>3 DEF Piece
    <3>2. <<"[CQ:reply,", "id=", "a", "]">> \in Seq(Token)
      BY <2>2, Few
    <3> QED
      BY <2>1, <3>1, <3>2, DecodePlain
  <2>4. CASE s.kind = "at"
    <3>1. Piece(s) = <<"[CQ:at,", "id=", "b", "]">>
      BY <2>4 DEF Piece
    <3>2. <<"[CQ:at,", "id=", "b", "]">> \in Seq(Token)
      BY <2>2, Few
    <3> QED
      BY <2>1, <3>1, <3>2, DecodePlain
  <2> QED
    BY <1>3, <2>3, <2>4
<1> QED
  BY <1>1, <1>2, <1>3, SegmentKinds

(* What FlattenSeq computes, piece by piece. *)
Flattens(r, n, w) ==
    r[0] = <<>> /\ r[n] = Cq!FlattenSeq(w) /\ \A k \in 1..n : r[k] = r[k - 1] \o w[k]

LEMMA FlattenRun ==
    ASSUME NEW X, NEW n \in Nat \ {0}, NEW w \in [1..n -> Seq(X)]
    PROVE  \E r \in [0..n -> Seq(X)] : Flattens(r, n, w)
<1> DEFINE step == [q \in Seq(X) \X (1..n) |-> q[1] \o w[q[2]]]
<1>1. step \in [Seq(X) \X (1..n) -> Seq(X)]
  <2>1. ASSUME NEW a \in Seq(X), NEW k \in 1..n PROVE a \o w[k] \in Seq(X)
    BY ConcatProperties
  <2> QED
    BY <2>1
<1>2. \A a \in Seq(X), k \in 1..n : step[<<a, k>>] = a \o w[k]
  OBVIOUS
<1> HIDE DEF step
<1>3. n \in Nat /\ <<>> \in Seq(X)
  BY EmptySeq
<1>4. PICK I \in [SUBSET (1..n) -> Seq(X)] : Iterates(I, n, <<>>, step)
  BY <1>1, <1>3, FoldExists
<1>5. Steps(I, Seq(X), n, <<>>, step)
  BY <1>4 DEF Iterates, Steps
<1>6. PICK r \in [0..n -> Seq(X)] : Run(r, n, <<>>, step, I)
  BY <1>1, <1>3, <1>5, FoldRun
<1>7. r[0] = <<>> /\ \A k \in 1..n : r[k] = r[k - 1] \o w[k]
  <2>1. \A k \in 1..n : k - 1 \in 0..n
    OBVIOUS
  <2> QED
    BY <1>2, <1>6, <2>1 DEF Run
<1> DEFINE Q(f) == f = [i \in 1..n |-> IF i = 1 THEN w[1] ELSE f[i - 1] \o w[i]]
<1>8. Q([i \in 1..n |-> r[i]])
  <2>1. 1 \in 1..n /\ r[1] = w[1]
    <3>1. 1 \in 1..n /\ 1 - 1 = 0 /\ w[1] \in Seq(X) /\ <<>> \o w[1] = w[1]
      OBVIOUS
    <3>2. r[1] = r[1 - 1] \o w[1]
      BY <1>7, <3>1
    <3>3. r[1 - 1] = <<>>
      BY <1>7, <3>1
    <3> QED
      BY <3>1, <3>2, <3>3
  <2>2. \A i \in 1..n : i # 1 => i - 1 \in 1..n
    OBVIOUS
  <2>3. \A i \in 1..n : r[i] = IF i = 1 THEN w[1] ELSE [j \in 1..n |-> r[j]][i - 1] \o w[i]
    BY <1>7, <2>1, <2>2
  <2> QED
    BY <2>3
<1>9. PICK f : f = CHOOSE g : Q(g)
  OBVIOUS
<1>10. Q(f)
  <2> HIDE DEF Q
  <2> QED
    BY <1>8, <1>9
<1>11. Cq!FlattenSeq(w) = f[n]
  <2>1. DOMAIN w = 1..n /\ w \in Seq(Seq(X))
    OBVIOUS
  <2>2. Len(w) = n /\ n # 0
    BY <2>1
  <2> QED
    BY <1>9, <2>2 DEF Cq!FlattenSeq
<1>12. f[n] = r[n]
  <2>1. \A i \in 1..n : f[i] = IF i = 1 THEN w[1] ELSE f[i - 1] \o w[i]
    BY <1>10
  <2> DEFINE T == {k \in 0..n : k # 0 => f[k] = r[k]}
  <2>2. 0 \in T
    OBVIOUS
  <2>3. \A k \in 0..n : k \in T /\ k < n => k + 1 \in T
    <3> SUFFICES ASSUME NEW k \in T, k < n PROVE k + 1 \in T
      OBVIOUS
    <3>1. k \in 0..n /\ k + 1 \in 1..n /\ (k + 1) - 1 = k /\ (k + 1 = 1 => k = 0)
      OBVIOUS
    <3>2. r[k + 1] = r[k] \o w[k + 1] /\ f[k + 1] = IF k + 1 = 1 THEN w[1] ELSE f[k] \o w[k + 1]
      BY <1>7, <2>1, <3>1
    <3>3. CASE k = 0
      <4>1. w[1] \in Seq(X) /\ <<>> \o w[1] = w[1]
        OBVIOUS
      <4>2. k + 1 = 1 /\ r[k] = <<>>
        BY <1>7, <3>3
      <4>3. f[k + 1] = w[1] /\ r[k + 1] = <<>> \o w[1]
        BY <3>2, <4>2
      <4>4. f[k + 1] = r[k + 1]
        BY <4>1, <4>3
      <4> QED
        BY <3>1, <4>4
    <3>4. CASE k # 0
      <4>1. f[k] = r[k] /\ k + 1 # 1
        BY <3>4
      <4>2. f[k + 1] = r[k + 1]
        BY <3>2, <4>1
      <4> QED
        BY <3>1, <4>2
    <3> QED
      BY <3>3, <3>4
  <2>4. \A k \in 0..n : k \in T
    <3> HIDE DEF T
    <3> QED
      BY <1>3, <2>2, <2>3, Upto
  <2> QED
    BY <2>4
<1> QED
  BY <1>7, <1>11, <1>12 DEF Flattens


(***************************************************************************)
(* Reading on: what each scan makes of a string and one more token.        *)
(***************************************************************************)
LEMMA SplitAppend ==
    /\ Cq!Parts(<<>>) = <<<<>>>>
    /\ \A s \in Seq(Token), t \in Token :
           Cq!Parts(s) \in SplitAcc /\ Cq!Parts(Append(s, t)) = Cq!Split(Cq!Parts(s), t)
<1>1. Cq!Parts(<<>>) = <<<<>>>>
  <2>1. <<>> \in Seq(Token) /\ Len(<<>>) = 0
    BY EmptySeq
  <2>2. PICK n \in Nat : n = Len(<<>>) /\ n = 0
    BY <2>1
  <2>3. PICK r \in [0..n -> SplitAcc] : r[0] = <<<<>>>> /\ r[n] = Cq!Parts(<<>>)
    BY <2>1, <2>2, SplitRun
  <2> QED
    BY <2>2, <2>3
<1> SUFFICES ASSUME NEW s \in Seq(Token), NEW t \in Token
             PROVE  Cq!Parts(s) \in SplitAcc /\ Cq!Parts(Append(s, t)) = Cq!Split(Cq!Parts(s), t)
  BY <1>1
<1>2. PICK n \in Nat : n = Len(s)
  OBVIOUS
<1>3. PICK r \in [0..n -> SplitAcc] :
          r[0] = <<<<>>>> /\ r[n] = Cq!Parts(s) /\ \A k \in 1..n : r[k] = Cq!Split(r[k - 1], s[k])
  BY <1>2, SplitRun
<1>4. PICK u \in Seq(Token) : /\ u = Append(s, t) /\ Len(u) = n + 1 /\ u[n + 1] = t
                             /\ \A k \in 1..n : u[k] = s[k]
  <2>1. /\ Append(s, t) \in Seq(Token) /\ Len(Append(s, t)) = Len(s) + 1
        /\ \A k \in 1..Len(s) : Append(s, t)[k] = s[k]
        /\ Append(s, t)[Len(s) + 1] = t
    BY AppendProperties
  <2> QED
    BY <1>2, <2>1
<1>5. PICK m \in Nat : m = Len(u) /\ m = n + 1
  BY <1>4
<1>6. PICK q \in [0..m -> SplitAcc] :
          q[0] = <<<<>>>> /\ q[m] = Cq!Parts(u) /\ \A k \in 1..m : q[k] = Cq!Split(q[k - 1], u[k])
  BY <1>5, SplitRun
<1> DEFINE T == {k \in 0..n : q[k] = r[k]}
<1>7. 0 \in T
  <2>1. 0 \in 0..n /\ q[0] = r[0]
    BY <1>3, <1>6
  <2> QED
    BY <2>1
<1>8. \A k \in 0..n : k \in T /\ k < n => k + 1 \in T
  <2> SUFFICES ASSUME NEW k \in T, k < n PROVE k + 1 \in T
    OBVIOUS
  <2>1. k + 1 \in 1..n /\ k + 1 \in 1..m /\ (k + 1) - 1 = k /\ k + 1 \in 0..n
    BY <1>5
  <2>2. q[k + 1] = Cq!Split(q[k], u[k + 1]) /\ r[k + 1] = Cq!Split(r[k], s[k + 1]) /\ u[k + 1] = s[k + 1]
    BY <1>3, <1>4, <1>6, <2>1
  <2> QED
    BY <2>1, <2>2
<1>9. q[n] = r[n]
  <2>1. \A k \in 0..n : k \in T
    <3> HIDE DEF T
    <3> QED
      BY <1>7, <1>8, Upto
  <2>2. n \in 0..n
    OBVIOUS
  <2> QED
    BY <2>1, <2>2
<1>10. m \in 1..m /\ m - 1 = n /\ n \in 0..n
  BY <1>5
<1>11. q[m] = Cq!Split(q[n], u[m])
  BY <1>6, <1>10
<1> QED
  BY <1>3, <1>4, <1>5, <1>6, <1>9, <1>10, <1>11

LEMMA StripAppend ==
    /\ Cq!Stripped(<<>>) = StripBase
    /\ \A s \in Seq(Token), t \in Token :
           Cq!Stripped(s) \in StripAcc /\ Cq!Stripped(Append(s, t)) = Cq!Strip(Cq!Stripped(s), t)
<1>1. Cq!Stripped(<<>>) = StripBase
  <2>1. <<>> \in Seq(Token) /\ Len(<<>>) = 0
    BY EmptySeq
  <2>2. PICK n \in Nat : n = Len(<<>>) /\ n = 0
    BY <2>1
  <2>3. PICK r \in [0..n -> StripAcc] : r[0] = StripBase /\ r[n] = Cq!Stripped(<<>>)
    BY <2>1, <2>2, StripRun
  <2> QED
    BY <2>2, <2>3
<1> SUFFICES ASSUME NEW s \in Seq(Token), NEW t \in Token
             PROVE  Cq!Stripped(s) \in StripAcc /\ Cq!Stripped(Append(s, t)) = Cq!Strip(Cq!Stripped(s), t)
  BY <1>1
<1>2. PICK n \in Nat : n = Len(s)
  OBVIOUS
<1>3. PICK r \in [0..n -> StripAcc] :
          r[0] = StripBase /\ r[n] = Cq!Stripped(s) /\ \A k \in 1..n : r[k] = Cq!Strip(r[k - 1], s[k])
  BY <1>2, StripRun
<1>4. PICK u \in Seq(Token) : /\ u = Append(s, t) /\ Len(u) = n + 1 /\ u[n + 1] = t
                             /\ \A k \in 1..n : u[k] = s[k]
  <2>1. /\ Append(s, t) \in Seq(Token) /\ Len(Append(s, t)) = Len(s) + 1
        /\ \A k \in 1..Len(s) : Append(s, t)[k] = s[k]
        /\ Append(s, t)[Len(s) + 1] = t
    BY AppendProperties
  <2> QED
    BY <1>2, <2>1
<1>5. PICK m \in Nat : m = Len(u) /\ m = n + 1
  BY <1>4
<1>6. PICK q \in [0..m -> StripAcc] :
          q[0] = StripBase /\ q[m] = Cq!Stripped(u) /\ \A k \in 1..m : q[k] = Cq!Strip(q[k - 1], u[k])
  BY <1>5, StripRun
<1> DEFINE T == {k \in 0..n : q[k] = r[k]}
<1>7. 0 \in T
  <2>1. 0 \in 0..n /\ q[0] = r[0]
    BY <1>3, <1>6
  <2> QED
    BY <2>1
<1>8. \A k \in 0..n : k \in T /\ k < n => k + 1 \in T
  <2> SUFFICES ASSUME NEW k \in T, k < n PROVE k + 1 \in T
    OBVIOUS
  <2>1. k + 1 \in 1..n /\ k + 1 \in 1..m /\ (k + 1) - 1 = k /\ k + 1 \in 0..n
    BY <1>5
  <2>2. q[k + 1] = Cq!Strip(q[k], u[k + 1]) /\ r[k + 1] = Cq!Strip(r[k], s[k + 1]) /\ u[k + 1] = s[k + 1]
    BY <1>3, <1>4, <1>6, <2>1
  <2> QED
    BY <2>1, <2>2
<1>9. q[n] = r[n]
  <2>1. \A k \in 0..n : k \in T
    <3> HIDE DEF T
    <3> QED
      BY <1>7, <1>8, Upto
  <2>2. n \in 0..n
    OBVIOUS
  <2> QED
    BY <2>1, <2>2
<1>10. m \in 1..m /\ m - 1 = n /\ n \in 0..n
  BY <1>5
<1>11. q[m] = Cq!Strip(q[n], u[m])
  BY <1>6, <1>10
<1> QED
  BY <1>3, <1>4, <1>5, <1>6, <1>9, <1>10, <1>11

LEMMA ScanAppend ==
    /\ Cq!Scanned(<<>>) = ScanBase
    /\ \A s \in Seq(Token), t \in Token :
           Cq!Scanned(s) \in ScanAcc /\ Cq!Scanned(Append(s, t)) = Cq!Scan(Cq!Scanned(s), t)
<1>1. Cq!Scanned(<<>>) = ScanBase
  <2>1. <<>> \in Seq(Token) /\ Len(<<>>) = 0
    BY EmptySeq
  <2>2. PICK n \in Nat : n = Len(<<>>) /\ n = 0
    BY <2>1
  <2>3. PICK r \in [0..n -> ScanAcc] : r[0] = ScanBase /\ r[n] = Cq!Scanned(<<>>)
    BY <2>1, <2>2, ScanRun
  <2> QED
    BY <2>2, <2>3
<1> SUFFICES ASSUME NEW s \in Seq(Token), NEW t \in Token
             PROVE  Cq!Scanned(s) \in ScanAcc /\ Cq!Scanned(Append(s, t)) = Cq!Scan(Cq!Scanned(s), t)
  BY <1>1
<1>2. PICK n \in Nat : n = Len(s)
  OBVIOUS
<1>3. PICK r \in [0..n -> ScanAcc] :
          r[0] = ScanBase /\ r[n] = Cq!Scanned(s) /\ \A k \in 1..n : r[k] = Cq!Scan(r[k - 1], s[k])
  BY <1>2, ScanRun
<1>4. PICK u \in Seq(Token) : /\ u = Append(s, t) /\ Len(u) = n + 1 /\ u[n + 1] = t
                             /\ \A k \in 1..n : u[k] = s[k]
  <2>1. /\ Append(s, t) \in Seq(Token) /\ Len(Append(s, t)) = Len(s) + 1
        /\ \A k \in 1..Len(s) : Append(s, t)[k] = s[k]
        /\ Append(s, t)[Len(s) + 1] = t
    BY AppendProperties
  <2> QED
    BY <1>2, <2>1
<1>5. PICK m \in Nat : m = Len(u) /\ m = n + 1
  BY <1>4
<1>6. PICK q \in [0..m -> ScanAcc] :
          q[0] = ScanBase /\ q[m] = Cq!Scanned(u) /\ \A k \in 1..m : q[k] = Cq!Scan(q[k - 1], u[k])
  BY <1>5, ScanRun
<1> DEFINE T == {k \in 0..n : q[k] = r[k]}
<1>7. 0 \in T
  <2>1. 0 \in 0..n /\ q[0] = r[0]
    BY <1>3, <1>6
  <2> QED
    BY <2>1
<1>8. \A k \in 0..n : k \in T /\ k < n => k + 1 \in T
  <2> SUFFICES ASSUME NEW k \in T, k < n PROVE k + 1 \in T
    OBVIOUS
  <2>1. k + 1 \in 1..n /\ k + 1 \in 1..m /\ (k + 1) - 1 = k /\ k + 1 \in 0..n
    BY <1>5
  <2>2. q[k + 1] = Cq!Scan(q[k], u[k + 1]) /\ r[k + 1] = Cq!Scan(r[k], s[k + 1]) /\ u[k + 1] = s[k + 1]
    BY <1>3, <1>4, <1>6, <2>1
  <2> QED
    BY <2>1, <2>2
<1>9. q[n] = r[n]
  <2>1. \A k \in 0..n : k \in T
    <3> HIDE DEF T
    <3> QED
      BY <1>7, <1>8, Upto
  <2>2. n \in 0..n
    OBVIOUS
  <2> QED
    BY <2>1, <2>2
<1>10. m \in 1..m /\ m - 1 = n /\ n \in 0..n
  BY <1>5
<1>11. q[m] = Cq!Scan(q[n], u[m])
  BY <1>6, <1>10
<1> QED
  BY <1>3, <1>4, <1>5, <1>6, <1>9, <1>10, <1>11

LEMMA OneLonger == ASSUME NEW k \in Nat PROVE 1..(k + 1) = 1..k \cup {k + 1}
<1>1. ASSUME NEW i PROVE i \in 1..(k + 1) <=> i \in 1..k \/ i = k + 1
  OBVIOUS
<1> QED
  BY <1>1

LEMMA OneOn ==
    ASSUME NEW n \in Nat, NEW k \in 0..n, k < n
    PROVE  k + 1 \in 1..n /\ (k + 1) - 1 = k /\ k + 1 \in 0..n /\ k \in 0..n
OBVIOUS

(* s followed by x, token by token. *)
Grows(P, n, s, x) == P[0] = s /\ P[n] = s \o x /\ \A k \in 1..n : P[k] = Append(P[k - 1], x[k])

LEMMA Prefixes ==
    ASSUME NEW X, NEW s \in Seq(X), NEW x \in Seq(X), NEW n \in Nat, n = Len(x)
    PROVE  \E P \in [0..n -> Seq(X)] : Grows(P, n, s, x)
<1>1. ASSUME NEW k \in 0..n
      PROVE  /\ SubSeq(x, 1, k) \in Seq(X) /\ s \o SubSeq(x, 1, k) \in Seq(X)
             /\ k < n => s \o SubSeq(x, 1, k + 1) = Append(s \o SubSeq(x, 1, k), x[k + 1])
  <2>1. SubSeq(x, 1, k) \in Seq(X)
    OBVIOUS
  <2>2. ASSUME k < n PROVE s \o SubSeq(x, 1, k + 1) = Append(s \o SubSeq(x, 1, k), x[k + 1])
    <3>1. k \in Nat /\ k + 1 <= Len(x) /\ k + 1 \in 1..Len(x)
      BY <2>2
    <3>2. SubSeq(x, 1, k + 1) = Append(SubSeq(x, 1, k), x[k + 1])
      BY <3>1, PrefixGrows
    <3>3. x[k + 1] \in X
      BY <3>1
    <3>4. Append(SubSeq(x, 1, k), x[k + 1]) = SubSeq(x, 1, k) \o <<x[k + 1]>>
      BY <2>1, <3>3, AppendIsConcat
    <3>5. <<x[k + 1]>> \in Seq(X)
      BY <3>3, Few
    <3>6. s \o (SubSeq(x, 1, k) \o <<x[k + 1]>>) = (s \o SubSeq(x, 1, k)) \o <<x[k + 1]>>
      BY <2>1, <3>5, ConcatAssociative
    <3>7. s \o SubSeq(x, 1, k) \in Seq(X)
      BY <2>1, ConcatProperties
    <3>8. Append(s \o SubSeq(x, 1, k), x[k + 1]) = (s \o SubSeq(x, 1, k)) \o <<x[k + 1]>>
      BY <3>3, <3>7, AppendIsConcat
    <3> QED
      BY <3>2, <3>4, <3>6, <3>8
  <2> QED
    BY <2>1, <2>2, ConcatProperties
<1> DEFINE P == [k \in 0..n |-> s \o SubSeq(x, 1, k)]
<1>2. P \in [0..n -> Seq(X)]
  BY <1>1
<1>3. P[0] = s
  <2>1. 0 \in 0..n /\ SubSeq(x, 1, 0) = <<>> /\ s \o <<>> = s
    OBVIOUS
  <2> QED
    BY <2>1
<1>4. P[n] = s \o x
  <2>1. n \in 0..n /\ SubSeq(x, 1, n) = x
    BY PrefixWhole
  <2> QED
    BY <2>1
<1>5. ASSUME NEW k \in 1..n PROVE P[k] = Append(P[k - 1], x[k])
  <2>1. k - 1 \in 0..n /\ k - 1 < n /\ (k - 1) + 1 = k /\ k \in 0..n
    OBVIOUS
  <2>2. s \o SubSeq(x, 1, (k - 1) + 1) = Append(s \o SubSeq(x, 1, k - 1), x[(k - 1) + 1])
    BY <1>1, <2>1
  <2> QED
    BY <2>1, <2>2
<1> HIDE DEF P
<1> QED
  BY <1>2, <1>3, <1>4, <1>5 DEF Grows

(* Outside of codes a text is kept as it is. *)
LEMMA StripText ==
    ASSUME NEW s \in Seq(Token), NEW a \in Seq(Token), Cq!Stripped(s) = [depth |-> 0, text |-> a],
           NEW x \in Seq(Token), ~Cq!Has(x, Cq!Codes)
    PROVE  Cq!Stripped(s \o x) = [depth |-> 0, text |-> a \o x]
<1>1. PICK n \in Nat : n = Len(x) /\ DOMAIN x = 1..n /\ \A k \in 1..n : x[k] \in Token
  OBVIOUS
<1>2. PICK P \in [0..n -> Seq(Token)] : Grows(P, n, s, x)
  BY <1>1, Prefixes
<1>3. PICK Q \in [0..n -> Seq(Token)] : Grows(Q, n, a, x)
  BY <1>1, Prefixes
<1>4. ASSUME NEW b, NEW t \in Token, t \notin Cq!Codes
      PROVE  Cq!Strip([depth |-> 0, text |-> b], t) = [depth |-> 0, text |-> Append(b, t)]
  <2>1. PICK r : r = [depth |-> 0, text |-> b]
    OBVIOUS
  <2>2. PICK u : u = Append(b, t)
    OBVIOUS
  <2>3. r.depth = 0 /\ r.text = b /\ [r EXCEPT !.text = u] = [depth |-> 0, text |-> u]
    BY <2>1
  <2>4. ~(r.depth > 0)
    BY <2>3
  <2>5. Cq!Strip(r, t) = [r EXCEPT !.text = u]
    BY <1>4, <2>2, <2>3, <2>4 DEF Cq!Strip
  <2> QED
    BY <2>1, <2>2, <2>3, <2>5
<1>5. ASSUME NEW k \in 0..n, k < n, Cq!Stripped(P[k]) = [depth |-> 0, text |-> Q[k]]
      PROVE  k + 1 \in 0..n /\ Cq!Stripped(P[k + 1]) = [depth |-> 0, text |-> Q[k + 1]]
  <2>1. k + 1 \in 1..n /\ (k + 1) - 1 = k /\ k + 1 \in 0..n
    BY <1>5, OneOn
  <2>2. x[k + 1] \in Token /\ x[k + 1] \notin Cq!Codes
    BY <1>1, <2>1 DEF Cq!Has
  <2>3. P[k + 1] = Append(P[k], x[k + 1]) /\ Q[k + 1] = Append(Q[k], x[k + 1]) /\ P[k] \in Seq(Token)
    BY <1>2, <1>3, <2>1 DEF Grows
  <2>4. Cq!Stripped(Append(P[k], x[k + 1])) = Cq!Strip(Cq!Stripped(P[k]), x[k + 1])
    BY <2>2, <2>3, StripAppend
  <2> QED
    BY <1>4, <1>5, <2>1, <2>2, <2>3, <2>4
<1> DEFINE T == {k \in 0..n : Cq!Stripped(P[k]) = [depth |-> 0, text |-> Q[k]]}
<1>6. 0 \in T
  <2>1. 0 \in 0..n /\ Cq!Stripped(P[0]) = [depth |-> 0, text |-> Q[0]]
    BY <1>2, <1>3 DEF Grows
  <2> QED
    BY <2>1
<1>7. \A k \in 0..n : k \in T /\ k < n => k + 1 \in T
  BY <1>5
<1>8. \A k \in 0..n : k \in T
  <2> HIDE DEF T
  <2> QED
    BY <1>6, <1>7, Upto
<1>9. n \in 0..n
  OBVIOUS
<1> QED
  BY <1>2, <1>3, <1>8, <1>9 DEF Grows

(* A code: what opens it, what is in it, and the bracket that closes it. *)
CodeShape(p, c, b) ==
    /\ p \in Seq(Token) /\ b \in Seq(Token) /\ Len(p) = Len(b) + 2
    /\ c \in Cq!Codes /\ p[1] = c /\ p[Len(b) + 2] = "]"
    /\ \A i \in 1..Len(b) : p[i + 1] = b[i] /\ b[i] \notin Cq!Opens \cup {"]"}

LEMMA StripCode ==
    ASSUME NEW s \in Seq(Token), NEW a \in Seq(Token), Cq!Stripped(s) = [depth |-> 0, text |-> a],
           NEW p, NEW c, NEW b, CodeShape(p, c, b)
    PROVE  Cq!Stripped(s \o p) = [depth |-> 0, text |-> a]
<1>1. PICK m \in Nat : m = Len(b)
  BY DEF CodeShape
<1>2. PICK n \in Nat : n = Len(p) /\ n = m + 2 /\ \A k \in 1..n : p[k] \in Token
  BY <1>1 DEF CodeShape
<1>3. PICK P \in [0..n -> Seq(Token)] : Grows(P, n, s, p)
  BY <1>2, Prefixes DEF CodeShape
<1> DEFINE At(k) == [depth |-> IF k = 0 \/ k = n THEN 0 ELSE 1, text |-> a]
<1>4. ASSUME NEW k \in 0..n, k < n PROVE Cq!Strip(At(k), p[k + 1]) = At(k + 1)
  <2>1. CASE k = 0
    <3>1. p[k + 1] \in Cq!Codes /\ k + 1 # n /\ k + 1 # 0
      BY <1>2, <2>1 DEF CodeShape
    <3> QED
      BY <2>1, <3>1 DEF Cq!Strip
  <2>2. CASE k # 0 /\ k + 1 = n
    <3>1. p[k + 1] = "]" /\ k # n
      BY <1>1, <1>2, <2>2 DEF CodeShape
    <3>2. Cq!Deeper(1, p[k + 1]) = 0
      BY <3>1 DEF Cq!Deeper, Cq!Opens, Cq!Codes
    <3> QED
      BY <2>2, <3>1, <3>2 DEF Cq!Strip
  <2>3. CASE k # 0 /\ k + 1 # n
    <3>1. k \in 1..m /\ k # n /\ k + 1 # 0
      BY <1>2, <1>4, <2>3
    <3>2. p[k + 1] \notin Cq!Opens \cup {"]"}
      BY <1>1, <3>1 DEF CodeShape
    <3>3. Cq!Deeper(1, p[k + 1]) = 1
      BY <3>2 DEF Cq!Deeper
    <3> QED
      BY <2>3, <3>1, <3>3 DEF Cq!Strip
  <2> QED
    BY <2>1, <2>2, <2>3
<1>5. ASSUME NEW k \in 0..n, k < n, Cq!Stripped(P[k]) = At(k)
      PROVE  k + 1 \in 0..n /\ Cq!Stripped(P[k + 1]) = At(k + 1)
  <2> HIDE DEF At
  <2>1. k + 1 \in 1..n /\ (k + 1) - 1 = k /\ k + 1 \in 0..n
    BY <1>5, OneOn
  <2>2. p[k + 1] \in Token /\ P[k + 1] = Append(P[k], p[k + 1]) /\ P[k] \in Seq(Token)
    BY <1>2, <1>3, <2>1 DEF Grows
  <2>3. Cq!Stripped(Append(P[k], p[k + 1])) = Cq!Strip(Cq!Stripped(P[k]), p[k + 1])
    BY <2>2, StripAppend
  <2> QED
    BY <1>4, <1>5, <2>1, <2>2, <2>3
<1> DEFINE T == {k \in 0..n : Cq!Stripped(P[k]) = At(k)}
<1>6. 0 \in T
  <2>1. 0 \in 0..n /\ Cq!Stripped(P[0]) = At(0)
    BY <1>3 DEF Grows
  <2> QED
    BY <2>1
<1>7. \A k \in 0..n : k \in T /\ k < n => k + 1 \in T
  <2> HIDE DEF At
  <2> QED
    BY <1>5
<1>8. \A k \in 0..n : k \in T
  <2> HIDE DEF T
  <2> QED
    BY <1>6, <1>7, Upto
<1>9. n \in 0..n /\ At(n) = [depth |-> 0, text |-> a]
  OBVIOUS
<1> HIDE DEF At
<1> QED
  BY <1>3, <1>8, <1>9 DEF Grows

ImageCode == "[CQ:image,"
ReplyCode == "[CQ:reply,"
Lacks(x, t) == \A i \in DOMAIN x : x[i] # t

(* What is no image code is passed over when images are looked for. *)
LEMMA ScanText ==
    ASSUME NEW s \in Seq(Token), Cq!Scanned(s).depth = 0, NEW x \in Seq(Token),
           Lacks(x, ImageCode)
    PROVE  Cq!Scanned(s \o x) = Cq!Scanned(s)
<1>1. PICK n \in Nat : n = Len(x) /\ DOMAIN x = 1..n /\ \A k \in 1..n : x[k] \in Token
  OBVIOUS
<1>2. PICK P \in [0..n -> Seq(Token)] : Grows(P, n, s, x)
  BY <1>1, Prefixes
<1>3. PICK a : a = Cq!Scanned(s)
  OBVIOUS
<1>4. ~(a.depth > 0)
  BY <1>3
<1>5. ASSUME NEW k \in 0..n, k < n, Cq!Scanned(P[k]) = a
      PROVE  k + 1 \in 0..n /\ Cq!Scanned(P[k + 1]) = a
  <2>1. k + 1 \in 1..n /\ (k + 1) - 1 = k /\ k + 1 \in 0..n
    BY <1>5, OneOn
  <2>2. x[k + 1] \in Token /\ x[k + 1] # ImageCode
    BY <1>1, <2>1 DEF Lacks
  <2>3. P[k + 1] = Append(P[k], x[k + 1]) /\ P[k] \in Seq(Token)
    BY <1>2, <2>1 DEF Grows
  <2>4. Cq!Scanned(Append(P[k], x[k + 1])) = Cq!Scan(Cq!Scanned(P[k]), x[k + 1])
    BY <2>2, <2>3, ScanAppend
  <2>5. Cq!Scan(a, x[k + 1]) = a
    BY <1>4, <2>2 DEF Cq!Scan, ImageCode
  <2> QED
    BY <1>5, <2>1, <2>3, <2>4, <2>5
<1> DEFINE T == {k \in 0..n : Cq!Scanned(P[k]) = a}
<1>6. 0 \in T
  <2>1. 0 \in 0..n /\ Cq!Scanned(P[0]) = a
    BY <1>2, <1>3 DEF Grows
  <2> QED
    BY <2>1
<1>7. \A k \in 0..n : k \in T /\ k < n => k + 1 \in T
  BY <1>5
<1>8. \A k \in 0..n : k \in T
  <2> HIDE DEF T
  <2> QED
    BY <1>6, <1>7, Upto
<1>9. n \in 0..n
  OBVIOUS
<1>10. Cq!Scanned(P[n]) = a
  BY <1>8, <1>9
<1> HIDE DEF T
<1> QED
  BY <1>2, <1>3, <1>10 DEF Grows

LEMMA SetDepth ==
    ASSUME NEW d, NEW i, NEW m, NEW r, r = [depth |-> d, inner |-> i, images |-> m], NEW u
    PROVE  [r EXCEPT !.depth = u] = [depth |-> u, inner |-> i, images |-> m]
OBVIOUS

LEMMA SetInner ==
    ASSUME NEW d, NEW i, NEW m, NEW r, r = [depth |-> d, inner |-> i, images |-> m], NEW u
    PROVE  [r EXCEPT !.inner = u] = [depth |-> d, inner |-> u, images |-> m]
OBVIOUS

LEMMA SetImages ==
    ASSUME NEW d, NEW i, NEW m, NEW r, r = [depth |-> d, inner |-> i, images |-> m], NEW u
    PROVE  [r EXCEPT !.images = u] = [depth |-> d, inner |-> i, images |-> u]
OBVIOUS

(* What a token does to the scan, inside of a code and at its ends. *)
LEMMA ScanInside ==
    ASSUME NEW i, NEW m, NEW t, t \notin Cq!Opens \cup {"]"}
    PROVE  Cq!Scan([depth |-> 1, inner |-> i, images |-> m], t) = [depth |-> 1, inner |-> Append(i, t), images |-> m]
<1>1. PICK one : one = 1
  OBVIOUS
<1>2. one > 0 /\ one # 0
  BY <1>1
<1>3. PICK r : r = [depth |-> one, inner |-> i, images |-> m]
  OBVIOUS
<1>4. PICK u : u = Append(i, t)
  OBVIOUS
<1>5. r.depth = one /\ r.inner = i
  BY <1>3
<1>6. [r EXCEPT !.depth = one] = r
  BY <1>3, SetDepth
<1>7. [r EXCEPT !.inner = u] = [depth |-> one, inner |-> u, images |-> m]
  BY <1>3, SetInner
<1>8. Cq!Deeper(one, t) = one
  BY DEF Cq!Deeper
<1>9. Cq!Scan(r, t) = [r EXCEPT !.depth = one, !.inner = u]
  BY <1>2, <1>4, <1>5, <1>8 DEF Cq!Scan
<1> QED
  BY <1>1, <1>3, <1>4, <1>6, <1>7, <1>9

LEMMA ScanSteps ==
    ASSUME NEW i, NEW m, NEW t
    PROVE  /\ t = ImageCode =>
                  Cq!Scan([depth |-> 0, inner |-> i, images |-> m], t) = [depth |-> 1, inner |-> i, images |-> m]
           /\ t = "]" =>
                  Cq!Scan([depth |-> 1, inner |-> i, images |-> m], t) =
                      [depth |-> 0, inner |-> <<>>, images |-> m \o Cq!UrlIn(i)]
<1>1. PICK zero : zero = 0
  OBVIOUS
<1>2. PICK one : one = 1
  OBVIOUS
<1>3. ~(zero > 0) /\ one > 0 /\ one # 0
  BY <1>1, <1>2
<1>4. t = ImageCode =>
         Cq!Scan([depth |-> 0, inner |-> i, images |-> m], t) = [depth |-> 1, inner |-> i, images |-> m]
  <2>1. PICK r : r = [depth |-> zero, inner |-> i, images |-> m]
    OBVIOUS
  <2>2. r.depth = zero /\ [r EXCEPT !.depth = one] = [depth |-> one, inner |-> i, images |-> m]
    <3>1. r.depth = zero
      BY <2>1
    <3>2. [r EXCEPT !.depth = one] = [depth |-> one, inner |-> i, images |-> m]
      BY <2>1, SetDepth
    <3> QED
      BY <3>1, <3>2
  <2>3. t = ImageCode => Cq!Scan(r, t) = [r EXCEPT !.depth = 1]
    BY <1>3, <2>2 DEF Cq!Scan, ImageCode
  <2> QED
    BY <1>1, <1>2, <2>1, <2>2, <2>3
<1>5. ASSUME t = "]"
      PROVE  Cq!Scan([depth |-> 1, inner |-> i, images |-> m], t) =
                 [depth |-> 0, inner |-> <<>>, images |-> m \o Cq!UrlIn(i)]
  <2>1. PICK r : r = [depth |-> one, inner |-> i, images |-> m]
    OBVIOUS
  <2>2. PICK v : v = m \o Cq!UrlIn(i)
    OBVIOUS
  <2>3. PICK none : none = <<>>
    OBVIOUS
  <2>4. /\ r.depth = one /\ r.inner = i /\ r.images = m
        /\ [r EXCEPT !.depth = zero, !.inner = none, !.images = v] = [depth |-> zero, inner |-> none, images |-> v]
    <3>1. r.depth = one /\ r.inner = i /\ r.images = m
      BY <2>1
    <3>2. PICK q : q = [depth |-> zero, inner |-> i, images |-> m]
      OBVIOUS
    <3>3. PICK w : w = [depth |-> zero, inner |-> none, images |-> m]
      OBVIOUS
    <3>4. [r EXCEPT !.depth = zero] = q
      BY <2>1, <3>2, SetDepth
    <3>5. [q EXCEPT !.inner = none] = w
      BY <3>2, <3>3, SetInner
    <3>6. [w EXCEPT !.images = v] = [depth |-> zero, inner |-> none, images |-> v]
      BY <3>3, SetImages
    <3> QED
      BY <3>1, <3>4, <3>5, <3>6
  <2>5. t \notin Cq!Opens
    BY <1>5 DEF Cq!Opens, Cq!Codes
  <2>6. Cq!Deeper(one, t) = one - 1
    BY <1>5, <2>5 DEF Cq!Deeper
  <2>7. one - 1 = zero
    BY <1>1, <1>2
  <2>8. Cq!Scan(r, t) = [r EXCEPT !.depth = zero, !.inner = none, !.images = v]
    BY <1>1, <1>3, <2>2, <2>3, <2>4, <2>6, <2>7 DEF Cq!Scan
  <2> QED
    BY <1>1, <1>2, <2>1, <2>2, <2>3, <2>4, <2>8
<1> QED
  BY <1>4, <1>5

(* An image code adds the address it holds. *)
LEMMA ScanImage ==
    ASSUME NEW s \in Seq(Token), NEW im \in Seq(Seq(Token)),
           Cq!Scanned(s) = [depth |-> 0, inner |-> <<>>, images |-> im],
           NEW p, NEW b, CodeShape(p, ImageCode, b)
    PROVE  Cq!Scanned(s \o p) = [depth |-> 0, inner |-> <<>>, images |-> im \o Cq!UrlIn(b)]
<1>1. PICK m \in Nat : m = Len(b)
  BY DEF CodeShape
<1>2. PICK n \in Nat : n = Len(p) /\ n = m + 2 /\ \A k \in 1..n : p[k] \in Token
  BY <1>1 DEF CodeShape
<1>3. PICK P \in [0..n -> Seq(Token)] : Grows(P, n, s, p)
  BY <1>2, Prefixes DEF CodeShape
<1>4. PICK B \in [0..m -> Seq(Token)] : Grows(B, m, <<>>, b)
  <2>1. <<>> \in Seq(Token)
    BY EmptySeq
  <2> QED
    BY <1>1, <2>1, Prefixes DEF CodeShape
<1>5. B[0] = <<>> /\ B[m] = b
  BY <1>4 DEF Grows, CodeShape
<1> DEFINE In(k) == [depth |-> 1, inner |-> B[k - 1], images |-> im]
<1>6. Cq!Scanned(P[1]) = In(1)
  <2>1. 1 \in 1..n /\ 1 - 1 = 0 /\ 0 \in 0..n
    BY <1>2
  <2>2. P[1] = Append(P[0], p[1]) /\ P[0] = s
    BY <1>3, <2>1 DEF Grows
  <2>3. p[1] = ImageCode /\ p[1] \in Token
    BY <1>2, <2>1 DEF CodeShape
  <2>4. Cq!Scanned(P[1]) = Cq!Scan(Cq!Scanned(s), p[1])
    BY <2>2, <2>3, ScanAppend
  <2>5. Cq!Scan([depth |-> 0, inner |-> <<>>, images |-> im], p[1]) = [depth |-> 1, inner |-> <<>>, images |-> im]
    BY <2>3, ScanSteps
  <2> QED
    BY <1>5, <2>1, <2>4, <2>5
<1>7. ASSUME NEW k \in 1..m, Cq!Scanned(P[k]) = In(k)
      PROVE  Cq!Scanned(P[k + 1]) = In(k + 1)
  <2>1. k + 1 \in 1..n /\ (k + 1) - 1 = k /\ k \in 0..n /\ k - 1 \in 0..m /\ k \in 0..m
    BY <1>2
  <2>2. P[k + 1] = Append(P[k], p[k + 1]) /\ P[k] \in Seq(Token)
    BY <1>3, <2>1 DEF Grows
  <2>3. p[k + 1] = b[k] /\ b[k] \notin Cq!Opens \cup {"]"} /\ p[k + 1] \in Token
    BY <1>1, <1>2, <2>1 DEF CodeShape
  <2>4. Cq!Scanned(P[k + 1]) = Cq!Scan(Cq!Scanned(P[k]), p[k + 1])
    BY <2>2, <2>3, ScanAppend
  <2>5. B[k] = Append(B[k - 1], b[k])
    BY <1>4, <2>1 DEF Grows
  <2>6. Cq!Scan(In(k), b[k]) = [depth |-> 1, inner |-> Append(B[k - 1], b[k]), images |-> im]
    <3>1. PICK i : i = B[k - 1]
      OBVIOUS
    <3>2. PICK t : t = b[k]
      OBVIOUS
    <3>3. Cq!Scan([depth |-> 1, inner |-> i, images |-> im], t) = [depth |-> 1, inner |-> Append(i, t), images |-> im]
      <4>1. t \notin Cq!Opens \cup {"]"}
        BY <2>3, <3>2
      <4> QED
        BY <4>1, ScanInside
    <3> QED
      BY <3>1, <3>2, <3>3
  <2>7. In(k + 1) = [depth |-> 1, inner |-> B[k], images |-> im]
    BY <2>1
  <2> HIDE DEF In
  <2> QED
    BY <1>7, <2>3, <2>4, <2>5, <2>6, <2>7
<1> DEFINE T == {k \in 0..m : Cq!Scanned(P[k + 1]) = In(k + 1)}
<1>8. 0 \in T
  <2>1. 0 \in 0..m /\ 0 + 1 = 1
    OBVIOUS
  <2> HIDE DEF In
  <2> QED
    BY <1>6, <2>1
<1>9. \A k \in 0..m : k \in T /\ k < m => k + 1 \in T
  <2> HIDE DEF In
  <2> SUFFICES ASSUME NEW k \in 0..m, k \in T, k < m PROVE k + 1 \in T
    OBVIOUS
  <2>1. k + 1 \in 1..m /\ k + 1 \in 0..m /\ Cq!Scanned(P[k + 1]) = In(k + 1)
    BY OneOn
  <2> QED
    BY <1>7, <2>1
<1>10. Cq!Scanned(P[m + 1]) = In(m + 1)
  <2>1. \A k \in 0..m : k \in T
    <3> HIDE DEF T
    <3> QED
      BY <1>8, <1>9, Upto
  <2>2. m \in 0..m
    OBVIOUS
  <2> HIDE DEF In
  <2> QED
    BY <2>1, <2>2
<1>11. Cq!Scanned(P[n]) = [depth |-> 0, inner |-> <<>>, images |-> im \o Cq!UrlIn(b)]
  <2>1. n \in 1..n /\ n - 1 = m + 1 /\ m + 1 \in 0..n /\ (m + 1) - 1 = m
    BY <1>2
  <2>2. P[n] = Append(P[m + 1], p[n]) /\ P[m + 1] \in Seq(Token)
    BY <1>3, <2>1 DEF Grows
  <2>3. p[n] = "]" /\ p[n] \in Token
    BY <1>1, <1>2, <2>1 DEF CodeShape
  <2>4. Cq!Scanned(P[n]) = Cq!Scan(Cq!Scanned(P[m + 1]), p[n])
    BY <2>2, <2>3, ScanAppend
  <2>5. Cq!Scan([depth |-> 1, inner |-> b, images |-> im], p[n]) =
            [depth |-> 0, inner |-> <<>>, images |-> im \o Cq!UrlIn(b)]
    BY <2>3, ScanSteps
  <2>6. Cq!Scanned(P[m + 1]) = [depth |-> 1, inner |-> b, images |-> im]
    BY <1>5, <1>10, <2>1
  <2> QED
    BY <2>4, <2>5, <2>6
<1> QED
  BY <1>3, <1>11 DEF Grows

FileKey == "file="
UrlKey == "url="
IdKey == "id="
Comma == ","
Bracket == "]"
UrlHead == <<FileKey, "a", Comma, UrlKey>>

LEMMA Words ==
    /\ FileKey \in Token /\ UrlKey \in Token /\ IdKey \in Token /\ Comma \in Token /\ Bracket \in Token
    /\ "a" \in Token /\ "b" \in Token /\ ImageCode \in Token /\ ReplyCode \in Token /\ "[CQ:at," \in Token
    /\ FileKey # Comma /\ UrlKey # Comma /\ IdKey # Comma /\ "a" # Comma /\ "b" # Comma
    /\ FileKey # UrlKey /\ "a" # UrlKey /\ FileKey # Bracket /\ UrlKey # Bracket /\ IdKey # Bracket
    /\ "a" # Bracket /\ "b" # Bracket /\ Comma # Bracket
    /\ Comma = "," /\ Bracket = "]"
BY DEF FileKey, UrlKey, IdKey, Comma, Bracket, ImageCode, ReplyCode, Token, Literal

LEMMA AppendOne ==
    ASSUME NEW X, NEW a \in X
    PROVE  <<>> \in Seq(X) /\ <<a>> \in Seq(X) /\ Append(<<>>, a) = <<a>>
OBVIOUS

LEMMA AppendTwo ==
    ASSUME NEW X, NEW a \in X, NEW b \in X
    PROVE  <<a>> \in Seq(X) /\ <<a, b>> \in Seq(X) /\ Append(<<a>>, b) = <<a, b>>
<1>1. PICK q \in Seq(X) : q = <<a>>
  <2>1. <<a>> \in Seq(X)
    OBVIOUS
  <2> QED
    BY <2>1
<1>2. q \in Seq(X) /\ Len(q) = 1 /\ q[1] = a
  BY <1>1
<1>3. PICK s : s = Append(q, b)
  OBVIOUS
<1>4. s \in Seq(X) /\ Len(s) = 2 /\ s[1] = a /\ s[2] = b
  <2>1. /\ Append(q, b) \in Seq(X) /\ Len(Append(q, b)) = Len(q) + 1
        /\ \A k \in 1..Len(q) : Append(q, b)[k] = q[k]
        /\ Append(q, b)[Len(q) + 1] = b
    BY AppendProperties
  <2>2. s \in Seq(X) /\ Len(s) = 2 /\ \A k \in 1..1 : s[k] = q[k]
    BY <1>2, <1>3, <2>1
  <2>3. s[2] = b
    BY <1>2, <1>3, <2>1
  <2> QED
    BY <1>2, <2>2, <2>3
<1>5. PICK r : r = <<a, b>>
  OBVIOUS
<1>6. r \in Seq(X) /\ Len(r) = 2 /\ r[1] = a /\ r[2] = b
  BY <1>5
<1>7. \A k \in 1..2 : s[k] = r[k]
  BY <1>4, <1>6
<1>8. s = r
  BY <1>4, <1>6, <1>7, SeqEqual
<1> QED
  BY <1>1, <1>2, <1>3, <1>5, <1>6, <1>8

LEMMA AppendThree ==
    ASSUME NEW X, NEW a \in X, NEW b \in X, NEW c \in X
    PROVE  <<a, b>> \in Seq(X) /\ <<a, b, c>> \in Seq(X) /\ Append(<<a, b>>, c) = <<a, b, c>>
<1>1. PICK q \in Seq(X) : q = <<a, b>>
  <2>1. <<a, b>> \in Seq(X)
    OBVIOUS
  <2> QED
    BY <2>1
<1>2. q \in Seq(X) /\ Len(q) = 2 /\ q[1] = a /\ q[2] = b
  BY <1>1
<1>3. PICK s : s = Append(q, c)
  OBVIOUS
<1>4. s \in Seq(X) /\ Len(s) = 3 /\ s[1] = a /\ s[2] = b /\ s[3] = c
  <2>1. /\ Append(q, c) \in Seq(X) /\ Len(Append(q, c)) = Len(q) + 1
        /\ \A k \in 1..Len(q) : Append(q, c)[k] = q[k]
        /\ Append(q, c)[Len(q) + 1] = c
    BY AppendProperties
  <2>2. s \in Seq(X) /\ Len(s) = 3 /\ \A k \in 1..2 : s[k] = q[k]
    BY <1>2, <1>3, <2>1
  <2>3. s[3] = c
    BY <1>2, <1>3, <2>1
  <2> QED
    BY <1>2, <2>2, <2>3
<1>5. PICK r : r = <<a, b, c>>
  OBVIOUS
<1>6. r \in Seq(X) /\ Len(r) = 3 /\ r[1] = a /\ r[2] = b /\ r[3] = c
  BY <1>5
<1>7. \A k \in 1..3 : s[k] = r[k]
  BY <1>4, <1>6
<1>8. s = r
  BY <1>4, <1>6, <1>7, SeqEqual
<1> QED
  BY <1>1, <1>2, <1>3, <1>5, <1>6, <1>8

LEMMA AppendFour ==
    ASSUME NEW X, NEW a \in X, NEW b \in X, NEW c \in X, NEW d \in X
    PROVE  <<a, b, c>> \in Seq(X) /\ <<a, b, c, d>> \in Seq(X) /\ Append(<<a, b, c>>, d) = <<a, b, c, d>>
<1>1. PICK q \in Seq(X) : q = <<a, b, c>>
  <2>1. <<a, b, c>> \in Seq(X)
    OBVIOUS
  <2> QED
    BY <2>1
<1>2. q \in Seq(X) /\ Len(q) = 3 /\ q[1] = a /\ q[2] = b /\ q[3] = c
  BY <1>1
<1>3. PICK s : s = Append(q, d)
  OBVIOUS
<1>4. s \in Seq(X) /\ Len(s) = 4 /\ s[1] = a /\ s[2] = b /\ s[3] = c /\ s[4] = d
  <2>1. /\ Append(q, d) \in Seq(X) /\ Len(Append(q, d)) = Len(q) + 1
        /\ \A k \in 1..Len(q) : Append(q, d)[k] = q[k]
        /\ Append(q, d)[Len(q) + 1] = d
    BY AppendProperties
  <2>2. s \in Seq(X) /\ Len(s) = 4 /\ \A k \in 1..3 : s[k] = q[k]
    BY <1>2, <1>3, <2>1
  <2>3. s[4] = d
    BY <1>2, <1>3, <2>1
  <2> QED
    BY <1>2, <2>2, <2>3
<1>5. PICK r : r = <<a, b, c, d>>
  OBVIOUS
<1>6. r \in Seq(X) /\ Len(r) = 4 /\ r[1] = a /\ r[2] = b /\ r[3] = c /\ r[4] = d
  BY <1>5
<1>7. \A k \in 1..4 : s[k] = r[k]
  BY <1>4, <1>6
<1>8. s = r
  BY <1>4, <1>6, <1>7, SeqEqual
<1> QED
  BY <1>1, <1>2, <1>3, <1>5, <1>6, <1>8

(* The parts of a code, as they grow. *)
LEMMA SplitOne ==
    ASSUME NEW u, NEW t, t # Comma
    PROVE  Cq!Split(<<u>>, t) = <<Append(u, t)>>
<1>1. PICK w : w = Append(u, t)
  OBVIOUS
<1>2. Len(<<u>>) = 1 /\ <<u>>[1] = u
  OBVIOUS
<1>3. [<<u>> EXCEPT ![1] = w] = <<w>>
  OBVIOUS
<1>4. Cq!Split(<<u>>, t) = [<<u>> EXCEPT ![1] = w]
  BY <1>1, <1>2 DEF Cq!Split, Comma
<1> QED
  BY <1>1, <1>3, <1>4

LEMMA SplitTwo ==
    ASSUME NEW u, NEW v, NEW t, t # Comma
    PROVE  Cq!Split(<<u, v>>, t) = <<u, Append(v, t)>>
<1>1. PICK w : w = Append(v, t)
  OBVIOUS
<1>2. Len(<<u, v>>) = 2 /\ <<u, v>>[2] = v
  OBVIOUS
<1>3. [<<u, v>> EXCEPT ![2] = w] = <<u, w>>
  OBVIOUS
<1>4. Cq!Split(<<u, v>>, t) = [<<u, v>> EXCEPT ![2] = w]
  BY <1>1, <1>2 DEF Cq!Split, Comma
<1> QED
  BY <1>1, <1>3, <1>4

LEMMA SplitComma ==
    ASSUME NEW u
    PROVE  Cq!Split(<<u>>, Comma) = <<u, <<>>>>
<1>1. PICK none : none = <<>>
  OBVIOUS
<1>2. u \in {u, none} /\ none \in {u, none}
  OBVIOUS
<1>3. Append(<<u>>, none) = <<u, none>>
  BY <1>2, AppendTwo
<1>4. Cq!Split(<<u>>, Comma) = Append(<<u>>, <<>>)
  BY DEF Cq!Split, Comma
<1> QED
  BY <1>1, <1>3, <1>4

(* Two tokens are one part; an address comes after a comma. *)
LEMMA PartsOfTwo ==
    ASSUME NEW a \in Token, NEW b \in Token, a # Comma, b # Comma
    PROVE  Cq!Parts(<<a, b>>) = <<<<a, b>>>>
<1>1. <<>> \in Seq(Token) /\ <<a>> \in Seq(Token) /\ Append(<<>>, a) = <<a>> /\ Append(<<a>>, b) = <<a, b>>
  BY AppendOne, AppendTwo
<1>2. PICK none : none = <<>>
  OBVIOUS
<1>3. PICK x : x = <<a>>
  OBVIOUS
<1>4. Cq!Parts(Append(<<>>, a)) = Cq!Split(Cq!Parts(<<>>), a)
  BY <1>1, SplitAppend
<1>5. Cq!Parts(<<>>) = <<none>>
  BY <1>2, SplitAppend
<1>6. Cq!Split(<<none>>, a) = <<Append(none, a)>>
  BY SplitOne
<1>7. Cq!Parts(x) = <<x>>
  BY <1>1, <1>2, <1>3, <1>4, <1>5, <1>6
<1>8. Cq!Parts(Append(x, b)) = Cq!Split(Cq!Parts(x), b)
  BY <1>1, <1>3, SplitAppend
<1>9. Cq!Split(<<x>>, b) = <<Append(x, b)>>
  BY SplitOne
<1> QED
  BY <1>1, <1>3, <1>7, <1>8, <1>9

LEMMA PartsOfHead ==
    ASSUME NEW a \in Token, NEW b \in Token, NEW d \in Token, a # Comma, b # Comma, d # Comma
    PROVE  Cq!Parts(<<a, b, Comma, d>>) = <<<<a, b>>, <<d>>>>
<1>1. PICK x : x = <<a, b>>
  OBVIOUS
<1>2. PICK c \in Token : c = Comma
  BY Words
<1>3. PICK y : y = <<a, b, c>>
  OBVIOUS
<1>4. /\ x \in Seq(Token) /\ y \in Seq(Token) /\ Append(x, c) = y /\ Append(y, d) = <<a, b, c, d>>
      /\ Append(<<>>, d) = <<d>>
  <2>1. <<a, b>> \in Seq(Token) /\ <<a, b, c>> \in Seq(Token) /\ Append(<<a, b>>, c) = <<a, b, c>>
    BY AppendThree
  <2>2. Append(<<a, b, c>>, d) = <<a, b, c, d>>
    BY AppendFour
  <2>3. Append(<<>>, d) = <<d>>
    BY AppendOne
  <2> QED
    BY <1>1, <1>3, <2>1, <2>2, <2>3
<1>5. PICK none : none = <<>>
  OBVIOUS
<1>6. Cq!Parts(x) = <<x>>
  BY <1>1, PartsOfTwo
<1>7. Cq!Parts(y) = <<x, none>>
  <2>1. Cq!Parts(Append(x, c)) = Cq!Split(Cq!Parts(x), c)
    BY <1>4, SplitAppend
  <2>2. Cq!Split(<<x>>, c) = <<x, none>>
    BY <1>2, <1>5, SplitComma
  <2> QED
    BY <1>4, <1>6, <2>1, <2>2
<1>8. Cq!Parts(Append(y, d)) = Cq!Split(Cq!Parts(y), d)
  BY <1>4, SplitAppend
<1>9. Cq!Split(<<x, none>>, d) = <<x, Append(none, d)>>
  BY SplitTwo
<1> QED
  BY <1>1, <1>2, <1>4, <1>5, <1>7, <1>8, <1>9

(* The address an image code holds is the one that was sent. *)
LEMMA UrlRead ==
    ASSUME NEW url \in Seq(Token), Lacks(url, Comma)
    PROVE  Cq!UrlIn(UrlHead \o url) = <<url>> /\ UrlHead \in Seq(Token)
<1>1. PICK n \in Nat : n = Len(url) /\ DOMAIN url = 1..n /\ \A k \in 1..n : url[k] \in Token
  OBVIOUS
<1>2. PICK fa : fa = <<FileKey, "a">>
  OBVIOUS
<1>3. UrlHead \in Seq(Token) /\ Cq!Parts(UrlHead) = <<fa, <<UrlKey>>>>
  <2>1. UrlHead \in Seq(Token)
    BY Words, Few DEF UrlHead
  <2>2. Cq!Parts(<<FileKey, "a", Comma, UrlKey>>) = <<<<FileKey, "a">>, <<UrlKey>>>>
    <3>1. PICK f \in Token : f = FileKey /\ f # Comma
      BY Words
    <3>2. PICK a \in Token : a = "a" /\ a # Comma
      BY Words
    <3>3. PICK k \in Token : k = UrlKey /\ k # Comma
      BY Words
    <3>4. Cq!Parts(<<f, a, Comma, k>>) = <<<<f, a>>, <<k>>>>
      BY <3>1, <3>2, <3>3, PartsOfHead
    <3> QED
      BY <3>1, <3>2, <3>3, <3>4
  <2> QED
    BY <1>2, <2>1, <2>2 DEF UrlHead
<1>4. PICK P \in [0..n -> Seq(Token)] : Grows(P, n, UrlHead, url)
  BY <1>1, <1>3, Prefixes
<1>5. <<UrlKey>> \in Seq(Token)
  BY Words, Few
<1>6. PICK U \in [0..n -> Seq(Token)] : Grows(U, n, <<UrlKey>>, url)
  BY <1>1, <1>5, Prefixes
<1>7. ASSUME NEW k \in 0..n, k < n, Cq!Parts(P[k]) = <<fa, U[k]>>
      PROVE  k + 1 \in 0..n /\ Cq!Parts(P[k + 1]) = <<fa, U[k + 1]>>
  <2>1. k + 1 \in 1..n /\ (k + 1) - 1 = k /\ k + 1 \in 0..n
    BY <1>7, OneOn
  <2>2. url[k + 1] \in Token /\ url[k + 1] # Comma
    BY <1>1, <2>1, Words DEF Lacks
  <2>3. P[k + 1] = Append(P[k], url[k + 1]) /\ P[k] \in Seq(Token) /\ U[k + 1] = Append(U[k], url[k + 1])
    BY <1>4, <1>6, <2>1 DEF Grows
  <2>4. Cq!Parts(Append(P[k], url[k + 1])) = Cq!Split(Cq!Parts(P[k]), url[k + 1])
    BY <2>2, <2>3, SplitAppend
  <2>5. PICK t : t = url[k + 1]
    OBVIOUS
  <2>6. PICK u : u = U[k]
    OBVIOUS
  <2>7. Cq!Split(<<fa, u>>, t) = <<fa, Append(u, t)>>
    BY <2>2, <2>5, SplitTwo
  <2> QED
    BY <1>7, <2>1, <2>3, <2>4, <2>5, <2>6, <2>7
<1> DEFINE T == {k \in 0..n : Cq!Parts(P[k]) = <<fa, U[k]>>}
<1>8. 0 \in T
  <2>1. 0 \in 0..n /\ P[0] = UrlHead /\ U[0] = <<UrlKey>>
    BY <1>4, <1>6 DEF Grows
  <2>2. Cq!Parts(P[0]) = <<fa, U[0]>>
    BY <1>3, <2>1
  <2> QED
    BY <2>1, <2>2
<1>9. \A k \in 0..n : k \in T /\ k < n => k + 1 \in T
  BY <1>7
<1>10. Cq!Parts(P[n]) = <<fa, U[n]>>
  <2>1. \A k \in 0..n : k \in T
    <3> HIDE DEF T
    <3> QED
      BY <1>8, <1>9, Upto
  <2>2. n \in 0..n
    OBVIOUS
  <2> QED
    BY <2>1, <2>2
<1> HIDE DEF T
<1>11. PICK ps : ps = Cq!Parts(UrlHead \o url) /\ ps = <<fa, U[n]>>
  BY <1>4, <1>10 DEF Grows
<1>12. PICK v \in Seq(Token) : v = U[n] /\ v = <<UrlKey>> \o url /\ v # <<>> /\ v[1] = UrlKey /\ Tail(v) = url
  <2>1. <<UrlKey>> \o url # <<>> /\ (<<UrlKey>> \o url)[1] = UrlKey /\ Tail(<<UrlKey>> \o url) = url
    BY <1>5
  <2>2. n \in 0..n
    OBVIOUS
  <2> QED
    BY <1>6, <2>1, <2>2 DEF Grows
<1>13. Cq!With("url=", ps) = {2}
  <2>1. DOMAIN ps = {1, 2} /\ ps[1] = fa /\ ps[2] = v
    BY <1>11, <1>12
  <2>2. fa[1] = FileKey
    BY <1>2
  <2>3. ~(fa # <<>> /\ fa[1] = UrlKey) /\ v # <<>> /\ v[1] = UrlKey
    BY <1>12, <2>2, Words
  <2>4. Cq!With(UrlKey, ps) = {2}
    BY <2>1, <2>3 DEF Cq!With
  <2> QED
    BY <2>4 DEF UrlKey
<1>14. Cq!Max({2}) = 2
  BY DEF Cq!Max
<1>15. Cq!UrlIn(UrlHead \o url) = <<Tail(ps[2])>>
  BY <1>11, <1>13, <1>14 DEF Cq!UrlIn
<1>16. ps[2] = v
  BY <1>11, <1>12
<1> QED
  BY <1>3, <1>12, <1>15, <1>16

LEMMA TupleOfFour ==
    ASSUME NEW X, NEW a \in X, NEW b \in X, NEW c \in X, NEW d \in X
    PROVE  <<a, b, c, d>> = (<<a>> \o <<b, c>>) \o <<d>>
<1>1. /\ <<a>> \in Seq(X) /\ <<b>> \in Seq(X) /\ <<c>> \in Seq(X)
      /\ Append(<<a>>, b) = <<a, b>> /\ Append(<<b>>, c) = <<b, c>> /\ <<a, b>> \in Seq(X)
  BY AppendTwo
<1>2. Append(<<a, b>>, c) = <<a, b, c>> /\ <<a, b, c>> \in Seq(X)
  BY AppendThree
<1>3. Append(<<a, b, c>>, d) = <<a, b, c, d>>
  BY AppendFour
<1>4. Append(<<a>>, b) = <<a>> \o <<b>> /\ Append(<<b>>, c) = <<b>> \o <<c>>
  BY <1>1, AppendIsConcat
<1>5. Append(<<a, b>>, c) = <<a, b>> \o <<c>>
  BY <1>1, AppendIsConcat
<1>6. Append(<<a, b, c>>, d) = <<a, b, c>> \o <<d>>
  BY <1>2, AppendIsConcat
<1>7. <<a>> \o (<<b>> \o <<c>>) = (<<a>> \o <<b>>) \o <<c>>
  BY <1>1, ConcatAssociative
<1> QED
  BY <1>1, <1>2, <1>3, <1>4, <1>5, <1>6, <1>7

LEMMA TupleOfFive ==
    ASSUME NEW a, NEW b, NEW c, NEW d, NEW e
    PROVE  <<a, b, c, d, e>> = <<a>> \o <<b, c, d, e>>
OBVIOUS

(* A body between the word that opens a code and the bracket that closes it. *)
LEMMA Enclosed ==
    ASSUME NEW c \in Token, c \in Cq!Codes, NEW b \in Seq(Token),
           \A i \in 1..Len(b) : b[i] \notin Cq!Opens \cup {"]"}
    PROVE  CodeShape((<<c>> \o b) \o <<"]">>, c, b)
<1>1. PICK h \in Seq(Token) : h = <<c>> /\ Len(h) = 1 /\ h[1] = c
  <2>1. <<c>> \in Seq(Token) /\ Len(<<c>>) = 1 /\ <<c>>[1] = c
    OBVIOUS
  <2> QED
    BY <2>1
<1>2. PICK one \in Nat : one = 1 /\ one = Len(h)
  BY <1>1
<1>3. PICK n \in Nat : n = Len(b)
  OBVIOUS
<1>4. PICK z \in Token : z = "]"
  BY Words
<1>5. (h \o b) \o <<z>> \in Seq(Token) /\ Wraps((h \o b) \o <<z>>, h, b, z, one, n)
  BY <1>2, <1>3, Between
<1>6. PICK p : p = (h \o b) \o <<z>>
  OBVIOUS
<1>7. /\ p \in Seq(Token) /\ Len(p) = n + 2 /\ p[1] = c /\ p[n + 2] = z
      /\ \A i \in 1..n : p[i + 1] = b[i]
  <2>1. 1 \in 1..one /\ one + n + 1 = n + 2 /\ \A i \in 1..n : one + i = i + 1
    BY <1>2
  <2> QED
    BY <1>1, <1>5, <1>6, <2>1 DEF Wraps
<1>8. CodeShape(p, c, b)
  BY <1>3, <1>4, <1>7 DEF CodeShape
<1> QED
  BY <1>1, <1>4, <1>6, <1>8

TameSegment(s) ==
    /\ s.kind = "text" => ~Cq!Has(s.text, Cq!Codes)
    /\ s.kind = "image" => ~Cq!Has(s.url, Cq!Opens \cup {",", "]"})

LEMMA ImageShape ==
    ASSUME Cq!CqAssumption, NEW s \in Cq!Segments, s.kind = "image", TameSegment(s)
    PROVE  /\ CodeShape(Piece(s), ImageCode, UrlHead \o s.url)
           /\ Cq!UrlIn(UrlHead \o s.url) = <<s.url>>
<1>1. s.url \in Seq(Token)
  <2>1. s.url \in Seq(Tokens) /\ Tokens \subseteq Token
    BY SegmentKinds DEF Token
  <2> QED
    BY <2>1, Widen
<1>2. PICK u \in Seq(Token) : u = s.url
  BY <1>1
<1>3. \A i \in DOMAIN u : u[i] \notin Cq!Opens \cup {",", "]"}
  BY <1>2 DEF TameSegment, Cq!Has
<1>4. Lacks(u, Comma)
  BY <1>3, Words DEF Lacks
<1>5. Cq!UrlIn(UrlHead \o u) = <<u>> /\ UrlHead \in Seq(Token)
  BY <1>4, UrlRead
<1>6. PICK h : h = UrlHead /\ h = <<FileKey, "a", Comma, UrlKey>>
  BY DEF UrlHead
<1>7. PICK b \in Seq(Token) : b = h \o u
  BY <1>5, <1>6, ConcatProperties
<1>8. \A i \in 1..Len(b) : b[i] \notin Cq!Opens \cup {"]"}
  <2>1. PICK n \in Nat : n = Len(u) /\ DOMAIN u = 1..n
    OBVIOUS
  <2>2. PICK four \in Nat : four = 4 /\ four = Len(h)
    BY <1>6
  <2>3. /\ h \o u \in Seq(Token) /\ Len(h \o u) = four + n /\ DOMAIN (h \o u) = 1..(four + n)
        /\ \A i \in 1..(four + n) : (h \o u)[i] = IF i <= four THEN h[i] ELSE u[i - four]
    BY <1>5, <1>6, <2>1, <2>2, Joined
  <2>4. \A i \in 1..four : h[i] \in {FileKey, "a", Comma, UrlKey}
    BY <1>6, <2>2
  <2>5. \A t \in {FileKey, "a", Comma, UrlKey} : t \notin Cq!Opens \cup {"]"}
    BY DEF FileKey, Comma, UrlKey, Cq!Opens, Cq!Codes
  <2>6. \A i \in 1..(four + n) : (i <= four => i \in 1..four) /\ (~(i <= four) => i - four \in 1..n)
    OBVIOUS
  <2>7. ASSUME NEW i \in 1..(four + n) PROVE b[i] \notin Cq!Opens \cup {"]"}
    <3>1. CASE i <= four
      BY <1>7, <2>3, <2>4, <2>5, <2>6, <3>1
    <3>2. CASE ~(i <= four)
      <4>1. b[i] = u[i - four] /\ i - four \in DOMAIN u
        BY <1>7, <2>1, <2>3, <2>6, <3>2
      <4> QED
        BY <1>3, <4>1
    <3> QED
      BY <3>1, <3>2
  <2> QED
    BY <1>7, <2>3, <2>7
<1>9. PICK c \in Token : c = ImageCode /\ c \in Cq!Codes
  BY Words DEF ImageCode, Cq!Codes
<1>10. CodeShape((<<c>> \o b) \o <<"]">>, c, b)
  BY <1>8, <1>9, Enclosed
<1>11. Piece(s) = (<<c>> \o b) \o <<"]">>
  <2>1. Piece(s) = (ImageHead \o u) \o <<"]">>
    BY <1>2 DEF Piece
  <2>2. ImageHead = <<c>> \o h
    <3>1. PICK f \in Token : f = FileKey
      BY Words
    <3>2. PICK a \in Token : a = "a"
      BY Words
    <3>3. PICK k \in Token : k = Comma
      BY Words
    <3>4. PICK l \in Token : l = UrlKey
      BY Words
    <3>5. <<c, f, a, k, l>> = <<c>> \o <<f, a, k, l>>
      BY TupleOfFive
    <3>6. ImageHead = <<c, f, a, k, l>>
      BY <1>9, <3>1, <3>2, <3>3, <3>4 DEF ImageHead, FileKey, Comma, UrlKey, ImageCode
    <3> QED
      BY <1>6, <3>1, <3>2, <3>3, <3>4, <3>5, <3>6
  <2>3. <<c>> \in Seq(Token) /\ h \in Seq(Token)
    BY <1>5, <1>6, AppendOne
  <2>4. (<<c>> \o h) \o u = <<c>> \o (h \o u)
    BY <2>3, ConcatAssociative
  <2> QED
    BY <1>7, <2>1, <2>2, <2>4
<1> QED
  BY <1>2, <1>5, <1>6, <1>7, <1>9, <1>10, <1>11

LEMMA OtherShape ==
    ASSUME NEW s, s.kind \in {"reply", "at"}
    PROVE  \E c, b : /\ CodeShape(Piece(s), c, b) /\ c # ImageCode /\ (c = ReplyCode <=> s.kind = "reply")
                     /\ s.kind = "reply" => b = <<IdKey, "a">>
<1>1. PICK x \in Token : x = (IF s.kind = "reply" THEN "a" ELSE "b")
  BY Words
<1>2. PICK c \in Token : c = (IF s.kind = "reply" THEN ReplyCode ELSE "[CQ:at,")
  BY Words
<1>3. PICK k \in Token : k = IdKey
  BY Words
<1>4. PICK z \in Token : z = "]"
  BY Words
<1>5. Piece(s) = <<c, k, x, z>>
  <2>1. CASE s.kind = "reply"
    BY <1>1, <1>2, <1>3, <1>4, <2>1 DEF Piece, ReplyCode, IdKey
  <2>2. CASE s.kind = "at"
    BY <1>1, <1>2, <1>3, <1>4, <2>2 DEF Piece, ReplyCode, IdKey
  <2> QED
    BY <2>1, <2>2
<1>6. <<c, k, x, z>> = (<<c>> \o <<k, x>>) \o <<z>>
  BY TupleOfFour
<1>7. PICK b : b = <<k, x>>
  OBVIOUS
<1>8. b \in Seq(Token) /\ Len(b) = 2 /\ b[1] = k /\ b[2] = x
  BY <1>7
<1>9. k \notin Cq!Opens \cup {"]"} /\ x \notin Cq!Opens \cup {"]"}
  BY <1>1, <1>3 DEF IdKey, Cq!Opens, Cq!Codes
<1>10. \A i \in 1..Len(b) : b[i] \notin Cq!Opens \cup {"]"}
  <2>1. \A i \in 1..2 : b[i] \in {k, x}
    BY <1>8
  <2> QED
    BY <1>8, <1>9, <2>1
<1>11. c \in Cq!Codes /\ c # ImageCode /\ (c = ReplyCode <=> s.kind = "reply")
  BY <1>2 DEF Cq!Codes, ImageCode, ReplyCode
<1>12. CodeShape((<<c>> \o b) \o <<"]">>, c, b)
  BY <1>8, <1>10, <1>11, Enclosed
<1>13. s.kind = "reply" => b = <<IdKey, "a">>
  BY <1>1, <1>3, <1>7
<1> QED
  BY <1>4, <1>5, <1>6, <1>7, <1>11, <1>12, <1>13

(* Every reply code in s is whole. *)
RepliesWhole(s) ==
    \A i \in DOMAIN s : s[i] = ReplyCode =>
        i + 3 \in DOMAIN s /\ s[i + 1] = IdKey /\ s[i + 2] = "a" /\ s[i + 3] = Bracket

LEMMA RepliesJoin ==
    ASSUME NEW w \in Seq(Token), NEW p \in Seq(Token), RepliesWhole(w), RepliesWhole(p)
    PROVE  /\ RepliesWhole(w \o p)
           /\ Lacks(w \o p, ReplyCode) <=> Lacks(w, ReplyCode) /\ Lacks(p, ReplyCode)
<1>1. PICK m \in Nat : m = Len(w) /\ DOMAIN w = 1..m
  OBVIOUS
<1>2. PICK n \in Nat : n = Len(p) /\ DOMAIN p = 1..n
  OBVIOUS
<1>3. /\ w \o p \in Seq(Token) /\ Len(w \o p) = m + n /\ DOMAIN (w \o p) = 1..(m + n)
      /\ \A i \in 1..(m + n) : (w \o p)[i] = IF i <= m THEN w[i] ELSE p[i - m]
  BY <1>1, <1>2, Joined
<1>4. PICK z : z = w \o p
  OBVIOUS
<1>5. DOMAIN z = 1..(m + n) /\ \A i \in 1..(m + n) : z[i] = IF i <= m THEN w[i] ELSE p[i - m]
  BY <1>3, <1>4
<1>6. \A i \in 1..m : i \in 1..(m + n) /\ z[i] = w[i]
  BY <1>5
<1>7. \A i \in 1..n : m + i \in 1..(m + n) /\ z[m + i] = p[i]
  <2>1. \A i \in 1..n : m + i \in 1..(m + n) /\ ~(m + i <= m) /\ (m + i) - m = i
    OBVIOUS
  <2> QED
    BY <1>5, <2>1
<1>8. \A i \in 1..(m + n) : i \in 1..m \/ \E j \in 1..n : i = m + j
  <2> SUFFICES ASSUME NEW i \in 1..(m + n), i \notin 1..m PROVE \E j \in 1..n : i = m + j
    OBVIOUS
  <2>1. i - m \in 1..n /\ i = m + (i - m)
    OBVIOUS
  <2> QED
    BY <2>1
<1>9. RepliesWhole(z)
  <2> SUFFICES ASSUME NEW i \in 1..(m + n), z[i] = ReplyCode
               PROVE  /\ i + 3 \in 1..(m + n) /\ z[i + 1] = IdKey /\ z[i + 2] = "a"
                      /\ z[i + 3] = Bracket
    BY <1>5 DEF RepliesWhole
  <2>1. CASE i \in 1..m
    <3>1. i + 3 \in 1..m /\ w[i + 1] = IdKey /\ w[i + 2] = "a" /\ w[i + 3] = Bracket
      BY <1>1, <1>6, <2>1 DEF RepliesWhole
    <3>2. i + 1 \in 1..m /\ i + 2 \in 1..m
      BY <3>1
    <3> QED
      BY <1>6, <3>1, <3>2
  <2>2. CASE \E j \in 1..n : i = m + j
    <3>1. PICK j \in 1..n : i = m + j
      BY <2>2
    <3>2. j + 3 \in 1..n /\ p[j + 1] = IdKey /\ p[j + 2] = "a" /\ p[j + 3] = Bracket
      BY <1>2, <1>7, <3>1 DEF RepliesWhole
    <3>3. /\ j + 1 \in 1..n /\ j + 2 \in 1..n /\ m + (j + 1) = i + 1 /\ m + (j + 2) = i + 2
          /\ m + (j + 3) = i + 3
      BY <3>1, <3>2
    <3> QED
      BY <1>7, <3>2, <3>3
  <2> QED
    BY <1>8, <2>1, <2>2
<1>10. Lacks(z, ReplyCode) <=> Lacks(w, ReplyCode) /\ Lacks(p, ReplyCode)
  <2>1. ASSUME Lacks(z, ReplyCode) PROVE Lacks(w, ReplyCode) /\ Lacks(p, ReplyCode)
    BY <1>1, <1>2, <1>5, <1>6, <1>7, <2>1 DEF Lacks
  <2>2. ASSUME Lacks(w, ReplyCode), Lacks(p, ReplyCode) PROVE Lacks(z, ReplyCode)
    <3> SUFFICES ASSUME NEW i \in 1..(m + n) PROVE z[i] # ReplyCode
      BY <1>5 DEF Lacks
    <3>1. CASE i \in 1..m
      BY <1>1, <1>6, <2>2, <3>1 DEF Lacks
    <3>2. CASE \E j \in 1..n : i = m + j
      BY <1>2, <1>7, <2>2, <3>2 DEF Lacks
    <3> QED
      BY <1>8, <3>1, <3>2
  <2> QED
    BY <2>1, <2>2
<1> QED
  BY <1>4, <1>9, <1>10

(* Within a code only its first token opens one. *)
LEMMA ShapeTokens ==
    ASSUME NEW p, NEW c, NEW b, CodeShape(p, c, b)
    PROVE  /\ p \in Seq(Token) /\ p[1] = c /\ 1 \in DOMAIN p
           /\ \A i \in DOMAIN p : i # 1 => p[i] \notin Cq!Codes
<1>1. PICK m \in Nat : m = Len(b)
  BY DEF CodeShape
<1>2. /\ p \in Seq(Token) /\ DOMAIN p = 1..(m + 2) /\ p[1] = c /\ 1 \in DOMAIN p
      /\ p[m + 2] = "]" /\ \A i \in 1..m : p[i + 1] \notin Cq!Opens
  BY <1>1 DEF CodeShape
<1>3. "]" \notin Cq!Codes /\ Cq!Codes \subseteq Cq!Opens
  BY DEF Cq!Codes, Cq!Opens
<1>4. ASSUME NEW i \in 1..(m + 2), i # 1 PROVE p[i] \notin Cq!Codes
  <2>1. CASE i = m + 2
    BY <1>2, <1>3, <2>1
  <2>2. CASE i # m + 2
    <3>1. i - 1 \in 1..m /\ (i - 1) + 1 = i
      BY <1>4, <2>2
    <3> QED
      BY <1>2, <1>3, <3>1
  <2> QED
    BY <2>1, <2>2
<1> QED
  BY <1>2, <1>4

LEMMA PieceReplies ==
    ASSUME Cq!CqAssumption, NEW s \in Cq!Segments, TameSegment(s)
    PROVE  /\ Lacks(Piece(s), ReplyCode) <=> s.kind # "reply"
           /\ RepliesWhole(Piece(s))
<1>0. ReplyCode \in Cq!Codes /\ ImageCode # ReplyCode
  BY DEF ReplyCode, Cq!Codes, ImageCode
<1>1. CASE s.kind = "text"
  <2>1. Piece(s) = s.text
    BY <1>1 DEF Piece
  <2>2. Lacks(Piece(s), ReplyCode)
    BY <1>0, <1>1, <2>1 DEF TameSegment, Cq!Has, Lacks
  <2> QED
    BY <1>1, <2>2 DEF RepliesWhole, Lacks
<1>2. CASE s.kind = "image"
  <2>1. CodeShape(Piece(s), ImageCode, UrlHead \o s.url)
    BY <1>2, ImageShape
  <2>2. Lacks(Piece(s), ReplyCode)
    BY <1>0, <2>1, ShapeTokens DEF Lacks
  <2> QED
    BY <1>2, <2>2 DEF RepliesWhole, Lacks
<1>3. CASE s.kind = "at"
  <2>1. PICK c, b : CodeShape(Piece(s), c, b) /\ c # ReplyCode
    BY <1>3, OtherShape
  <2>2. Lacks(Piece(s), ReplyCode)
    BY <1>0, <2>1, ShapeTokens DEF Lacks
  <2> QED
    BY <1>3, <2>2 DEF RepliesWhole, Lacks
<1>4. CASE s.kind = "reply"
  <2>1. PICK c, b : CodeShape(Piece(s), c, b) /\ c = ReplyCode
    BY <1>4, OtherShape
  <2>2. PICK p : p = Piece(s) /\ p = <<ReplyCode, IdKey, "a", Bracket>>
    BY <1>4 DEF Piece, ReplyCode, IdKey, Bracket
  <2>3. DOMAIN p = 1..4 /\ p[1] = ReplyCode /\ p[2] = IdKey /\ p[3] = "a" /\ p[4] = Bracket
    BY <2>2
  <2>4. \A i \in DOMAIN p : p[i] = ReplyCode => i = 1
    BY <1>0, <2>1, <2>2, ShapeTokens
  <2>5. 1 + 3 \in 1..4 /\ 1 + 1 = 2 /\ 1 + 2 = 3 /\ 1 + 3 = 4 /\ 1 \in 1..4
    OBVIOUS
  <2>6. RepliesWhole(p)
    BY <2>3, <2>4, <2>5 DEF RepliesWhole
  <2>7. ~Lacks(p, ReplyCode)
    BY <2>3, <2>5 DEF Lacks
  <2> QED
    BY <1>4, <2>2, <2>6, <2>7
<1> QED
  BY <1>1, <1>2, <1>3, <1>4, SegmentKinds

(* One segment more. *)
LEMMA PieceRead ==
    ASSUME Cq!CqAssumption, NEW s \in Cq!Segments, TameSegment(s),
           NEW w \in Seq(Token), NEW a \in Seq(Token), NEW im \in Seq(Seq(Token)),
           Cq!Stripped(w) = [depth |-> 0, text |-> a],
           Cq!Scanned(w) = [depth |-> 0, inner |-> <<>>, images |-> im]
    PROVE  /\ Cq!Stripped(w \o Piece(s)) = [depth |-> 0, text |-> a \o Cq!TextOf(s)]
           /\ Cq!Scanned(w \o Piece(s)) = [depth |-> 0, inner |-> <<>>, images |-> im \o Cq!ImagesOf(s)]
           /\ Cq!TextOf(s) \in Seq(Token) /\ Cq!ImagesOf(s) \in Seq(Seq(Token))
<1>1. ImageCode \in Cq!Codes
  BY DEF ImageCode, Cq!Codes
<1>2. a \o <<>> = a /\ im \o <<>> = im /\ <<>> \in Seq(Token) /\ <<>> \in Seq(Seq(Token))
  BY EmptySeq, ConcatEmptySeq
<1>3. Cq!Scanned(w).depth = 0
  OBVIOUS
<1>4. CASE s.kind = "text"
  <2>1. s.text \in Seq(Token)
    <3>1. s.text \in Seq(Tokens) /\ Tokens \subseteq Token
      BY <1>4, SegmentKinds DEF Token
    <3> QED
      BY <3>1, Widen
  <2>2. Piece(s) = s.text /\ Cq!TextOf(s) = s.text /\ Cq!ImagesOf(s) = <<>>
    BY <1>4 DEF Piece, Cq!TextOf, Cq!ImagesOf
  <2>3. ~Cq!Has(s.text, Cq!Codes)
    BY <1>4 DEF TameSegment
  <2>4. Lacks(s.text, ImageCode)
    BY <1>1, <2>3 DEF Lacks, Cq!Has
  <2>5. Cq!Stripped(w \o s.text) = [depth |-> 0, text |-> a \o s.text]
    BY <2>1, <2>3, StripText
  <2>6. Cq!Scanned(w \o s.text) = Cq!Scanned(w)
    BY <1>3, <2>1, <2>4, ScanText
  <2> QED
    BY <1>2, <2>1, <2>2, <2>5, <2>6
<1>5. CASE s.kind = "image"
  <2>1. PICK p : p = Piece(s)
    OBVIOUS
  <2>2. PICK b : CodeShape(p, ImageCode, b) /\ Cq!UrlIn(b) = <<s.url>>
    BY <1>5, <2>1, ImageShape
  <2>3. Cq!TextOf(s) = <<>> /\ Cq!ImagesOf(s) = <<s.url>>
    BY <1>5 DEF Cq!TextOf, Cq!ImagesOf
  <2>4. Cq!Stripped(w \o p) = [depth |-> 0, text |-> a]
    BY <2>2, StripCode
  <2>5. Cq!Scanned(w \o p) = [depth |-> 0, inner |-> <<>>, images |-> im \o Cq!UrlIn(b)]
    BY <2>2, ScanImage
  <2>6. <<s.url>> \in Seq(Seq(Token))
    <3>1. b \in Seq(Token)
      BY <2>2 DEF CodeShape
    <3> QED
      BY <2>2, <3>1, UrlKeeps
  <2> QED
    BY <1>2, <2>1, <2>2, <2>3, <2>4, <2>5, <2>6
<1>6. CASE s.kind \in {"reply", "at"}
  <2>1. PICK p : p = Piece(s)
    OBVIOUS
  <2>2. PICK c, b : CodeShape(p, c, b) /\ c # ImageCode
    BY <1>6, <2>1, OtherShape
  <2>3. Cq!TextOf(s) = <<>> /\ Cq!ImagesOf(s) = <<>>
    BY <1>6 DEF Cq!TextOf, Cq!ImagesOf
  <2>4. Cq!Stripped(w \o p) = [depth |-> 0, text |-> a]
    BY <2>2, StripCode
  <2>5. Lacks(p, ImageCode) /\ p \in Seq(Token)
    BY <1>1, <2>2, ShapeTokens DEF Lacks
  <2>6. Cq!Scanned(w \o p) = Cq!Scanned(w)
    BY <1>3, <2>5, ScanText
  <2> QED
    BY <1>2, <2>1, <2>3, <2>4, <2>6
<1> QED
  BY <1>4, <1>5, <1>6, SegmentKinds

(* A message of segments, as the bot reads it. *)
Received(m) == m \in Seq(Cq!Segments) /\ m # <<>>

(* What the decoded string is made of: each segment's piece, one by one. *)
LEMMA MessageWire ==
    ASSUME Cq!CqAssumption, Received(msg), NEW n \in Nat, n = Len(msg)
    PROVE  \E W \in [0..n -> Seq(Token)] :
              /\ W[0] = <<>> /\ W[n] = Cq!Decode(Cq!WireText)
              /\ \A k \in 1..n : W[k] = W[k - 1] \o Piece(msg[k])
<1>1. n \in Nat \ {0} /\ DOMAIN msg = 1..n /\ \A k \in 1..n : msg[k] \in Cq!Segments
  BY DEF Received
<1>2. PICK w : w = [i \in DOMAIN msg |-> Cq!Wire(msg[i])]
  OBVIOUS
<1>3. w \in [1..n -> Seq(Raw)] /\ \A k \in 1..n : w[k] = Cq!Wire(msg[k])
  <2>1. \A k \in 1..n : Cq!Wire(msg[k]) \in Seq(Raw)
    BY <1>1, PieceDecoded
  <2> QED
    BY <1>1, <1>2, <2>1
<1>4. PICK r \in [0..n -> Seq(Raw)] : Flattens(r, n, w)
  BY <1>1, <1>3, FlattenRun
<1> DEFINE W == [k \in 0..n |-> Cq!Decode(r[k])]
<1>5. \A k \in 1..n : /\ k \in 0..n /\ k - 1 \in 0..n
                      /\ Cq!Decode(r[k]) = Cq!Decode(r[k - 1]) \o Piece(msg[k])
  <2> SUFFICES ASSUME NEW k \in 1..n
               PROVE  /\ k \in 0..n /\ k - 1 \in 0..n
                      /\ Cq!Decode(r[k]) = Cq!Decode(r[k - 1]) \o Piece(msg[k])
    OBVIOUS
  <2>1. k \in 0..n /\ k - 1 \in 0..n
    OBVIOUS
  <2>2. r[k] = r[k - 1] \o w[k] /\ r[k - 1] \in Seq(Raw) /\ w[k] \in Seq(Raw)
    BY <1>3, <1>4, <2>1 DEF Flattens
  <2>3. Cq!Decode(r[k - 1] \o w[k]) = Cq!Decode(r[k - 1]) \o Cq!Decode(w[k])
    BY <2>2, DecodeConcat
  <2>4. Cq!Decode(w[k]) = Piece(msg[k])
    BY <1>1, <1>3, PieceDecoded
  <2> QED
    BY <2>1, <2>2, <2>3, <2>4
<1>6. Cq!Decode(r[0]) = <<>> /\ <<>> \in Seq(Token)
  BY <1>4 DEF Cq!Decode, Flattens
<1> DEFINE T == {k \in 0..n : Cq!Decode(r[k]) \in Seq(Token)}
<1>7. 0 \in T
  <2>1. 0 \in 0..n
    OBVIOUS
  <2> QED
    BY <1>6, <2>1
<1>8. \A k \in 0..n : k \in T /\ k < n => k + 1 \in T
  <2> SUFFICES ASSUME NEW k \in 0..n, k \in T, k < n PROVE k + 1 \in T
    OBVIOUS
  <2>1. k + 1 \in 1..n /\ (k + 1) - 1 = k /\ k + 1 \in 0..n
    BY OneOn
  <2>2. Piece(msg[k + 1]) \in Seq(Token)
    BY <1>1, <2>1, PieceDecoded
  <2>3. Cq!Decode(r[k]) \o Piece(msg[k + 1]) \in Seq(Token)
    BY <2>2, ConcatProperties
  <2>4. Cq!Decode(r[k + 1]) = Cq!Decode(r[k]) \o Piece(msg[k + 1])
    BY <1>5, <2>1
  <2> QED
    BY <2>1, <2>3, <2>4
<1>9. \A k \in 0..n : Cq!Decode(r[k]) \in Seq(Token)
  <2>1. \A k \in 0..n : k \in T
    <3> HIDE DEF T
    <3> QED
      BY <1>7, <1>8, Upto
  <2> QED
    BY <2>1
<1>10. W \in [0..n -> Seq(Token)]
  BY <1>9
<1>11. W[0] = <<>> /\ W[n] = Cq!Decode(Cq!WireText)
  <2>1. 0 \in 0..n /\ n \in 0..n
    OBVIOUS
  <2>2. Cq!WireText = Cq!FlattenSeq(w)
    BY <1>2 DEF Cq!WireText
  <2> QED
    BY <1>4, <1>6, <2>1, <2>2 DEF Flattens
<1>12. \A k \in 1..n : W[k] = W[k - 1] \o Piece(msg[k])
  BY <1>5
<1> HIDE DEF W
<1> QED
  BY <1>10, <1>11, <1>12

(* What a tame message is read as, up to its last segment. *)
LEMMA MessageRead ==
    ASSUME Cq!CqAssumption, Received(msg), Cq!Tame, NEW s, s = Cq!Decode(Cq!WireText)
    PROVE  /\ s \in Seq(Token)
           /\ Cq!Stripped(s) = [depth |-> 0, text |-> Cq!MeantText]
           /\ Cq!Scanned(s) = [depth |-> 0, inner |-> <<>>, images |-> Cq!MeantImages]
           /\ RepliesWhole(s)
           /\ Lacks(s, ReplyCode) <=> \A i \in DOMAIN msg : msg[i].kind # "reply"
<1>1. PICK n \in Nat : n = Len(msg)
  BY DEF Received
<1>2. n \in Nat \ {0} /\ DOMAIN msg = 1..n /\ \A k \in 1..n : msg[k] \in Cq!Segments
  BY <1>1 DEF Received
<1>3. \A k \in 1..n : TameSegment(msg[k])
  BY <1>2 DEF Cq!Tame, TameSegment
<1>4. PICK W \in [0..n -> Seq(Token)] :
          W[0] = <<>> /\ W[n] = s /\ \A k \in 1..n : W[k] = W[k - 1] \o Piece(msg[k])
  BY <1>1, MessageWire
<1>5. PICK tx : tx = [i \in DOMAIN msg |-> Cq!TextOf(msg[i])]
  OBVIOUS
<1>6. PICK ix : ix = [i \in DOMAIN msg |-> Cq!ImagesOf(msg[i])]
  OBVIOUS
<1>7. Cq!Stripped(<<>>) = [depth |-> 0, text |-> <<>>]
  BY StripAppend DEF StripBase
<1>8. Cq!Scanned(<<>>) = [depth |-> 0, inner |-> <<>>, images |-> <<>>]
  BY ScanAppend DEF ScanBase
<1>9. <<>> \in Seq(Token) /\ <<>> \in Seq(Seq(Token))
  BY EmptySeq
<1>10. tx \in [1..n -> Seq(Token)] /\ ix \in [1..n -> Seq(Seq(Token))]
  <2>1. \A k \in 1..n : Cq!TextOf(msg[k]) \in Seq(Token) /\ Cq!ImagesOf(msg[k]) \in Seq(Seq(Token))
    BY <1>2, <1>3, <1>7, <1>8, <1>9, PieceRead
  <2> QED
    BY <1>2, <1>5, <1>6, <2>1
<1>11. PICK A \in [0..n -> Seq(Token)] : Flattens(A, n, tx)
  BY <1>2, <1>10, FlattenRun
<1>12. PICK B \in [0..n -> Seq(Seq(Token))] : Flattens(B, n, ix)
  BY <1>2, <1>10, FlattenRun
<1> DEFINE Read(k) == /\ Cq!Stripped(W[k]) = [depth |-> 0, text |-> A[k]]
                      /\ Cq!Scanned(W[k]) = [depth |-> 0, inner |-> <<>>, images |-> B[k]]
                      /\ RepliesWhole(W[k])
                      /\ Lacks(W[k], ReplyCode) <=> \A i \in 1..k : msg[i].kind # "reply"
<1>13. Read(0)
  <2>1. DOMAIN (<<>>) = {} /\ 1..0 = {}
    OBVIOUS
  <2>2. RepliesWhole(<<>>) /\ Lacks(<<>>, ReplyCode)
    BY <2>1 DEF RepliesWhole, Lacks
  <2> QED
    BY <1>4, <1>7, <1>8, <1>11, <1>12, <2>1, <2>2 DEF Flattens
<1>14. ASSUME NEW k \in 0..n, k < n, Read(k) PROVE k + 1 \in 0..n /\ Read(k + 1)
  <2>1. k + 1 \in 1..n /\ (k + 1) - 1 = k /\ k + 1 \in 0..n /\ k \in 0..n
    BY <1>14, OneOn
  <2>2. PICK g \in Cq!Segments : g = msg[k + 1] /\ TameSegment(g)
    BY <1>2, <1>3, <2>1
  <2>3. W[k + 1] = W[k] \o Piece(g) /\ W[k] \in Seq(Token) /\ Piece(g) \in Seq(Token)
    BY <1>4, <2>1, <2>2, PieceDecoded
  <2>4. A[k + 1] = A[k] \o Cq!TextOf(g) /\ A[k] \in Seq(Token)
    <3>1. tx[k + 1] = Cq!TextOf(g)
      BY <1>2, <1>5, <2>1, <2>2
    <3> QED
      BY <1>11, <2>1, <3>1 DEF Flattens
  <2>5. B[k + 1] = B[k] \o Cq!ImagesOf(g) /\ B[k] \in Seq(Seq(Token))
    <3>1. ix[k + 1] = Cq!ImagesOf(g)
      BY <1>2, <1>6, <2>1, <2>2
    <3> QED
      BY <1>12, <2>1, <3>1 DEF Flattens
  <2>6. PICK w \in Seq(Token) : w = W[k]
    BY <2>3
  <2>7. PICK a \in Seq(Token) : a = A[k]
    BY <2>4
  <2>8. PICK im \in Seq(Seq(Token)) : im = B[k]
    BY <2>5
  <2>9. /\ Cq!Stripped(w) = [depth |-> 0, text |-> a]
        /\ Cq!Scanned(w) = [depth |-> 0, inner |-> <<>>, images |-> im]
    BY <1>14, <2>6, <2>7, <2>8
  <2>10. /\ Cq!Stripped(w \o Piece(g)) = [depth |-> 0, text |-> a \o Cq!TextOf(g)]
         /\ Cq!Scanned(w \o Piece(g)) = [depth |-> 0, inner |-> <<>>, images |-> im \o Cq!ImagesOf(g)]
    BY <2>2, <2>9, PieceRead
  <2>11. RepliesWhole(Piece(g)) /\ (Lacks(Piece(g), ReplyCode) <=> g.kind # "reply")
    BY <2>2, PieceReplies
  <2>12. /\ RepliesWhole(w \o Piece(g))
         /\ Lacks(w \o Piece(g), ReplyCode) <=> Lacks(w, ReplyCode) /\ Lacks(Piece(g), ReplyCode)
    BY <1>14, <2>3, <2>6, <2>11, RepliesJoin
  <2>13. (\A i \in 1..(k + 1) : msg[i].kind # "reply") <=>
             (\A i \in 1..k : msg[i].kind # "reply") /\ msg[k + 1].kind # "reply"
    <3>1. 1..(k + 1) = 1..k \cup {k + 1}
      <4>1. k \in Nat
        BY <1>1, <1>14
      <4> QED
        BY <4>1, OneLonger
    <3> QED
      BY <3>1
  <2>14. Lacks(w, ReplyCode) <=> \A i \in 1..k : msg[i].kind # "reply"
    BY <1>14, <2>6
  <2>15. Lacks(W[k + 1], ReplyCode) <=> \A i \in 1..(k + 1) : msg[i].kind # "reply"
    BY <2>2, <2>3, <2>6, <2>11, <2>12, <2>13, <2>14
  <2>16. /\ Cq!Stripped(W[k + 1]) = [depth |-> 0, text |-> A[k + 1]]
         /\ Cq!Scanned(W[k + 1]) = [depth |-> 0, inner |-> <<>>, images |-> B[k + 1]]
         /\ RepliesWhole(W[k + 1])
    BY <2>3, <2>4, <2>5, <2>6, <2>7, <2>8, <2>10, <2>12
  <2> QED
    BY <2>1, <2>15, <2>16
<1> DEFINE T == {k \in 0..n : Read(k)}
<1>15. Read(n)
  <2> HIDE DEF Read
  <2>1. 0 \in T
    <3>1. 0 \in 0..n
      OBVIOUS
    <3> QED
      BY <1>13, <3>1
  <2>2. \A k \in 0..n : k \in T /\ k < n => k + 1 \in T
    BY <1>14
  <2>3. \A k \in 0..n : k \in T
    <3> HIDE DEF T
    <3> QED
      BY <2>1, <2>2, Upto
  <2>4. n \in 0..n
    OBVIOUS
  <2> QED
    BY <2>3, <2>4
<1>16. Cq!MeantText = A[n] /\ Cq!MeantImages = B[n]
  BY <1>5, <1>6, <1>11, <1>12 DEF Flattens, Cq!MeantText, Cq!MeantImages
<1>17. s \in Seq(Token)
  <2>1. n \in 0..n
    OBVIOUS
  <2> QED
    BY <1>4, <2>1
<1> HIDE DEF T
<1> QED
  BY <1>2, <1>4, <1>15, <1>16, <1>17

LEMMA MinOf ==
    ASSUME NEW S \in SUBSET Nat, S # {}
    PROVE  Cq!Min(S) \in S /\ \A x \in S : Cq!Min(S) <= x
<1>1. \E x \in S : \A y \in S : x <= y
  BY LeastOf
<1> QED
  BY <1>1 DEF Cq!Min

(* The reply is found where there is one. *)
LEMMA ReplyRead ==
    ASSUME NEW s \in Seq(Token), RepliesWhole(s)
    PROVE  Cq!ExtractReplyId(s) = IF Lacks(s, ReplyCode) THEN Cq!Nobody ELSE <<"a">>
<1>1. PICK n \in Nat : n = Len(s) /\ DOMAIN s = 1..n
  OBVIOUS
<1>2. PICK starts : starts = Cq!Where(s, 1, "[CQ:reply,") /\ starts = {i \in 1..n : s[i] = ReplyCode}
  <2>1. \A i \in 1..n : i >= 1
    OBVIOUS
  <2> QED
    BY <1>1, <2>1 DEF Cq!Where, ReplyCode
<1>3. CASE Lacks(s, ReplyCode)
  <2>1. starts = {}
    BY <1>1, <1>2, <1>3 DEF Lacks
  <2> QED
    BY <1>2, <1>3, <2>1 DEF Cq!ExtractReplyId
<1>4. CASE ~Lacks(s, ReplyCode)
  <2>1. starts # {} /\ starts \in SUBSET Nat
    <3>1. PICK i \in 1..n : s[i] = ReplyCode
      BY <1>1, <1>4 DEF Lacks
    <3>2. i \in starts
      BY <1>2, <3>1
    <3>3. \A k \in 1..n : k \in Nat
      OBVIOUS
    <3>4. starts \in SUBSET Nat
      BY <1>2, <3>3
    <3> QED
      BY <3>2, <3>4
  <2>2. PICK j \in 1..n : j = Cq!Min(starts) /\ s[j] = ReplyCode
    <3>1. Cq!Min(starts) \in starts
      BY <2>1, MinOf
    <3> QED
      BY <1>2, <3>1
  <2>3. j + 3 \in 1..n /\ s[j + 1] = IdKey /\ s[j + 2] = "a" /\ s[j + 3] = Bracket
    BY <1>1, <2>2 DEF RepliesWhole
  <2>4. PICK ends : ends = Cq!Where(s, j, "]") /\ ends = {i \in 1..n : i >= j /\ s[i] = Bracket}
    BY <1>1 DEF Cq!Where, Bracket
  <2>5. j + 3 \in ends /\ ends \in SUBSET Nat
    BY <2>3, <2>4
  <2>6. \A i \in ends : i \in 1..n /\ i # j /\ i # j + 1 /\ i # j + 2 /\ i >= j
    <3>1. ReplyCode # Bracket /\ IdKey # Bracket /\ "a" # Bracket
      BY DEF ReplyCode, IdKey, Bracket
    <3> QED
      BY <2>2, <2>3, <2>4, <3>1
  <2>7. Cq!Min(ends) = j + 3
    <3>1. Cq!Min(ends) \in ends /\ \A x \in ends : Cq!Min(ends) <= x
      BY <2>5, MinOf
    <3>2. PICK e \in 1..n : e = Cq!Min(ends) /\ e # j /\ e # j + 1 /\ e # j + 2 /\ e >= j
      BY <2>6, <3>1
    <3>3. e <= j + 3
      BY <2>5, <3>1, <3>2
    <3>4. e = j + 3
      BY <3>2, <3>3
    <3> QED
      BY <3>2, <3>4
  <2>8. PICK k \in Token : k = IdKey /\ k # Comma
    BY Words
  <2>9. PICK a \in Token : a = "a" /\ a # Comma
    BY Words
  <2>10. SubSeq(s, j + 1, (j + 3) - 1) = <<k, a>>
    <3>1. PICK q : q = SubSeq(s, j + 1, (j + 3) - 1)
      OBVIOUS
    <3>2. (j + 3) - 1 = j + 2
      OBVIOUS
    <3>3. q \in Seq(Token) /\ Len(q) = 2 /\ q[1] = k /\ q[2] = a
      BY <1>1, <2>3, <2>8, <2>9, <3>1, <3>2
    <3>4. PICK r : r = <<k, a>>
      OBVIOUS
    <3>5. r \in Seq(Token) /\ Len(r) = 2 /\ r[1] = k /\ r[2] = a
      BY <3>4
    <3>6. \A i \in 1..2 : q[i] = r[i]
      BY <3>3, <3>5
    <3>7. q = r
      BY <3>3, <3>5, <3>6, SeqEqual
    <3> QED
      BY <3>1, <3>4, <3>7
  <2>11. PICK ps : ps = Cq!Parts(SubSeq(s, j + 1, (j + 3) - 1)) /\ ps = <<<<k, a>>>>
    BY <2>8, <2>9, <2>10, PartsOfTwo
  <2>12. Cq!With("id=", ps) = {1}
    <3>1. PICK v : v = <<k, a>> /\ v # <<>> /\ v[1] = k
      <4>1. <<k, a>> # <<>> /\ <<k, a>>[1] = k
        OBVIOUS
      <4> QED
        BY <4>1
    <3>2. DOMAIN ps = {1} /\ ps[1] = v
      BY <2>11, <3>1
    <3>3. Cq!With(IdKey, ps) = {1}
      BY <2>8, <3>1, <3>2 DEF Cq!With
    <3> QED
      BY <3>3 DEF IdKey
  <2>13. Cq!Min({1}) = 1
    BY DEF Cq!Min
  <2>14. Tail(ps[1]) = <<a>>
    <3>1. ps[1] = <<k, a>>
      BY <2>11
    <3>2. Tail(<<k, a>>) = <<a>>
      OBVIOUS
    <3> QED
      BY <3>1, <3>2
  <2>15. Cq!ExtractReplyId(s) = Tail(ps[1])
    <3>1. starts # {} /\ ends # {} /\ {1} # {}
      BY <2>1, <2>5
    <3> QED
      BY <1>2, <2>2, <2>4, <2>7, <2>11, <2>12, <2>13, <3>1 DEF Cq!ExtractReplyId
  <2> QED
    BY <1>4, <2>9, <2>14, <2>15
<1> QED
  BY <1>3, <1>4

(* Whatever the message, no text that is kept begins a code. *)
LEMMA StrippedClean ==
    ASSUME NEW s \in Seq(Token)
    PROVE  Cq!StripCqCodes(s) \in Seq(Token) /\ ~Cq!Has(Cq!StripCqCodes(s), Cq!Codes)
<1>1. PICK n \in Nat : n = Len(s) /\ \A k \in 1..n : s[k] \in Token
  OBVIOUS
<1>2. PICK r \in [0..n -> StripAcc] :
          r[0] = StripBase /\ r[n] = Cq!Stripped(s) /\ \A k \in 1..n : r[k] = Cq!Strip(r[k - 1], s[k])
  BY <1>1, StripRun
<1> DEFINE Clean(a) == \A i \in DOMAIN a.text : a.text[i] \notin Cq!Codes
<1>3. ASSUME NEW a \in StripAcc, NEW t \in Token, Clean(a) PROVE Clean(Cq!Strip(a, t))
  <2>1. a.depth \in Nat /\ a.text \in Seq(Token)
    BY DEF StripAcc
  <2>2. CASE a.depth > 0
    <3>1. Cq!Strip(a, t).text = a.text
      BY <2>2 DEF Cq!Strip, StripAcc
    <3> QED
      BY <1>3, <3>1
  <2>3. CASE ~(a.depth > 0) /\ t \in Cq!Codes
    <3>1. Cq!Strip(a, t).text = a.text
      BY <2>3 DEF Cq!Strip, StripAcc
    <3> QED
      BY <1>3, <3>1
  <2>4. CASE ~(a.depth > 0) /\ t \notin Cq!Codes
    <3>1. Cq!Strip(a, t).text = Append(a.text, t)
      BY <2>4 DEF Cq!Strip, StripAcc
    <3>2. PICK u : u = Append(a.text, t)
      OBVIOUS
    <3>3. /\ DOMAIN u = 1..(Len(a.text) + 1) /\ u[Len(a.text) + 1] = t
          /\ \A i \in 1..Len(a.text) : u[i] = a.text[i]
      BY <2>1, <3>2
    <3>4. \A i \in DOMAIN u : u[i] \notin Cq!Codes
      <4>1. PICK m \in Nat : m = Len(a.text) /\ DOMAIN a.text = 1..m
        BY <2>1
      <4>2. ASSUME NEW i \in DOMAIN u PROVE u[i] \notin Cq!Codes
        <5>1. i \in 1..m \/ i = m + 1
          BY <3>3, <4>1
        <5>2. CASE i \in 1..m
          BY <1>3, <3>3, <4>1, <5>2
        <5>3. CASE i = m + 1
          BY <2>4, <3>3, <4>1, <5>3
        <5> QED
          BY <5>1, <5>2, <5>3
      <4> QED
        BY <4>2
    <3> QED
      BY <3>1, <3>2, <3>4
  <2> QED
    BY <2>2, <2>3, <2>4
<1> DEFINE T == {k \in 0..n : Clean(r[k])}
<1>4. 0 \in T
  <2>1. 0 \in 0..n /\ r[0].text = <<>>
    BY <1>2 DEF StripBase
  <2>2. \A i \in DOMAIN r[0].text : FALSE
    BY <2>1
  <2> QED
    BY <2>1, <2>2
<1>5. \A k \in 0..n : k \in T /\ k < n => k + 1 \in T
  <2> HIDE DEF Clean
  <2> SUFFICES ASSUME NEW k \in 0..n, k \in T, k < n PROVE k + 1 \in T
    OBVIOUS
  <2>1. k + 1 \in 1..n /\ (k + 1) - 1 = k /\ k + 1 \in 0..n
    BY OneOn
  <2>2. r[k + 1] = Cq!Strip(r[k], s[k + 1]) /\ r[k] \in StripAcc /\ s[k + 1] \in Token
    BY <1>1, <1>2, <2>1
  <2> QED
    BY <1>3, <2>1, <2>2
<1>6. Clean(r[n])
  <2> HIDE DEF Clean
  <2>1. \A k \in 0..n : k \in T
    <3> HIDE DEF T
    <3> QED
      BY <1>4, <1>5, Upto
  <2>2. n \in 0..n
    OBVIOUS
  <2> QED
    BY <2>1, <2>2
<1>7. r[n] \in StripAcc
  BY <1>2
<1> HIDE DEF T
<1> QED
  BY <1>2, <1>6, <1>7 DEF Cq!StripCqCodes, Cq!Has, StripAcc

(* The state of a message that is being read: the result is what the       *)
(* decoded string gives, and nothing else.                                 *)
CodesInv ==
    /\ Received(msg)
    /\ got = Cq!NotYet \/ got = Cq!Result(Cq!Decode(Cq!WireText))

LEMMA CodesTyped ==
    ASSUME Cq!CqAssumption, CodesInv
    PROVE  Cq!TypeInv
<1>1. CASE got = Cq!NotYet
  BY <1>1 DEF Cq!TypeInv, Cq!NotYet, Cq!Done
<1>2. CASE got = Cq!Result(Cq!Decode(Cq!WireText))
  <2>1. PICK s \in Seq(Token) : s = Cq!Decode(Cq!WireText)
    <3>1. PICK n \in Nat : n = Len(msg)
      BY DEF CodesInv, Received
    <3>2. PICK W \in [0..n -> Seq(Token)] : W[n] = Cq!Decode(Cq!WireText)
      BY <3>1, MessageWire DEF CodesInv
    <3>3. n \in 0..n
      OBVIOUS
    <3> QED
      BY <3>2, <3>3
  <2>2. PICK rd : rd = Cq!Read(s) /\ rd.kind = "message" /\ rd.text = Cq!StripCqCodes(s)
    <3>1. Cq!Read(s).kind = "message" /\ Cq!Read(s).text = Cq!StripCqCodes(s)
      BY DEF Cq!Read
    <3> QED
      BY <3>1
  <2>3. ~Cq!Has(rd.text, Cq!Codes)
    BY <2>2, StrippedClean
  <2>4. CASE Cq!SliceFails(s)
    BY <1>2, <2>1, <2>4 DEF Cq!Result, Cq!Panic, Cq!TypeInv, Cq!Done
  <2>5. CASE ~Cq!SliceFails(s) /\ Cq!Empty(rd)
    BY <1>2, <2>1, <2>2, <2>5 DEF Cq!Result, Cq!TypeInv, Cq!Done
  <2>6. CASE ~Cq!SliceFails(s) /\ ~Cq!Empty(rd)
    <3>1. got = rd
      BY <1>2, <2>1, <2>2, <2>6 DEF Cq!Result
    <3> QED
      BY <2>2, <2>3, <2>6, <3>1 DEF Cq!TypeInv, Cq!Done
  <2> QED
    BY <2>4, <2>5, <2>6
<1> QED
  BY <1>1, <1>2 DEF CodesInv

(* A message is read as it was meant. *)
LEMMA CodesMeant ==
    ASSUME Cq!CqAssumption, CodesInv
    PROVE  Cq!ReadAsMeant
<1> SUFFICES ASSUME Cq!Tame, got # Cq!NotYet
             PROVE  IF Cq!MeantText = <<>> /\ Cq!MeantImages = <<>> THEN got.kind = "ignored"
                    ELSE got = [kind |-> "message", text |-> Cq!MeantText, images |-> Cq!MeantImages,
                                reply |-> Cq!MeantReply]
  BY DEF Cq!ReadAsMeant
<1>1. PICK s : s = Cq!Decode(Cq!WireText) /\ got = Cq!Result(s)
  BY DEF CodesInv
<1>2. /\ s \in Seq(Token)
      /\ Cq!Stripped(s) = [depth |-> 0, text |-> Cq!MeantText]
      /\ Cq!Scanned(s) = [depth |-> 0, inner |-> <<>>, images |-> Cq!MeantImages]
      /\ RepliesWhole(s)
      /\ Lacks(s, ReplyCode) <=> \A i \in DOMAIN msg : msg[i].kind # "reply"
  BY <1>1, MessageRead DEF CodesInv
<1>3. Cq!StripCqCodes(s) = Cq!MeantText
  BY <1>2 DEF Cq!StripCqCodes
<1>4. Cq!Scanned(s).depth = 0 /\ Cq!Scanned(s).images = Cq!MeantImages
  BY <1>2
<1>5. Cq!ExtractImages(s) = Cq!MeantImages /\ ~Cq!SliceFails(s)
  <2>1. ~(Cq!Scanned(s).depth > 0)
    BY <1>4
  <2> QED
    BY <1>4, <2>1 DEF Cq!ExtractImages, Cq!SliceFails
<1>6. Cq!ExtractReplyId(s) = Cq!MeantReply
  BY <1>2, ReplyRead DEF Cq!MeantReply
<1>7. PICK rd : /\ rd = Cq!Read(s) /\ rd.text = Cq!MeantText /\ rd.images = Cq!MeantImages
                /\ rd = [kind |-> "message", text |-> Cq!MeantText, images |-> Cq!MeantImages,
                         reply |-> Cq!MeantReply]
  BY <1>3, <1>5, <1>6 DEF Cq!Read
<1>8. got = IF Cq!Empty(rd) THEN [kind |-> "ignored"] ELSE rd
  BY <1>1, <1>5, <1>7 DEF Cq!Result
<1>9. Cq!Empty(rd) <=> Cq!MeantText = <<>> /\ Cq!MeantImages = <<>>
  BY <1>7 DEF Cq!Empty
<1>10. CASE Cq!Empty(rd)
  <2>1. got.kind = "ignored"
    BY <1>8, <1>10
  <2> QED
    BY <1>9, <1>10, <2>1
<1>11. CASE ~Cq!Empty(rd)
  BY <1>7, <1>8, <1>9, <1>11
<1> QED
  BY <1>10, <1>11

LEMMA CodesStart ==
    ASSUME Cq!CqAssumption, Cq!Init
    PROVE  CodesInv
<1>1. PICK n \in 1..MaxSegments : msg \in [1..n -> Cq!Segments]
  BY DEF Cq!Init
<1>2. n \in Nat \ {0}
  BY <1>1 DEF Cq!CqAssumption
<1>3. msg \in Seq(Cq!Segments) /\ msg # <<>>
  BY <1>1, <1>2
<1> QED
  BY <1>3 DEF CodesInv, Received, Cq!Init

LEMMA CodesStep ==
    ASSUME CodesInv, Cq!HandleMessage
    PROVE  CodesInv'
<1>1. msg' = msg /\ got' = Cq!Result(Cq!Decode(Cq!WireText))
  BY DEF Cq!HandleMessage
<1>2. Received(msg)'
  BY <1>1 DEF CodesInv, Received
<1>3. (Cq!WireText)' = Cq!WireText
  BY <1>1 DEF Cq!WireText
<1>4. got' = (Cq!Result(Cq!Decode(Cq!WireText)))'
  BY <1>1, <1>3
<1> QED
  BY <1>2, <1>4 DEF CodesInv

LEMMA CodesIdle == CodesInv /\ UNCHANGED Cq!vars => CodesInv'
<1> SUFFICES ASSUME CodesInv, UNCHANGED Cq!vars PROVE CodesInv'
  OBVIOUS
<1>1. msg' = msg /\ got' = got
  BY DEF Cq!vars
<1>2. Received(msg)'
  BY <1>1 DEF CodesInv, Received
<1>3. (Cq!WireText)' = Cq!WireText
  BY <1>1 DEF Cq!WireText
<1>4. (Cq!Result(Cq!Decode(Cq!WireText)))' = Cq!Result(Cq!Decode(Cq!WireText))
  BY <1>3
<1> QED
  BY <1>1, <1>2, <1>4 DEF CodesInv

(* A message the QQ socket hands on is, at any time, either still encoded  *)
(* or read from its CQ codes by from_onebot.                               *)
LEMMA CodesSafe == ASSUME Cq!CqAssumption PROVE Cq!Spec => []CodesInv
<1>1. Cq!Init => CodesInv
  BY CodesStart
<1>2. CodesInv /\ [Cq!HandleMessage]_(Cq!vars) => CodesInv'
  BY CodesStep, CodesIdle
<1> QED
  BY <1>1, <1>2, PTL DEF Cq!Spec

----------------------------------------------------------------------------
(***************************************************************************)
(* The behaviours of Parts.                                                *)
(***************************************************************************)
LEMMA CodesRun == Spec /\ chosen = "codes" => Cq!Spec
<1>1. chosen = "codes" /\ Init => Cq!Init
  BY DEF Init
<1>2. chosen = "codes" /\ [Next]_vars => (chosen = "codes")' /\ [Cq!HandleMessage]_(Cq!vars)
  BY DEF Next, Runs, vars, codeVars, Cq!vars
<1> QED
  BY <1>1, <1>2, PTL DEF Spec, Cq!Spec

LEMMA CodesAway == Spec /\ ~(chosen = "codes") => []CodesRest
<1>1. ~(chosen = "codes") /\ Init => CodesRest
  BY DEF Init
<1>2. ~(chosen = "codes") /\ CodesRest /\ [Next]_vars => ~(chosen = "codes")' /\ CodesRest'
  BY DEF Next, Runs, vars, codeVars, CodesRest
<1> QED
  BY <1>1, <1>2, PTL DEF Spec

(* A QQ message is read as it was meant, for any number of texts, images,   *)
(* mentions and replies in any order: handle_message finds its text, its    *)
(* images in their order and the message it replies to, and no slice of     *)
(* extract_images fails, unless someone writes the opening of a code or an  *)
(* address holds a comma or a bracket.                                      *)
THEOREM ReadRight == Spec => []ReadAsMeant
<1>1. CodesRest => Cq!ReadAsMeant
  BY DEF CodesRest, Cq!ReadAsMeant
<1>2. Cq!Spec => []Cq!ReadAsMeant
  <2>1. CodesInv => Cq!ReadAsMeant
    BY PartAssumptions, CodesMeant
  <2>2. Cq!Spec => []CodesInv
    BY PartAssumptions, CodesSafe
  <2> QED
    BY <2>1, <2>2, PTL
<1> QED
  BY <1>1, <1>2, CodesRun, CodesAway, PTL DEF ReadAsMeant
=============================================================================
