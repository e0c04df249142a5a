------------------------- MODULE WaveformReducer_proofs -------------------------
(***************************************************************************)
(* The reducer of a waveform, for any number of bins, any chunks and any   *)
(* length of the stream: what it holds stands for all of the stream, piece *)
(* by piece, and so do the bins; a bin begins near the place where it is   *)
(* drawn; and no view of the bins loses or invents a peak.                 *)
(*                                                                         *)
(* Folds.  FoldLeft is defined by recursion over sets of positions.  That  *)
(* the recursion has a solution, and that it goes through a sequence       *)
(* element by element, is shown with a least counterexample (LeastNatural, *)
(* from the well-foundedness of < on Nat); from then on a fold is known by *)
(* two equations.                                                          *)
(*                                                                         *)
(* Pieces.  Aggregates cover a stream when there are cuts such that the    *)
(* i-th stands for the frames between two of them.  Appending, halving and *)
(* sharing them out to bins turn a cover into a cover.                     *)
(*                                                                         *)
(* Places.  Halving rounds the number of aggregates up, so cuts fall       *)
(* behind the multiples of the block size.  Near bounds by how much: less  *)
(* than one block, at most i / requested_bins of one at the i-th cut, and, *)
(* the other way round, enough of it where i is large.  The invariant is   *)
(* that all cuts are near and that the last one lacks exactly one frame    *)
(* less than a block; the place of a bin follows from both.                *)
(***************************************************************************)
EXTENDS WaveformReducer, SequenceTheorems, WellFoundedInduction, TLAPS

(* Every non-empty set of naturals has a least element. *)
LEMMA LeastNatural ==
  ASSUME NEW N, N \subseteq Nat, N # {}
  PROVE  \E m \in N : \A n \in N : m <= n
<1>1. PICK m \in N : \A n \in N : ~ (<<n, m>> \in OpToRel(<, Nat))
  BY WFMin, NatLessThanWellFounded, Zenon
<1>2. \A n \in N : ~ (n < m)
  BY <1>1 DEF OpToRel
<1> QED
  BY <1>2

(* The largest of 1 .. n is n. *)
LEMMA LargestOfUpto ==
  ASSUME NEW n \in Nat, NEW s \in SUBSET (1 .. n), n \in s
  PROVE  Max(s) = n
<1>1. \A i \in s : i <= n /\ i \in Int
  OBVIOUS
<1>2. \A x \in s : (\A i \in s : i <= x) => x = n
  BY <1>1
<1>3. \E x \in s : \A i \in s : i <= x
  BY <1>1
<1> QED
  BY <1>2, <1>3 DEF Max

(* Max of a set of positions is one of them. *)
LEMMA LargestIsElement ==
  ASSUME NEW n \in Nat, NEW s \in SUBSET (1 .. n), s # {}
  PROVE  Max(s) \in s
<1> DEFINE Bounds == {m \in Nat : \A i \in s : i <= m}
<1>1. n \in Bounds
  OBVIOUS
<1>2. PICK m \in Bounds : \A k \in Bounds : m <= k
  <2> HIDE DEF Bounds
  <2>1. Bounds \subseteq Nat
    BY DEF Bounds
  <2> QED
    BY <1>1, <2>1, LeastNatural
<1>3. m \in s
  <2> SUFFICES ASSUME m \notin s PROVE FALSE
    OBVIOUS
  <2>1. PICK i \in s : TRUE
    OBVIOUS
  <2>2. m \in Nat /\ m >= 1 /\ \A k \in s : k <= m - 1
    BY <2>1
  <2>3. m - 1 \in Bounds
    BY <2>2
  <2> QED
    BY <1>2, <2>2, <2>3
<1>4. \E x \in s : \A i \in s : i <= x
  BY <1>3
<1> QED
  BY <1>4 DEF Max

(* What a fold makes of each set of positions. *)
MadeByFold(step, base, seq, n, made) ==
  \A s \in SUBSET (1 .. n) :
    made[s] = IF s = {} THEN base ELSE step[<<made[s \ {Max(s)}], seq[Max(s)]>>]

(* The recursion that the community modules define FoldLeft by has a       *)
(* solution: no set of positions is the smallest on which it has none.     *)
LEMMA FoldExists ==
  ASSUME NEW S, NEW T, NEW step \in [S \X T -> S], NEW base \in S, NEW seq \in Seq(T)
  PROVE  \E made \in [SUBSET (1 .. Len(seq)) -> S] : MadeByFold(step, base, seq, Len(seq), made)
<1> DEFINE Good(n) == \E made \in [SUBSET (1 .. n) -> S] : MadeByFold(step, base, seq, n, made)
           Bad == {n \in 0 .. Len(seq) : ~ Good(n)}
<1>1. Len(seq) \in Nat /\ \A i \in 1 .. Len(seq) : seq[i] \in T
  OBVIOUS
<1>2. Bad = {}
  <2> SUFFICES ASSUME Bad # {} PROVE FALSE
    OBVIOUS
  <2>1. PICK m \in Bad : \A n \in Bad : m <= n
    <3>1. Bad \subseteq Nat
      BY <1>1
    <3> HIDE DEF Bad
    <3> QED
      BY <3>1, LeastNatural
  <2>2. m # 0
    <3>1. SUBSET (1 .. 0) = {{}}
      OBVIOUS
    <3>2. [s \in SUBSET (1 .. 0) |-> base] \in [SUBSET (1 .. 0) -> S]
      OBVIOUS
    <3>3. MadeByFold(step, base, seq, 0, [s \in SUBSET (1 .. 0) |-> base])
      BY <3>1 DEF MadeByFold
    <3>4. Good(0)
      BY <3>2, <3>3
    <3> QED
      BY <3>4
  <2>3. m \in 1 .. Len(seq) /\ m - 1 \in 0 .. Len(seq) /\ ~ Good(m)
    <3> HIDE DEF Good
    <3>1. m \in 0 .. Len(seq) /\ ~ Good(m)
      OBVIOUS
    <3> QED
      BY <3>1, <2>2, <1>1
  <2>4. Good(m - 1)
    <3> HIDE DEF Good
    <3> QED
      BY <2>1, <2>3
  <2>5. PICK made \in [SUBSET (1 .. (m - 1)) -> S] : MadeByFold(step, base, seq, m - 1, made)
    BY <2>4
  <2> DEFINE more == [s \in SUBSET (1 .. m) |->
                        IF m \in s THEN step[<<made[s \ {m}], seq[m]>>] ELSE made[s]]
  <2>6. ASSUME NEW s \in SUBSET (1 .. m)
        PROVE  /\ m \notin s => s \in SUBSET (1 .. (m - 1))
               /\ s \ {m} \in SUBSET (1 .. (m - 1))
               /\ m \in s => Max(s) = m
    BY <2>3, LargestOfUpto
  <2>7. more \in [SUBSET (1 .. m) -> S]
    BY <1>1, <2>3, <2>6
  <2>8. ASSUME NEW s \in SUBSET (1 .. m)
        PROVE  more[s] = IF s = {} THEN base ELSE step[<<more[s \ {Max(s)}], seq[Max(s)]>>]
    <3>1. CASE m \in s
      <4>1. s \ {m} \in SUBSET (1 .. m) /\ m \notin s \ {m}
        OBVIOUS
      <4>2. more[s \ {m}] = made[s \ {m}]
        BY <4>1
      <4>3. more[s] = step[<<made[s \ {m}], seq[m]>>]
        BY <3>1
      <4> QED
        BY <3>1, <4>2, <4>3, <2>6
    <3>2. CASE m \notin s
      <4>1. s \in SUBSET (1 .. (m - 1)) /\ more[s] = made[s]
        BY <3>2, <2>6
      <4>2. s \ {Max(s)} \in SUBSET (1 .. m) /\ m \notin s \ {Max(s)}
        BY <3>2
      <4>3. more[s \ {Max(s)}] = made[s \ {Max(s)}]
        BY <4>2
      <4> QED
        BY <4>1, <4>3, <2>5 DEF MadeByFold
    <3> QED
      BY <3>1, <3>2
  <2>9. MadeByFold(step, base, seq, m, more)
    BY <2>8 DEF MadeByFold
  <2> QED
    BY <2>3, <2>7, <2>9
<1>3. Good(Len(seq))
  <2> HIDE DEF Good
  <2> QED
    BY <1>1, <1>2
<1> QED
  BY <1>3

(* The values a fold passes through: after none, one, two, ... elements. *)
Path(S, step, base, seq, g) ==
  /\ g \in [0 .. Len(seq) -> S]
  /\ g[0] = base
  /\ \A n \in 1 .. Len(seq) : g[n] = step[<<g[n - 1], seq[n]>>]

(* What is made of the first positions, one by one, is such a path. *)
OneByOne(S, T, step, base, seq, made) ==
  /\ step \in [S \X T -> S] /\ base \in S /\ seq \in Seq(T)
  /\ made[{}] = base
  /\ \A n \in 1 .. Len(seq) :
       made[1 .. (n - 1)] \in S => made[1 .. n] = step[<<made[1 .. (n - 1)], seq[n]>>]

(* A fold is the last value of the path that its step takes through the    *)
(* sequence: if they differed, they would at some least length.            *)
LEMMA FoldsFollowPath ==
  ASSUME NEW S, NEW T, NEW step, NEW base, NEW seq, NEW made, OneByOne(S, T, step, base, seq, made)
  PROVE  Path(S, step, base, seq, [n \in 0 .. Len(seq) |-> made[1 .. n]])
<1> USE DEF OneByOne
<1> DEFINE g == [n \in 0 .. Len(seq) |-> made[1 .. n]]
           Bad == {n \in 0 .. Len(seq) : g[n] \notin S}
<1>1. Len(seq) \in Nat /\ \A i \in 1 .. Len(seq) : seq[i] \in T
  OBVIOUS
<1>2. g[0] = base
  <2>1. 1 .. 0 = {}
    OBVIOUS
  <2> QED
    BY <1>1, <2>1
<1>3. \A n \in 1 .. Len(seq) : g[n] = made[1 .. n] /\ g[n - 1] = made[1 .. (n - 1)]
  BY <1>1
<1>4. Bad = {}
  <2> SUFFICES ASSUME Bad # {} PROVE FALSE
    OBVIOUS
  <2>1. PICK m \in Bad : \A n \in Bad : m <= n
    <3>1. Bad \subseteq Nat
      BY <1>1
    <3> HIDE DEF Bad
    <3> QED
      BY <3>1, LeastNatural
  <2>2. m \in 1 .. Len(seq) /\ m - 1 \in 0 .. Len(seq) /\ g[m] \notin S
    BY <1>1, <1>2
  <2>3. g[m - 1] \in S
    BY <2>1, <2>2
  <2> QED
    BY <1>1, <1>3, <2>2, <2>3
<1>5. \A n \in 0 .. Len(seq) : g[n] \in S
  BY <1>4
<1>6. \A n \in 1 .. Len(seq) : g[n] = step[<<g[n - 1], seq[n]>>]
  <2>1. ASSUME NEW n \in 1 .. Len(seq) PROVE g[n] = step[<<g[n - 1], seq[n]>>]
    <3>1. g[n - 1] \in S
      BY <1>1, <1>5
    <3> QED
      BY <3>1, <1>3
  <2> QED
    BY <2>1
<1>7. g \in [0 .. Len(seq) -> S]
  BY <1>5
<1> HIDE DEF g
<1> QED
  BY <1>2, <1>6, <1>7 DEF Path, g

(* Paths over two sequences that begin with the same n elements. *)
BeginAlike(S, step, base, s, t, g, h, n) ==
  /\ Path(S, step, base, s, g) /\ Path(S, step, base, t, h)
  /\ n \in Nat /\ Len(s) \in Nat /\ Len(t) \in Nat /\ n <= Len(s) /\ n <= Len(t)
  /\ \A i \in 1 .. n : s[i] = t[i]

(* Two paths over sequences that begin alike are at the same value as long *)
(* as they do.                                                             *)
LEMMA PathsAgree ==
  ASSUME NEW S, NEW step, NEW base, NEW s, NEW t, NEW g, NEW h, NEW n,
         BeginAlike(S, step, base, s, t, g, h, n)
  PROVE  g[n] = h[n]
<1> USE DEF BeginAlike
<1> DEFINE Bad == {i \in 0 .. n : g[i] # h[i]}
<1>1. Bad = {}
  <2> SUFFICES ASSUME Bad # {} PROVE FALSE
    OBVIOUS
  <2>1. PICK m \in Bad : \A i \in Bad : m <= i
    <3>1. Bad \subseteq Nat
      OBVIOUS
    <3> HIDE DEF Bad
    <3> QED
      BY <3>1, LeastNatural
  <2>2. m \in 1 .. n /\ m - 1 \in 0 .. n /\ g[m] # h[m]
    BY DEF Path
  <2>3. g[m - 1] = h[m - 1]
    BY <2>1, <2>2
  <2>4. m \in 1 .. Len(s) /\ m \in 1 .. Len(t)
    BY <2>2
  <2> QED
    BY <2>2, <2>3, <2>4 DEF Path
<1> QED
  BY <1>1

(* A function that is what the folds reach is given by two equations. *)
ReachedByFold(S, T, step, base, f) ==
  /\ base \in S
  /\ \A s \in Seq(T) : \E g : Path(S, step, base, s, g) /\ f[s] = g[Len(s)]

(* The two equations of a fold: what it makes of nothing, and of a         *)
(* sequence with one more element.                                         *)
LEMMA FoldEquations ==
  ASSUME NEW S, NEW T, NEW step, NEW base, NEW f, ReachedByFold(S, T, step, base, f)
  PROVE  /\ f[<<>>] = base
         /\ \A s \in Seq(T) : f[s] \in S
         /\ \A s \in Seq(T), x \in T : f[Append(s, x)] = step[<<f[s], x>>]
<1> USE DEF ReachedByFold
<1>1. f[<<>>] = base
  <2>1. <<>> \in Seq(T) /\ Len(<<>>) = 0
    OBVIOUS
  <2> QED
    BY <2>1 DEF Path
<1>2. ASSUME NEW s \in Seq(T) PROVE f[s] \in S
  <2>1. Len(s) \in 0 .. Len(s)
    OBVIOUS
  <2> QED
    BY <2>1 DEF Path
<1>3. ASSUME NEW s \in Seq(T), NEW x \in T PROVE f[Append(s, x)] = step[<<f[s], x>>]
  <2> DEFINE t == Append(s, x)
  <2>1. t \in Seq(T) /\ Len(s) \in Nat /\ Len(t) = Len(s) + 1 /\ t[Len(t)] = x
        /\ \A i \in 1 .. Len(s) : s[i] = t[i]
    BY AppendProperties
  <2> HIDE DEF t
  <2>2. PICK g : Path(S, step, base, s, g) /\ f[s] = g[Len(s)]
    OBVIOUS
  <2>3. PICK h : Path(S, step, base, t, h) /\ f[t] = h[Len(t)]
    BY <2>1
  <2>4. g[Len(s)] = h[Len(s)]
    <3>1. Len(s) <= Len(s) /\ Len(s) <= Len(t) /\ Len(t) \in Nat
      BY <2>1
    <3>2. BeginAlike(S, step, base, s, t, g, h, Len(s))
      BY <2>1, <2>2, <2>3, <3>1, Zenon DEF BeginAlike
    <3> QED
      BY <3>2, PathsAgree
  <2>5. Len(t) \in 1 .. Len(t) /\ Len(t) - 1 = Len(s)
    BY <2>1
  <2>6. h[Len(t)] = step[<<h[Len(t) - 1], t[Len(t)]>>]
    BY <2>3, <2>5 DEF Path
  <2> QED
    BY <2>1, <2>2, <2>3, <2>4, <2>5, <2>6 DEF t
<1> QED
  BY <1>1, <1>2, <1>3

(* The recursion that defines FoldLeft, for an operator that is a function. *)
Recursion(S, T, step, base, seq, made) ==
  /\ step \in [S \X T -> S] /\ base \in S /\ seq \in Seq(T)
  /\ made[{}] = base
  /\ \A s \in SUBSET (1 .. Len(seq)) :
       s # {} /\ made[s \ {Max(s)}] \in S => made[s] = step[<<made[s \ {Max(s)}], seq[Max(s)]>>]

(* What the recursion makes of the first positions of a sequence, one by   *)
(* one, is a path.                                                         *)
LEMMA RecursionFollowsPath ==
  ASSUME NEW S, NEW T, NEW step, NEW base, NEW seq, NEW made,
         Recursion(S, T, step, base, seq, made)
  PROVE  \E g : Path(S, step, base, seq, g) /\ made[1 .. Len(seq)] = g[Len(seq)]
<1> USE DEF Recursion
<1> DEFINE g == [n \in 0 .. Len(seq) |-> made[1 .. n]]
<1>1. Len(seq) \in Nat
  OBVIOUS
<1>2. ASSUME NEW n \in 1 .. Len(seq), made[1 .. (n - 1)] \in S
      PROVE  made[1 .. n] = step[<<made[1 .. (n - 1)], seq[n]>>]
  <2>1. n \in Nat /\ n \in 1 .. n /\ n <= Len(seq)
    BY <1>1
  <2>4. 1 .. n \in SUBSET (1 .. n) /\ 1 .. n \in SUBSET (1 .. Len(seq)) /\ 1 .. n # {}
    <3>1. \A i \in 1 .. n : i \in 1 .. Len(seq)
      BY <1>1, <2>1
    <3> QED
      BY <2>1, <3>1, Zenon
  <2>2. Max(1 .. n) = n
    BY <2>1, <2>4, LargestOfUpto
  <2>3. (1 .. n) \ {n} = 1 .. (n - 1)
    BY <1>1
  <2> QED
    BY <1>2, <2>1, <2>2, <2>3, <2>4
<1>3. Path(S, step, base, seq, g)
  <2>1. OneByOne(S, T, step, base, seq, made)
    BY <1>2 DEF OneByOne
  <2> HIDE DEF Recursion
  <2> QED
    BY <2>1, FoldsFollowPath
<1>4. g[Len(seq)] = made[1 .. Len(seq)]
  BY <1>1
<1> QED
  BY <1>3, <1>4

------------------------------------------------------------------------------
(* Sums *)

Plus == [p \in Int \X Int |-> p[1] + p[2]]

(* Total is reached by adding the numbers one by one. *)
LEMMA TotalPath ==
  ASSUME NEW seq \in Seq(Int)
  PROVE  \E g : Path(Int, Plus, 0, seq, g) /\ Total(seq) = g[Len(seq)]
<1> DEFINE P(made) == made = [s \in SUBSET (DOMAIN seq) |->
                        IF s = {} THEN 0 ELSE made[s \ {Max(s)}] + seq[Max(s)]]
           made == CHOOSE m : P(m)
<1>1. Total(seq) = made[DOMAIN seq]
  BY DEF Total, FoldLeft, MapThenFoldSet
<1>2. DOMAIN seq = 1 .. Len(seq) /\ Len(seq) \in Nat /\ \A i \in 1 .. Len(seq) : seq[i] \in Int
  OBVIOUS
<1>3. \E m : P(m)
  <2>1. PICK m \in [SUBSET (1 .. Len(seq)) -> Int] : MadeByFold(Plus, 0, seq, Len(seq), m)
    <3>1. Plus \in [Int \X Int -> Int]
      BY DEF Plus
    <3> QED
      BY <3>1, 0 \in Int, FoldExists, Zenon
  <2>2. ASSUME NEW s \in SUBSET (1 .. Len(seq))
        PROVE  m[s] = IF s = {} THEN 0 ELSE m[s \ {Max(s)}] + seq[Max(s)]
    <3>1. CASE s = {}
      BY <2>1, <3>1 DEF MadeByFold
    <3>2. CASE s # {}
      <4>1. m[s \ {Max(s)}] \in Int /\ seq[Max(s)] \in Int
        BY <1>2, <2>1, <3>2, LargestIsElement
      <4>2. m[s] = Plus[<<m[s \ {Max(s)}], seq[Max(s)]>>]
        BY <2>1, <3>2 DEF MadeByFold
      <4> QED
        BY <3>2, <4>1, <4>2 DEF Plus
    <3> QED
      BY <3>1, <3>2
  <2>3. P(m)
    BY <1>2, <2>1, <2>2
  <2> QED
    BY <2>3
<1>4. P(made)
  <2> HIDE DEF P
  <2> QED
    BY <1>3
<1> QED
  <2> HIDE DEF made
  <2>1. made[{}] = 0
    BY <1>4
  <2>2. ASSUME NEW s \in SUBSET (1 .. Len(seq)), s # {}, made[s \ {Max(s)}] \in Int
        PROVE  made[s] = Plus[<<made[s \ {Max(s)}], seq[Max(s)]>>]
    <3>1. seq[Max(s)] \in Int
      BY <1>2, <2>2, LargestIsElement
    <3>2. made[s] = made[s \ {Max(s)}] + seq[Max(s)]
      BY <1>2, <1>4, <2>2
    <3> QED
      BY <2>2, <3>1, <3>2 DEF Plus
  <2>3. Plus \in [Int \X Int -> Int]
    BY DEF Plus
  <2> HIDE DEF P
  <2>4. Recursion(Int, Int, Plus, 0, seq, made)
    BY <2>1, <2>2, <2>3, 0 \in Int, Zenon DEF Recursion
  <2> QED
    BY <1>1, <1>2, <2>4, RecursionFollowsPath

(* The equations of Total. *)
LEMMA TotalEquations ==
  /\ Total(<<>>) = 0
  /\ \A s \in Seq(Int) : Total(s) \in Int
  /\ \A s \in Seq(Int), x \in Int : Total(Append(s, x)) = Total(s) + x
<1> DEFINE f == [s \in Seq(Int) |-> Total(s)]
<1>1. ReachedByFold(Int, Int, Plus, 0, f)
  BY TotalPath DEF ReachedByFold
<1>2. \A s \in Seq(Int) : f[s] = Total(s)
  OBVIOUS
<1> HIDE DEF f
<1>3. /\ f[<<>>] = 0
      /\ \A s \in Seq(Int) : f[s] \in Int
      /\ \A s \in Seq(Int), x \in Int : f[Append(s, x)] = Plus[<<f[s], x>>]
  BY <1>1, FoldEquations
<1>4. \A s \in Seq(Int), x \in Int : Append(s, x) \in Seq(Int)
  OBVIOUS
<1>5. <<>> \in Seq(Int)
  OBVIOUS
<1>6. ASSUME NEW s \in Seq(Int), NEW x \in Int PROVE Plus[<<f[s], x>>] = f[s] + x
  BY <1>3 DEF Plus
<1>7. Total(<<>>) = 0
  BY <1>2, <1>3, <1>5
<1>8. \A s \in Seq(Int) : Total(s) \in Int
  BY <1>2, <1>3
<1>9. ASSUME NEW s \in Seq(Int), NEW x \in Int PROVE Total(Append(s, x)) = Total(s) + x
  <2>1. Append(s, x) \in Seq(Int)
    BY <1>4
  <2>2. f[Append(s, x)] = f[s] + x
    BY <1>3, <1>6
  <2> QED
    BY <1>2, <2>1, <2>2
<1> QED
  BY <1>7, <1>8, <1>9

------------------------------------------------------------------------------
(* The frames of a piece of the stream *)

(* What can come of frames: starting from Empty, the extremes are never    *)
(* inside full scale.                                                      *)
Reached == {a \in Aggregate : a.minimum <= FullScale /\ -FullScale <= a.maximum}

Framed == [p \in Reached \X Int |-> WithFrame(p[1], p[2])]

Combined == [p \in Reached \X Reached |-> Combine(p[1], p[2])]

LEMMA EmptyTyped == ASSUME ReducerAssumption PROVE Empty \in Reached
BY DEF ReducerAssumption, Empty, Reached, Aggregate

(* A frame leaves an aggregate within what can come of frames. *)
LEMMA WithFrameTyped ==
  ASSUME ReducerAssumption, NEW a \in Reached, NEW x \in Int
  PROVE  WithFrame(a, x) \in Reached
<1>1. a.minimum \in Int /\ a.maximum \in Int /\ a.square_sum \in Nat /\ a.frame_count \in Nat
      /\ a.minimum <= FullScale /\ -FullScale <= a.maximum
  BY DEF Reached, Aggregate
<1>2. x * x \in Nat /\ FullScale \in Nat
  BY DEF ReducerAssumption
<1> QED
  BY <1>1, <1>2 DEF WithFrame, Reached, Aggregate, Lesser, Greater

(* So does another aggregate. *)
LEMMA CombineTyped ==
  ASSUME ReducerAssumption, NEW a \in Reached, NEW b \in Reached
  PROVE  Combine(a, b) \in Reached
<1>1. a.minimum \in Int /\ a.maximum \in Int /\ a.square_sum \in Nat /\ a.frame_count \in Nat
      /\ a.minimum <= FullScale /\ -FullScale <= a.maximum
  BY DEF Reached, Aggregate
<1>2. b.minimum \in Int /\ b.maximum \in Int /\ b.square_sum \in Nat /\ b.frame_count \in Nat
      /\ b.minimum <= FullScale /\ -FullScale <= b.maximum
  BY DEF Reached, Aggregate
<1>3. FullScale \in Nat
  BY DEF ReducerAssumption
<1> QED
  BY <1>1, <1>2, <1>3 DEF Combine, Reached, Aggregate, Lesser, Greater

LEMMA ReachedTyped ==
  ASSUME ReducerAssumption
  PROVE  Empty \in Reached /\ Framed \in [Reached \X Int -> Reached]
         /\ Combined \in [Reached \X Reached -> Reached]
BY EmptyTyped, WithFrameTyped, CombineTyped DEF Framed, Combined

(* Summing up frames takes one frame after the other into the aggregate. *)
LEMMA FramesPath ==
  ASSUME ReducerAssumption, NEW seq \in Seq(Int)
  PROVE  \E g : Path(Reached, Framed, Empty, seq, g) /\ FoldLeft(WithFrame, Empty, seq) = g[Len(seq)]
<1> DEFINE P(made) == made = [s \in SUBSET (DOMAIN seq) |->
                        IF s = {} THEN Empty ELSE WithFrame(made[s \ {Max(s)}], seq[Max(s)])]
           made == CHOOSE m : P(m)
<1>1. FoldLeft(WithFrame, Empty, seq) = made[DOMAIN seq]
  BY DEF FoldLeft, MapThenFoldSet
<1>2. DOMAIN seq = 1 .. Len(seq) /\ Len(seq) \in Nat /\ \A i \in 1 .. Len(seq) : seq[i] \in Int
  OBVIOUS
<1>3. \E m : P(m)
  <2>1. PICK m \in [SUBSET (1 .. Len(seq)) -> Reached] : MadeByFold(Framed, Empty, seq, Len(seq), m)
    BY ReachedTyped, FoldExists, Zenon
  <2>2. ASSUME NEW s \in SUBSET (1 .. Len(seq))
        PROVE  m[s] = IF s = {} THEN Empty ELSE WithFrame(m[s \ {Max(s)}], seq[Max(s)])
    <3>1. CASE s = {}
      BY <2>1, <3>1 DEF MadeByFold
    <3>2. CASE s # {}
      <4>1. m[s \ {Max(s)}] \in Reached /\ seq[Max(s)] \in Int
        BY <1>2, <2>1, <3>2, LargestIsElement
      <4>2. m[s] = Framed[<<m[s \ {Max(s)}], seq[Max(s)]>>]
        BY <2>1, <3>2 DEF MadeByFold
      <4> QED
        BY <3>2, <4>1, <4>2 DEF Framed
    <3> QED
      BY <3>1, <3>2
  <2>3. P(m)
    BY <1>2, <2>1, <2>2
  <2> QED
    BY <2>3
<1>4. P(made)
  <2> HIDE DEF P
  <2> QED
    BY <1>3
<1> QED
  <2> HIDE DEF made
  <2>1. made[{}] = Empty
    BY <1>4
  <2>2. ASSUME NEW s \in SUBSET (1 .. Len(seq)), s # {}, made[s \ {Max(s)}] \in Reached
        PROVE  made[s] = Framed[<<made[s \ {Max(s)}], seq[Max(s)]>>]
    <3>1. seq[Max(s)] \in Int
      BY <1>2, <2>2, LargestIsElement
    <3>2. made[s] = WithFrame(made[s \ {Max(s)}], seq[Max(s)])
      BY <1>2, <1>4, <2>2
    <3> QED
      BY <2>2, <3>1, <3>2 DEF Framed
  <2> HIDE DEF P
  <2>3. Recursion(Reached, Int, Framed, Empty, seq, made)
    BY <2>1, <2>2, ReachedTyped, Zenon DEF Recursion
  <2> QED
    BY <1>1, <1>2, <2>3, RecursionFollowsPath

(* The equations of the fold over frames. *)
LEMMA FramesEquations ==
  ASSUME ReducerAssumption
  PROVE  /\ FoldLeft(WithFrame, Empty, <<>>) = Empty
         /\ \A s \in Seq(Int) : FoldLeft(WithFrame, Empty, s) \in Reached
         /\ \A s \in Seq(Int), x \in Int :
              FoldLeft(WithFrame, Empty, Append(s, x)) = WithFrame(FoldLeft(WithFrame, Empty, s), x)
<1> DEFINE f == [s \in Seq(Int) |-> FoldLeft(WithFrame, Empty, s)]
<1>1. ReachedByFold(Reached, Int, Framed, Empty, f)
  BY FramesPath, ReachedTyped DEF ReachedByFold
<1>2. \A s \in Seq(Int) : f[s] = FoldLeft(WithFrame, Empty, s)
  OBVIOUS
<1> HIDE DEF f
<1>3. /\ f[<<>>] = Empty
      /\ \A s \in Seq(Int) : f[s] \in Reached
      /\ \A s \in Seq(Int), x \in Int : f[Append(s, x)] = Framed[<<f[s], x>>]
  BY <1>1, FoldEquations
<1>4. \A s \in Seq(Int), x \in Int : Append(s, x) \in Seq(Int)
  OBVIOUS
<1>5. <<>> \in Seq(Int)
  OBVIOUS
<1>6. ASSUME NEW s \in Seq(Int), NEW x \in Int PROVE Framed[<<f[s], x>>] = WithFrame(f[s], x)
  BY <1>3 DEF Framed
<1> QED
  BY <1>2, <1>3, <1>4, <1>5, <1>6

(* Merging aggregates combines one after the other. *)
LEMMA CombinePath ==
  ASSUME ReducerAssumption, NEW seq \in Seq(Reached)
  PROVE  \E g : Path(Reached, Combined, Empty, seq, g) /\ FoldLeft(Combine, Empty, seq) = g[Len(seq)]
<1> DEFINE P(made) == made = [s \in SUBSET (DOMAIN seq) |->
                        IF s = {} THEN Empty ELSE Combine(made[s \ {Max(s)}], seq[Max(s)])]
           made == CHOOSE m : P(m)
<1>1. FoldLeft(Combine, Empty, seq) = made[DOMAIN seq]
  BY DEF FoldLeft, MapThenFoldSet
<1>2. DOMAIN seq = 1 .. Len(seq) /\ Len(seq) \in Nat /\ \A i \in 1 .. Len(seq) : seq[i] \in Reached
  OBVIOUS
<1>3. \E m : P(m)
  <2>1. PICK m \in [SUBSET (1 .. Len(seq)) -> Reached] : MadeByFold(Combined, Empty, seq, Len(seq), m)
    BY ReachedTyped, FoldExists, Zenon
  <2>2. ASSUME NEW s \in SUBSET (1 .. Len(seq))
        PROVE  m[s] = IF s = {} THEN Empty ELSE Combine(m[s \ {Max(s)}], seq[Max(s)])
    <3>1. CASE s = {}
      BY <2>1, <3>1 DEF MadeByFold
    <3>2. CASE s # {}
      <4>1. m[s \ {Max(s)}] \in Reached /\ seq[Max(s)] \in Reached
        BY <1>2, <2>1, <3>2, LargestIsElement
      <4>2. m[s] = Combined[<<m[s \ {Max(s)}], seq[Max(s)]>>]
        BY <2>1, <3>2 DEF MadeByFold
      <4> QED
        BY <3>2, <4>1, <4>2 DEF Combined
    <3> QED
      BY <3>1, <3>2
  <2>3. P(m)
    BY <1>2, <2>1, <2>2
  <2> QED
    BY <2>3
<1>4. P(made)
  <2> HIDE DEF P
  <2> QED
    BY <1>3
<1> QED
  <2> HIDE DEF made
  <2>1. made[{}] = Empty
    BY <1>4
  <2>2. ASSUME NEW s \in SUBSET (1 .. Len(seq)), s # {}, made[s \ {Max(s)}] \in Reached
        PROVE  made[s] = Combined[<<made[s \ {Max(s)}], seq[Max(s)]>>]
    <3>1. seq[Max(s)] \in Reached
      BY <1>2, <2>2, LargestIsElement
    <3>2. made[s] = Combine(made[s \ {Max(s)}], seq[Max(s)])
      BY <1>2, <1>4, <2>2
    <3> QED
      BY <2>2, <3>1, <3>2 DEF Combined
  <2> HIDE DEF P
  <2>3. Recursion(Reached, Reached, Combined, Empty, seq, made)
    BY <2>1, <2>2, ReachedTyped, Zenon DEF Recursion
  <2> QED
    BY <1>1, <1>2, <2>3, RecursionFollowsPath

(* The equations of the fold over aggregates. *)
LEMMA CombineEquations ==
  ASSUME ReducerAssumption
  PROVE  /\ FoldLeft(Combine, Empty, <<>>) = Empty
         /\ \A s \in Seq(Reached) : FoldLeft(Combine, Empty, s) \in Reached
         /\ \A s \in Seq(Reached), x \in Reached :
              FoldLeft(Combine, Empty, Append(s, x)) = Combine(FoldLeft(Combine, Empty, s), x)
<1> DEFINE f == [s \in Seq(Reached) |-> FoldLeft(Combine, Empty, s)]
<1>1. ReachedByFold(Reached, Reached, Combined, Empty, f)
  BY CombinePath, ReachedTyped DEF ReachedByFold
<1>2. \A s \in Seq(Reached) : f[s] = FoldLeft(Combine, Empty, s)
  OBVIOUS
<1> HIDE DEF f
<1>3. /\ f[<<>>] = Empty
      /\ \A s \in Seq(Reached) : f[s] \in Reached
      /\ \A s \in Seq(Reached), x \in Reached : f[Append(s, x)] = Combined[<<f[s], x>>]
  BY <1>1, FoldEquations
<1>4. \A s \in Seq(Reached), x \in Reached : Append(s, x) \in Seq(Reached)
  OBVIOUS
<1>5. <<>> \in Seq(Reached)
  OBVIOUS
<1>6. ASSUME NEW s \in Seq(Reached), NEW x \in Reached PROVE Combined[<<f[s], x>>] = Combine(f[s], x)
  BY <1>3 DEF Combined
<1> QED
  BY <1>2, <1>3, <1>4, <1>5, <1>6

------------------------------------------------------------------------------
(* The reducer, frame by frame *)

Reducers == [requested_bins : Nat, block_frames : Nat \ {0}, total_frames : Nat,
             pending : Reached, aggregates : Seq(Reached)]

Added == [p \in Reducers \X Int |-> AddFrame(p[1], p[2])]

(* Pairs is half of a length, rounded up; only the last pair may lack its  *)
(* second.                                                                 *)
LEMMA PairsOfLength ==
  ASSUME NEW n \in Nat
  PROVE  /\ Pairs(n) \in Nat
         /\ \A i \in 1 .. Pairs(n) : 2 * i - 1 \in 1 .. n /\ (2 * i <= n => 2 * i \in 1 .. n)
         /\ \A i \in 1 .. Pairs(n) : 2 * i > n => 2 * i - 1 = n /\ i = Pairs(n)
BY DEF Pairs

(* compact halves the number of aggregates. *)
LEMMA CompactedTyped ==
  ASSUME ReducerAssumption, NEW aggs \in Seq(Reached)
  PROVE  Compacted(aggs) \in Seq(Reached) /\ Len(Compacted(aggs)) = Pairs(Len(aggs))
<1>1. Len(aggs) \in Nat /\ \A i \in 1 .. Len(aggs) : aggs[i] \in Reached
  OBVIOUS
<1> DEFINE pair(i) == IF 2 * i <= Len(aggs) THEN Combine(aggs[2 * i - 1], aggs[2 * i])
                      ELSE aggs[2 * i - 1]
           n == Pairs(Len(aggs))
<1>2. ASSUME NEW i \in 1 .. n PROVE pair(i) \in Reached
  BY <1>1, PairsOfLength, CombineTyped
<1>3. n \in Nat
  BY <1>1, PairsOfLength
<1>4. Compacted(aggs) = [i \in 1 .. n |-> pair(i)]
  BY DEF Compacted
<1> HIDE DEF pair, n
<1>5. [i \in 1 .. n |-> pair(i)] \in Seq(Reached) /\ Len([i \in 1 .. n |-> pair(i)]) = n
  BY <1>2, <1>3
<1> QED
  BY <1>4, <1>5 DEF n

(* flush_pending keeps the types. *)
LEMMA FlushTyped ==
  ASSUME ReducerAssumption, NEW r \in Reducers
  PROVE  FlushPending(r) \in Reducers
<1> DEFINE longer == Append(r.aggregates, r.pending)
<1>1. /\ r.requested_bins \in Nat /\ r.block_frames \in Nat \ {0} /\ r.total_frames \in Nat
      /\ r.pending \in Reached /\ r.aggregates \in Seq(Reached)
  BY DEF Reducers
<1>2. longer \in Seq(Reached) /\ Compacted(longer) \in Seq(Reached)
  BY <1>1, AppendProperties, CompactedTyped
<1>3. Empty \in Reached
  BY EmptyTyped
<1>4. NextBlock(r.block_frames) \in Nat \ {0}
  BY <1>1 DEF NextBlock
<1> HIDE DEF longer
<1>5. [r EXCEPT !.aggregates = longer, !.pending = Empty] \in Reducers
  BY <1>1, <1>2, <1>3 DEF Reducers
<1>6. [[r EXCEPT !.aggregates = longer, !.pending = Empty]
         EXCEPT !.aggregates = Compacted(longer), !.block_frames = NextBlock(@)] \in Reducers
  BY <1>1, <1>2, <1>3, <1>4 DEF Reducers
<1> QED
  BY <1>5, <1>6 DEF FlushPending, longer

(* So does add_frame. *)
LEMMA AddTyped ==
  ASSUME ReducerAssumption
  PROVE  Added \in [Reducers \X Int -> Reducers]
<1>1. ASSUME NEW r \in Reducers, NEW x \in Int PROVE AddFrame(r, x) \in Reducers
  <2>1. WithFrame(r.pending, x) \in Reached
    BY WithFrameTyped DEF Reducers
  <2>3. r.total_frames + 1 \in Nat
    BY DEF Reducers
  <2>2. [r EXCEPT !.pending = WithFrame(@, x), !.total_frames = @ + 1] \in Reducers
    BY <2>1, <2>3 DEF Reducers
  <2> QED
    BY <2>2, FlushTyped DEF AddFrame
<1> QED
  BY <1>1 DEF Added

(* append takes one frame after the other into the reducer. *)
LEMMA AddPath ==
  ASSUME ReducerAssumption, NEW r \in Reducers, NEW seq \in Seq(Int)
  PROVE  \E g : Path(Reducers, Added, r, seq, g) /\ FoldLeft(AddFrame, r, seq) = g[Len(seq)]
<1> DEFINE P(made) == made = [s \in SUBSET (DOMAIN seq) |->
                        IF s = {} THEN r ELSE AddFrame(made[s \ {Max(s)}], seq[Max(s)])]
           made == CHOOSE m : P(m)
<1>1. FoldLeft(AddFrame, r, seq) = made[DOMAIN seq]
  BY DEF FoldLeft, MapThenFoldSet
<1>2. DOMAIN seq = 1 .. Len(seq) /\ Len(seq) \in Nat /\ \A i \in 1 .. Len(seq) : seq[i] \in Int
  OBVIOUS
<1>3. \E m : P(m)
  <2>1. PICK m \in [SUBSET (1 .. Len(seq)) -> Reducers] : MadeByFold(Added, r, seq, Len(seq), m)
    BY AddTyped, FoldExists, Zenon
  <2>2. ASSUME NEW s \in SUBSET (1 .. Len(seq))
        PROVE  m[s] = IF s = {} THEN r ELSE AddFrame(m[s \ {Max(s)}], seq[Max(s)])
    <3>1. CASE s = {}
      BY <2>1, <3>1 DEF MadeByFold
    <3>2. CASE s # {}
      <4>1. m[s \ {Max(s)}] \in Reducers /\ seq[Max(s)] \in Int
        BY <1>2, <2>1, <3>2, LargestIsElement
      <4>2. m[s] = Added[<<m[s \ {Max(s)}], seq[Max(s)]>>]
        BY <2>1, <3>2 DEF MadeByFold
      <4> QED
        BY <3>2, <4>1, <4>2 DEF Added
    <3> QED
      BY <3>1, <3>2
  <2>3. P(m)
    BY <1>2, <2>1, <2>2
  <2> QED
    BY <2>3
<1>4. P(made)
  <2> HIDE DEF P
  <2> QED
    BY <1>3
<1> QED
  <2> HIDE DEF made
  <2>1. made[{}] = r
    BY <1>4
  <2>2. ASSUME NEW s \in SUBSET (1 .. Len(seq)), s # {}, made[s \ {Max(s)}] \in Reducers
        PROVE  made[s] = Added[<<made[s \ {Max(s)}], seq[Max(s)]>>]
    <3>1. seq[Max(s)] \in Int
      BY <1>2, <2>2, LargestIsElement
    <3>2. made[s] = AddFrame(made[s \ {Max(s)}], seq[Max(s)])
      BY <1>2, <1>4, <2>2
    <3> QED
      BY <2>2, <3>1, <3>2 DEF Added
  <2> HIDE DEF P
  <2>3. Recursion(Reducers, Int, Added, r, seq, made)
    BY <2>1, <2>2, AddTyped, Zenon DEF Recursion
  <2> QED
    BY <1>1, <1>2, <2>3, RecursionFollowsPath

(* The equations of append. *)
LEMMA AddEquations ==
  ASSUME ReducerAssumption, NEW r \in Reducers
  PROVE  /\ FoldLeft(AddFrame, r, <<>>) = r
         /\ \A s \in Seq(Int) : FoldLeft(AddFrame, r, s) \in Reducers
         /\ \A s \in Seq(Int), x \in Int :
              FoldLeft(AddFrame, r, Append(s, x)) = AddFrame(FoldLeft(AddFrame, r, s), x)
<1> DEFINE f == [s \in Seq(Int) |-> FoldLeft(AddFrame, r, s)]
<1>1. ReachedByFold(Reducers, Int, Added, r, f)
  BY AddPath, AddTyped DEF ReachedByFold
<1>2. \A s \in Seq(Int) : f[s] = FoldLeft(AddFrame, r, s)
  OBVIOUS
<1> HIDE DEF f
<1>3. /\ f[<<>>] = r
      /\ \A s \in Seq(Int) : f[s] \in Reducers
      /\ \A s \in Seq(Int), x \in Int : f[Append(s, x)] = Added[<<f[s], x>>]
  BY <1>1, FoldEquations
<1>4. \A s \in Seq(Int), x \in Int : Append(s, x) \in Seq(Int)
  OBVIOUS
<1>5. <<>> \in Seq(Int)
  OBVIOUS
<1>6. ASSUME NEW s \in Seq(Int), NEW x \in Int PROVE Added[<<f[s], x>>] = AddFrame(f[s], x)
  BY <1>3 DEF Added
<1> QED
  BY <1>2, <1>3, <1>4, <1>5, <1>6

------------------------------------------------------------------------------
(* Pieces of a sequence *)

Summary(frames) == FoldLeft(WithFrame, Empty, frames)

Merged(aggregates) == FoldLeft(Combine, Empty, aggregates)

LEMMA SummaryEquations ==
  ASSUME ReducerAssumption
  PROVE  /\ Summary(<<>>) = Empty
         /\ \A s \in Seq(Int) : Summary(s) \in Reached
         /\ \A s \in Seq(Int), x \in Int : Summary(Append(s, x)) = WithFrame(Summary(s), x)
BY FramesEquations DEF Summary

LEMMA MergedEquations ==
  ASSUME ReducerAssumption
  PROVE  /\ Merged(<<>>) = Empty
         /\ \A s \in Seq(Reached) : Merged(s) \in Reached
         /\ \A s \in Seq(Reached), a \in Reached : Merged(Append(s, a)) = Combine(Merged(s), a)
BY CombineEquations DEF Merged

(* A piece of a sequence that is one longer has one more element at its    *)
(* end.                                                                    *)
LEMMA OneMore ==
  ASSUME NEW S, NEW s \in Seq(S), NEW lo \in Nat, NEW n \in Nat, lo <= n, n + 1 <= Len(s)
  PROVE  /\ SubSeq(s, lo + 1, n) \in Seq(S) /\ s[n + 1] \in S
         /\ SubSeq(s, lo + 1, n + 1) = Append(SubSeq(s, lo + 1, n), s[n + 1])
<1> DEFINE a == SubSeq(s, lo + 1, n)
           b == SubSeq(s, lo + 1, n + 1)
<1>1. Len(s) \in Nat /\ \A i \in 1 .. Len(s) : s[i] \in S
  OBVIOUS
<1>2. /\ a \in Seq(S) /\ Len(a) = n - lo /\ \A i \in 1 .. (n - lo) : a[i] = s[lo + i]
  BY <1>1, SubSeqProperties
<1>3. /\ b \in Seq(S) /\ Len(b) = n + 1 - lo /\ \A i \in 1 .. (n + 1 - lo) : b[i] = s[lo + i]
  BY <1>1, SubSeqProperties
<1> HIDE DEF a, b
<1>4. s[n + 1] \in S
  BY <1>1
<1>5. /\ Append(a, s[n + 1]) \in Seq(S) /\ Len(Append(a, s[n + 1])) = n - lo + 1
      /\ \A i \in 1 .. (n - lo) : Append(a, s[n + 1])[i] = a[i]
      /\ Append(a, s[n + 1])[n - lo + 1] = s[n + 1]
  <2>1. /\ Append(a, s[n + 1]) \in Seq(S) /\ Len(Append(a, s[n + 1])) = Len(a) + 1
        /\ \A i \in 1 .. Len(a) : Append(a, s[n + 1])[i] = a[i]
        /\ Append(a, s[n + 1])[Len(a) + 1] = s[n + 1]
    BY <1>2, <1>4, AppendProperties
  <2> QED
    BY <1>2, <2>1
<1>6. \A i \in 1 .. Len(b) : b[i] = Append(a, s[n + 1])[i]
  <2>1. ASSUME NEW i \in 1 .. Len(b) PROVE b[i] = Append(a, s[n + 1])[i]
    <3>1. CASE i = n - lo + 1
      BY <3>1, <1>3, <1>5
    <3>2. CASE i # n - lo + 1
      <4>1. i \in 1 .. (n - lo) /\ i \in 1 .. (n + 1 - lo)
        BY <3>2, <1>3
      <4> QED
        BY <4>1, <1>2, <1>3, <1>5
    <3> QED
      BY <3>1, <3>2
  <2> QED
    BY <2>1
<1>7. b = Append(a, s[n + 1])
  BY <1>3, <1>5, <1>6, SeqEqual
<1> QED
  BY <1>2, <1>4, <1>7 DEF a, b

LEMMA NoPiece ==
  ASSUME NEW s, NEW lo \in Nat
  PROVE  SubSeq(s, lo + 1, lo) = <<>>
BY SubSeqEmpty

(* As many frames are summed up as there are. *)
LEMMA SummaryCount ==
  ASSUME ReducerAssumption, NEW s \in Seq(Int), NEW lo \in Nat, NEW hi \in Nat,
         lo <= hi, hi <= Len(s)
  PROVE  Summary(SubSeq(s, lo + 1, hi)) \in Reached
         /\ Summary(SubSeq(s, lo + 1, hi)).frame_count = hi - lo
<1> DEFINE count(n) == Summary(SubSeq(s, lo + 1, n)).frame_count
           Bad == {n \in lo .. hi : count(n) # n - lo}
<1>1. Len(s) \in Nat
  OBVIOUS
<1>2. Bad = {}
  <2> SUFFICES ASSUME Bad # {} PROVE FALSE
    OBVIOUS
  <2>1. PICK m \in Bad : \A n \in Bad : m <= n
    <3>1. Bad \subseteq Nat
      OBVIOUS
    <3> HIDE DEF Bad
    <3> QED
      BY <3>1, LeastNatural
  <2>2. m # lo
    <3>1. count(lo) = 0
      <4>1. SubSeq(s, lo + 1, lo) = <<>>
        BY NoPiece
      <4>2. Summary(<<>>) = Empty /\ Empty.frame_count = 0
        BY SummaryEquations DEF Empty
      <4> QED
        BY <4>1, <4>2
    <3> HIDE DEF count
    <3> QED
      BY <3>1
  <2>3. m - 1 \in lo .. hi /\ m - 1 \in Nat /\ m - 1 + 1 = m /\ count(m) # m - lo
    <3> HIDE DEF count
    <3> QED
      BY <2>2
  <2>4. count(m - 1) = m - 1 - lo
    <3> HIDE DEF count
    <3> QED
      BY <2>1, <2>3
  <2> DEFINE before == SubSeq(s, lo + 1, m - 1)
  <2>5. before \in Seq(Int) /\ s[m] \in Int /\ SubSeq(s, lo + 1, m) = Append(before, s[m])
    <3>1. lo <= m - 1 /\ m - 1 + 1 <= Len(s)
      BY <1>1, <2>3
    <3> QED
      BY <2>3, <3>1, OneMore
  <2> HIDE DEF before
  <2>6. Summary(before) \in Reached
        /\ Summary(SubSeq(s, lo + 1, m)) = WithFrame(Summary(before), s[m])
    BY <2>5, SummaryEquations
  <2>7. count(m) = Summary(before).frame_count + 1
    BY <2>6 DEF WithFrame
  <2>8. Summary(before).frame_count = m - 1 - lo
    BY <2>4 DEF before
  <2> HIDE DEF count
  <2> QED
    BY <2>3, <2>7, <2>8
<1>3. count(hi) = hi - lo
  BY <1>2
<1>4. SubSeq(s, lo + 1, hi) \in Seq(Int)
  BY <1>1, SubSeqProperties
<1> QED
  BY <1>3, <1>4, SummaryEquations

LEMMA Field ==
  ASSUME NEW a \in Reached
  PROVE  a.minimum \in Int /\ a.maximum \in Int /\ a.square_sum \in Nat /\ a.frame_count \in Nat
         /\ a.minimum <= FullScale /\ -FullScale <= a.maximum
BY DEF Reached, Aggregate

(* Aggregates with the same fields are the same. *)
LEMMA SameAggregate ==
  ASSUME NEW a \in Reached, NEW b \in Reached, a.minimum = b.minimum, a.maximum = b.maximum,
         a.square_sum = b.square_sum, a.frame_count = b.frame_count
  PROVE  a = b
BY DEF Reached, Aggregate

(* An empty aggregate changes nothing it is combined with: the default     *)
(* extremes are no extremes of anything.                                   *)
LEMMA CombineNothing ==
  ASSUME ReducerAssumption, NEW a \in Reached
  PROVE  Combine(a, Empty) = a
<1>1. Combine(a, Empty) \in Reached
  BY EmptyTyped, CombineTyped
<1>2. /\ Combine(a, Empty).minimum = Lesser(a.minimum, FullScale)
      /\ Combine(a, Empty).maximum = Greater(a.maximum, -FullScale)
      /\ Combine(a, Empty).square_sum = a.square_sum + 0
      /\ Combine(a, Empty).frame_count = a.frame_count + 0
  BY DEF Combine, Empty
<1>3. FullScale \in Nat
  BY DEF ReducerAssumption
<1>4. Lesser(a.minimum, FullScale) = a.minimum /\ Greater(a.maximum, -FullScale) = a.maximum
      /\ a.square_sum + 0 = a.square_sum /\ a.frame_count + 0 = a.frame_count
  BY <1>3, Field DEF Lesser, Greater
<1> QED
  BY <1>1, <1>2, <1>4, SameAggregate

(* Nor does it on the other side. *)
LEMMA NothingCombined ==
  ASSUME ReducerAssumption, NEW a \in Reached
  PROVE  Combine(Empty, a) = a
<1>1. Combine(Empty, a) \in Reached
  BY EmptyTyped, CombineTyped
<1>2. /\ Combine(Empty, a).minimum = Lesser(FullScale, a.minimum)
      /\ Combine(Empty, a).maximum = Greater(-FullScale, a.maximum)
      /\ Combine(Empty, a).square_sum = 0 + a.square_sum
      /\ Combine(Empty, a).frame_count = 0 + a.frame_count
  BY DEF Combine, Empty
<1>3. FullScale \in Nat
  BY DEF ReducerAssumption
<1>4. Lesser(FullScale, a.minimum) = a.minimum /\ Greater(-FullScale, a.maximum) = a.maximum
      /\ 0 + a.square_sum = a.square_sum /\ 0 + a.frame_count = a.frame_count
  BY <1>3, Field DEF Lesser, Greater
<1> QED
  BY <1>1, <1>2, <1>4, SameAggregate

(* Combining and then adding a frame is adding it and then combining. *)
LEMMA CombineWithFrame ==
  ASSUME ReducerAssumption, NEW a \in Reached, NEW b \in Reached, NEW x \in Int
  PROVE  Combine(a, WithFrame(b, x)) = WithFrame(Combine(a, b), x)
<1> DEFINE l == Combine(a, WithFrame(b, x))
           r == WithFrame(Combine(a, b), x)
<1>1. l \in Reached /\ r \in Reached
  BY WithFrameTyped, CombineTyped
<1>2. l.minimum = Lesser(a.minimum, Lesser(b.minimum, x))
      /\ l.maximum = Greater(a.maximum, Greater(b.maximum, x))
      /\ l.square_sum = a.square_sum + (b.square_sum + x * x)
      /\ l.frame_count = a.frame_count + (b.frame_count + 1)
  BY DEF Combine, WithFrame
<1>3. r.minimum = Lesser(Lesser(a.minimum, b.minimum), x)
      /\ r.maximum = Greater(Greater(a.maximum, b.maximum), x)
      /\ r.square_sum = a.square_sum + b.square_sum + x * x
      /\ r.frame_count = a.frame_count + b.frame_count + 1
  BY DEF Combine, WithFrame
<1> HIDE DEF l, r
<1>4. l.minimum = r.minimum /\ l.maximum = r.maximum
  BY <1>2, <1>3, Field DEF Lesser, Greater
<1>5. l.square_sum = r.square_sum /\ l.frame_count = r.frame_count
  <2>1. x * x \in Int
    OBVIOUS
  <2> QED
    BY <1>2, <1>3, <2>1, Field
<1>6. l = r
  BY <1>1, <1>4, <1>5, SameAggregate
<1> QED
  BY <1>6 DEF l, r

(* Two neighbouring pieces are summed up by combining what sums up each.   *)
LEMMA SummaryOfPieces ==
  ASSUME ReducerAssumption, NEW s \in Seq(Int), NEW lo \in Nat, NEW mid \in Nat, NEW hi \in Nat,
         lo <= mid, mid <= hi, hi <= Len(s)
  PROVE  Summary(SubSeq(s, lo + 1, hi))
           = Combine(Summary(SubSeq(s, lo + 1, mid)), Summary(SubSeq(s, mid + 1, hi)))
<1> DEFINE first == Summary(SubSeq(s, lo + 1, mid))
           Equal(n) == Summary(SubSeq(s, lo + 1, n)) = Combine(first, Summary(SubSeq(s, mid + 1, n)))
           Bad == {n \in mid .. hi : ~ Equal(n)}
<1>1. Len(s) \in Nat
  OBVIOUS
<1>0. first \in Reached
  BY <1>1, SummaryCount
<1>2. Bad = {}
  <2> SUFFICES ASSUME Bad # {} PROVE FALSE
    OBVIOUS
  <2>1. PICK m \in Bad : \A n \in Bad : m <= n
    <3>1. Bad \subseteq Nat
      OBVIOUS
    <3> HIDE DEF Bad
    <3> QED
      BY <3>1, LeastNatural
  <2>2. Equal(mid)
    <3>1. SubSeq(s, mid + 1, mid) = <<>> /\ Summary(<<>>) = Empty
      BY NoPiece, SummaryEquations
    <3>2. Combine(first, Empty) = first
      BY <1>0, CombineNothing
    <3> QED
      BY <3>1, <3>2
  <2> HIDE DEF Equal
  <2>3. m # mid /\ m - 1 \in mid .. hi /\ m - 1 \in Nat /\ m - 1 + 1 = m /\ ~ Equal(m)
    BY <2>2
  <2>4. Equal(m - 1)
    BY <2>1, <2>3
  <2> DEFINE whole == SubSeq(s, lo + 1, m - 1)
             last == SubSeq(s, mid + 1, m - 1)
  <2>5. /\ whole \in Seq(Int) /\ s[m] \in Int /\ SubSeq(s, lo + 1, m) = Append(whole, s[m])
        /\ last \in Seq(Int) /\ SubSeq(s, mid + 1, m) = Append(last, s[m])
    <3>1. lo <= m - 1 /\ mid <= m - 1 /\ m - 1 + 1 <= Len(s)
      BY <1>1, <2>3
    <3>2. whole \in Seq(Int) /\ s[m] \in Int /\ SubSeq(s, lo + 1, m) = Append(whole, s[m])
      BY <2>3, <3>1, OneMore
    <3>3. last \in Seq(Int) /\ SubSeq(s, mid + 1, m) = Append(last, s[m])
      BY <2>3, <3>1, OneMore
    <3> QED
      BY <3>2, <3>3
  <2>6. Summary(whole) = Combine(first, Summary(last))
    BY <2>4 DEF Equal
  <2> HIDE DEF whole, last, first
  <2>7. /\ Summary(last) \in Reached
        /\ Summary(SubSeq(s, lo + 1, m)) = WithFrame(Summary(whole), s[m])
        /\ Summary(SubSeq(s, mid + 1, m)) = WithFrame(Summary(last), s[m])
    BY <2>5, SummaryEquations
  <2>8. Summary(SubSeq(s, lo + 1, m)) = Combine(first, Summary(SubSeq(s, mid + 1, m)))
    BY <1>0, <2>5, <2>6, <2>7, CombineWithFrame
  <2>9. Equal(m)
    BY <2>8 DEF Equal, first
  <2> QED
    BY <2>3, <2>9
<1>3. Equal(hi)
  <2> HIDE DEF Equal
  <2> QED
    BY <1>2
<1> QED
  BY <1>3

(* Aggregates that stand for consecutive pieces of a stream, the i-th for  *)
(* the frames after position cut[i - 1] up to cut[i].                      *)
Covers(aggs, cut, s) ==
  /\ aggs \in Seq(Reached) /\ s \in Seq(Int)
  /\ cut \in [0 .. Len(aggs) -> Nat] /\ cut[0] = 0 /\ cut[Len(aggs)] <= Len(s)
  /\ \A i \in 1 .. Len(aggs) :
       cut[i - 1] <= cut[i] /\ aggs[i] = Summary(SubSeq(s, cut[i - 1] + 1, cut[i]))

(* The cuts of a cover are in order and within the stream. *)
LEMMA CutsGrow ==
  ASSUME NEW aggs, NEW cut, NEW s, Covers(aggs, cut, s),
         NEW lo \in 0 .. Len(aggs), NEW hi \in 0 .. Len(aggs), lo <= hi
  PROVE  cut[lo] \in Nat /\ cut[hi] \in Nat /\ cut[lo] <= cut[hi] /\ cut[hi] <= Len(s)
<1> DEFINE Bad(n) == {k \in n .. Len(aggs) : ~ (cut[n] <= cut[k])}
<1>1. Len(aggs) \in Nat /\ Len(s) \in Nat
  BY DEF Covers
<1>0. /\ \A i \in 0 .. Len(aggs) : cut[i] \in Nat
      /\ \A i \in 1 .. Len(aggs) : cut[i - 1] <= cut[i]
  BY DEF Covers
<1>2. ASSUME NEW n \in 0 .. Len(aggs) PROVE Bad(n) = {}
  <2> SUFFICES ASSUME Bad(n) # {} PROVE FALSE
    OBVIOUS
  <2>1. PICK m \in Bad(n) : \A k \in Bad(n) : m <= k
    <3>1. Bad(n) \subseteq Nat
      BY <1>1
    <3> HIDE DEF Bad
    <3> QED
      BY <3>1, LeastNatural
  <2>2. cut[n] \in Nat /\ m \in n .. Len(aggs) /\ ~ (cut[n] <= cut[m])
    BY <1>0
  <2>3. m \in 1 .. Len(aggs) /\ m - 1 \in n .. Len(aggs) /\ m - 1 \in 0 .. Len(aggs)
        /\ m \in 0 .. Len(aggs)
    BY <1>1, <2>2
  <2>4. cut[n] <= cut[m - 1]
    BY <2>1, <2>3
  <2>5. cut[m - 1] <= cut[m] /\ cut[m - 1] \in Nat /\ cut[m] \in Nat
    BY <1>0, <2>3
  <2> QED
    BY <2>2, <2>3, <2>4, <2>5
<1>3. cut[lo] \in Nat /\ cut[hi] \in Nat /\ cut[Len(aggs)] \in Nat /\ cut[Len(aggs)] <= Len(s)
  BY <1>1 DEF Covers
<1>4. cut[lo] <= cut[hi]
  BY <1>1, <1>2
<1>5. cut[hi] <= cut[Len(aggs)]
  BY <1>1, <1>2
<1> QED
  BY <1>1, <1>3, <1>4, <1>5

(* Consecutive aggregates of a cover, merged, sum up the whole of their    *)
(* pieces.                                                                 *)
LEMMA MergedPiece ==
  ASSUME ReducerAssumption, NEW aggs, NEW cut, NEW s, Covers(aggs, cut, s),
         NEW lo \in 0 .. Len(aggs), NEW hi \in 0 .. Len(aggs), lo <= hi
  PROVE  Merged(SubSeq(aggs, lo + 1, hi)) = Summary(SubSeq(s, cut[lo] + 1, cut[hi]))
<1> DEFINE Equal(n) == Merged(SubSeq(aggs, lo + 1, n)) = Summary(SubSeq(s, cut[lo] + 1, cut[n]))
           Bad == {n \in lo .. hi : ~ Equal(n)}
<1>1. Len(aggs) \in Nat /\ Len(s) \in Nat /\ aggs \in Seq(Reached) /\ s \in Seq(Int)
  BY DEF Covers
<1>2. Bad = {}
  <2> SUFFICES ASSUME Bad # {} PROVE FALSE
    OBVIOUS
  <2>1. PICK m \in Bad : \A n \in Bad : m <= n
    <3>1. Bad \subseteq Nat
      BY <1>1
    <3> HIDE DEF Bad
    <3> QED
      BY <3>1, LeastNatural
  <2>2. Equal(lo)
    <3>1. SubSeq(aggs, lo + 1, lo) = <<>>
      BY <1>1, NoPiece
    <3>2. cut[lo] \in Nat
      BY <1>1 DEF Covers
    <3>3. SubSeq(s, cut[lo] + 1, cut[lo]) = <<>>
      BY <3>2, NoPiece
    <3> QED
      BY <3>1, <3>3, SummaryEquations, MergedEquations
  <2> HIDE DEF Equal
  <2>3. m # lo /\ m - 1 \in lo .. hi /\ m - 1 \in 0 .. Len(aggs) /\ m - 1 \in Nat /\ m - 1 + 1 = m
        /\ m \in 1 .. Len(aggs) /\ lo <= m - 1 /\ ~ Equal(m)
    BY <1>1, <2>2
  <2>4. Equal(m - 1)
    BY <2>1, <2>3
  <2> DEFINE before == SubSeq(aggs, lo + 1, m - 1)
  <2>5. before \in Seq(Reached) /\ aggs[m] \in Reached
        /\ SubSeq(aggs, lo + 1, m) = Append(before, aggs[m])
    <3>1. m - 1 + 1 <= Len(aggs) /\ lo \in Nat
      BY <1>1, <2>3
    <3> QED
      BY <1>1, <2>3, <3>1, OneMore
  <2>6. Merged(before) = Summary(SubSeq(s, cut[lo] + 1, cut[m - 1]))
    BY <2>4 DEF Equal
  <2> HIDE DEF before
  <2>7. Merged(SubSeq(aggs, lo + 1, m)) = Combine(Merged(before), aggs[m])
    BY <2>5, MergedEquations
  <2>8. aggs[m] = Summary(SubSeq(s, cut[m - 1] + 1, cut[m]))
    BY <2>3 DEF Covers
  <2>9. /\ cut[lo] \in Nat /\ cut[m - 1] \in Nat /\ cut[m] \in Nat
        /\ cut[lo] <= cut[m - 1] /\ cut[m - 1] <= cut[m] /\ cut[m] <= Len(s)
    <3>1. m \in 0 .. Len(aggs) /\ m - 1 <= m
      BY <1>1, <2>3
    <3>2. cut[lo] \in Nat /\ cut[m - 1] \in Nat /\ cut[lo] <= cut[m - 1]
      BY <2>3, CutsGrow
    <3>3. cut[m] \in Nat /\ cut[m - 1] <= cut[m] /\ cut[m] <= Len(s)
      BY <2>3, <3>1, CutsGrow
    <3> QED
      BY <3>2, <3>3
  <2>10. Summary(SubSeq(s, cut[lo] + 1, cut[m]))
           = Combine(Summary(SubSeq(s, cut[lo] + 1, cut[m - 1])), Summary(SubSeq(s, cut[m - 1] + 1, cut[m])))
    BY <1>1, <2>9, SummaryOfPieces
  <2>11. Equal(m)
    BY <2>6, <2>7, <2>8, <2>10 DEF Equal
  <2> QED
    BY <2>3, <2>11
<1>3. Equal(hi)
  <2> HIDE DEF Equal
  <2> QED
    BY <1>1, <1>2
<1> QED
  BY <1>3

(* The frames in the first k aggregates are those up to their last cut. *)
LEMMA FramesOfCover ==
  ASSUME ReducerAssumption, NEW aggs, NEW cut, NEW s, Covers(aggs, cut, s),
         NEW k \in 0 .. Len(aggs)
  PROVE  FramesIn(SubSeq(aggs, 1, k)) = cut[k]
<1> DEFINE counts(n) == [i \in 1 .. n |-> aggs[i].frame_count]
           Bad == {n \in 0 .. Len(aggs) : Total(counts(n)) # cut[n]}
<1>1. /\ Len(aggs) \in Nat /\ Len(s) \in Nat /\ aggs \in Seq(Reached) /\ s \in Seq(Int)
      /\ cut[0] = 0
      /\ \A i \in 1 .. Len(aggs) : aggs[i] = Summary(SubSeq(s, cut[i - 1] + 1, cut[i]))
  BY DEF Covers
<1>2. ASSUME NEW i \in 1 .. Len(aggs)
      PROVE  aggs[i].frame_count = cut[i] - cut[i - 1] /\ aggs[i].frame_count \in Int
             /\ cut[i - 1] \in Nat /\ cut[i] \in Nat
  <2>1. i - 1 \in 0 .. Len(aggs) /\ i \in 0 .. Len(aggs) /\ i - 1 <= i
    BY <1>1
  <2>2. cut[i - 1] \in Nat /\ cut[i] \in Nat /\ cut[i - 1] <= cut[i] /\ cut[i] <= Len(s)
    BY <2>1, CutsGrow
  <2>3. aggs[i].frame_count = cut[i] - cut[i - 1]
    BY <1>1, <2>2, SummaryCount
  <2> QED
    BY <2>2, <2>3
<1>3. ASSUME NEW n \in 0 .. Len(aggs) PROVE counts(n) \in Seq(Int) /\ Len(counts(n)) = n
  <2>1. \A i \in 1 .. n : aggs[i].frame_count \in Int
    BY <1>1, <1>2
  <2> QED
    BY <2>1, <1>1
<1>4. ASSUME NEW n \in 1 .. Len(aggs)
      PROVE  counts(n) = Append(counts(n - 1), aggs[n].frame_count)
  <2>1. n \in 0 .. Len(aggs) /\ n - 1 \in 0 .. Len(aggs)
    BY <1>1
  <2>2. /\ counts(n) \in Seq(Int) /\ Len(counts(n)) = n
        /\ counts(n - 1) \in Seq(Int) /\ Len(counts(n - 1)) = n - 1
    BY <2>1, <1>3
  <2> DEFINE more == Append(counts(n - 1), aggs[n].frame_count)
  <2>3. /\ more \in Seq(Int) /\ Len(more) = Len(counts(n - 1)) + 1
        /\ \A i \in 1 .. Len(counts(n - 1)) : more[i] = counts(n - 1)[i]
        /\ more[Len(counts(n - 1)) + 1] = aggs[n].frame_count
    BY <1>2, <2>2, AppendProperties
  <2>4. ASSUME NEW i \in 1 .. n PROVE counts(n)[i] = more[i]
    <3>1. CASE i = n
      BY <3>1, <2>2, <2>3
    <3>2. CASE i # n
      <4>1. i \in 1 .. (n - 1)
        BY <3>2
      <4>2. more[i] = counts(n - 1)[i]
        BY <4>1, <2>2, <2>3
      <4> QED
        BY <4>1, <4>2
    <3> QED
      BY <3>1, <3>2
  <2>5. Len(more) = n
    BY <2>2, <2>3
  <2> HIDE DEF counts, more
  <2>6. counts(n) = more
    BY <2>2, <2>3, <2>4, <2>5, SeqEqual
  <2> QED
    BY <2>6 DEF more
<1>5. Bad = {}
  <2> SUFFICES ASSUME Bad # {} PROVE FALSE
    OBVIOUS
  <2>1. PICK m \in Bad : \A n \in Bad : m <= n
    <3>1. Bad \subseteq Nat
      BY <1>1
    <3> HIDE DEF Bad
    <3> QED
      BY <3>1, LeastNatural
  <2>2. Total(counts(0)) = 0
    <3>1. counts(0) = <<>>
      OBVIOUS
    <3> QED
      BY <3>1, TotalEquations
  <2> HIDE DEF counts
  <2>3. m \in 1 .. Len(aggs) /\ m - 1 \in 0 .. Len(aggs) /\ Total(counts(m)) # cut[m]
    BY <1>1, <2>2
  <2>4. Total(counts(m - 1)) = cut[m - 1]
    BY <2>1, <2>3
  <2>5. counts(m - 1) \in Seq(Int) /\ aggs[m].frame_count \in Int
    BY <1>2, <1>3, <2>3
  <2>6. Total(counts(m)) = Total(counts(m - 1)) + aggs[m].frame_count
    BY <1>4, <2>3, <2>5, TotalEquations
  <2>7. aggs[m].frame_count = cut[m] - cut[m - 1] /\ cut[m - 1] \in Nat /\ cut[m] \in Nat
    BY <1>2, <2>3
  <2> QED
    BY <2>3, <2>4, <2>6, <2>7
<1>6. Total(counts(k)) = cut[k]
  <2> HIDE DEF counts
  <2> QED
    BY <1>5
<1>7. FramesIn(SubSeq(aggs, 1, k)) = Total(counts(k))
  <2> DEFINE part == SubSeq(aggs, 1, k)
  <2>1. part \in Seq(Reached) /\ Len(part) = k /\ \A i \in 1 .. k : part[i] = aggs[i]
    BY <1>1, SubSeqProperties
  <2> HIDE DEF part
  <2>2. [i \in DOMAIN part |-> part[i].frame_count] = counts(k)
    BY <2>1
  <2> HIDE DEF counts
  <2>3. FramesIn(part) = Total(counts(k))
    BY <2>2 DEF FramesIn
  <2> QED
    BY <2>3 DEF part
<1> QED
  BY <1>6, <1>7

(* What is appended to a stream leaves its pieces as they are. *)
LEMMA PieceOfLonger ==
  ASSUME NEW s \in Seq(Int), NEW u \in Seq(Int), Len(s) <= Len(u),
         \A i \in 1 .. Len(s) : u[i] = s[i], NEW a \in Nat, NEW b \in Nat, b <= Len(s)
  PROVE  SubSeq(u, a + 1, b) = SubSeq(s, a + 1, b)
<1>1. Len(s) \in Nat /\ Len(u) \in Nat
  OBVIOUS
<1>2. CASE a < b
  <2> DEFINE x == SubSeq(u, a + 1, b)
             y == SubSeq(s, a + 1, b)
  <2>1. x \in Seq(Int) /\ Len(x) = b - a /\ \A i \in 1 .. (b - a) : x[i] = u[a + i]
    BY <1>1, <1>2, SubSeqProperties
  <2>2. y \in Seq(Int) /\ Len(y) = b - a /\ \A i \in 1 .. (b - a) : y[i] = s[a + i]
    BY <1>1, <1>2, SubSeqProperties
  <2> HIDE DEF x, y
  <2>3. \A i \in 1 .. (b - a) : a + i \in 1 .. Len(s)
    BY <1>1
  <2>4. x = y
    BY <2>1, <2>2, <2>3, SeqEqual
  <2> QED
    BY <2>4 DEF x, y
<1>3. CASE ~ (a < b)
  <2>1. SubSeq(u, a + 1, b) = <<>> /\ SubSeq(s, a + 1, b) = <<>>
    BY <1>3, SubSeqEmpty
  <2> QED
    BY <2>1
<1> QED
  BY <1>2, <1>3

(* A cover of a stream covers that part of any longer one. *)
LEMMA CoversLonger ==
  ASSUME NEW aggs, NEW cut, NEW s, Covers(aggs, cut, s), NEW x \in Int
  PROVE  /\ Covers(aggs, cut, Append(s, x))
         /\ Append(s, x) \in Seq(Int) /\ Len(Append(s, x)) = Len(s) + 1
         /\ \A a, b \in Nat : b <= Len(s) =>
              SubSeq(Append(s, x), a + 1, b) = SubSeq(s, a + 1, b)
<1> DEFINE u == Append(s, x)
<1>1. Len(aggs) \in Nat /\ Len(s) \in Nat /\ s \in Seq(Int)
  BY DEF Covers
<1>2. u \in Seq(Int) /\ Len(u) = Len(s) + 1 /\ \A i \in 1 .. Len(s) : u[i] = s[i]
  BY <1>1, AppendProperties
<1> HIDE DEF u
<1>3. ASSUME NEW a \in Nat, NEW b \in Nat, b <= Len(s)
      PROVE  SubSeq(u, a + 1, b) = SubSeq(s, a + 1, b)
  <2>1. Len(s) <= Len(u)
    BY <1>1, <1>2
  <2> QED
    BY <1>1, <1>2, <1>3, <2>1, PieceOfLonger
<1>4. ASSUME NEW i \in 1 .. Len(aggs)
      PROVE  cut[i - 1] <= cut[i] /\ aggs[i] = Summary(SubSeq(u, cut[i - 1] + 1, cut[i]))
  <2>1. i - 1 \in 0 .. Len(aggs) /\ i \in 0 .. Len(aggs) /\ i - 1 <= i
    BY <1>1
  <2>2. cut[i - 1] \in Nat /\ cut[i] \in Nat /\ cut[i] <= Len(s)
    BY <2>1, CutsGrow
  <2>3. cut[i - 1] <= cut[i] /\ aggs[i] = Summary(SubSeq(s, cut[i - 1] + 1, cut[i]))
    BY DEF Covers
  <2> QED
    BY <1>3, <2>2, <2>3
<1>5. /\ aggs \in Seq(Reached) /\ cut \in [0 .. Len(aggs) -> Nat] /\ cut[0] = 0
      /\ cut[Len(aggs)] <= Len(s) /\ cut[Len(aggs)] \in Nat
  BY <1>1 DEF Covers
<1>6. Covers(aggs, cut, u)
  BY <1>1, <1>2, <1>4, <1>5 DEF Covers
<1> QED
  BY <1>2, <1>3, <1>6 DEF u

MoreCuts(cut, n, m) == [i \in 0 .. n + 1 |-> IF i <= n THEN cut[i] ELSE m]

(* One more aggregate, of the frames that follow the last cut, makes a     *)
(* longer cover.                                                           *)
LEMMA AppendCovers ==
  ASSUME NEW aggs, NEW cut, NEW s, Covers(aggs, cut, s), NEW m \in Nat, NEW a \in Reached,
         cut[Len(aggs)] <= m, m <= Len(s), a = Summary(SubSeq(s, cut[Len(aggs)] + 1, m))
  PROVE  /\ Covers(Append(aggs, a), MoreCuts(cut, Len(aggs), m), s)
         /\ Append(aggs, a) \in Seq(Reached) /\ Len(Append(aggs, a)) = Len(aggs) + 1
         /\ \A i \in 0 .. Len(aggs) : MoreCuts(cut, Len(aggs), m)[i] = cut[i]
         /\ MoreCuts(cut, Len(aggs), m)[Len(aggs) + 1] = m
<1> DEFINE n == Len(aggs)
           longer == Append(aggs, a)
           cuts == MoreCuts(cut, Len(aggs), m)
<1>1. /\ n \in Nat /\ Len(s) \in Nat /\ aggs \in Seq(Reached) /\ s \in Seq(Int)
      /\ cut \in [0 .. n -> Nat] /\ cut[0] = 0
      /\ \A i \in 1 .. n : cut[i - 1] <= cut[i] /\ aggs[i] = Summary(SubSeq(s, cut[i - 1] + 1, cut[i]))
  BY DEF Covers
<1>2. /\ longer \in Seq(Reached) /\ Len(longer) = n + 1
      /\ \A i \in 1 .. n : longer[i] = aggs[i]
      /\ longer[n + 1] = a
  BY <1>1, AppendProperties
<1>3. /\ cuts \in [0 .. n + 1 -> Nat] /\ cuts[n + 1] = m /\ \A i \in 0 .. n : cuts[i] = cut[i]
  BY <1>1 DEF MoreCuts
<1>4. cut[n] <= m /\ a = Summary(SubSeq(s, cut[n] + 1, m))
  OBVIOUS
<1>5. ASSUME NEW i \in 1 .. n + 1
      PROVE  cuts[i - 1] <= cuts[i] /\ longer[i] = Summary(SubSeq(s, cuts[i - 1] + 1, cuts[i]))
  <2> HIDE DEF cuts, longer, n
  <2>1. CASE i = n + 1
    <3>1. i - 1 = n /\ cuts[i - 1] = cut[n] /\ cuts[i] = m /\ longer[i] = a
      BY <1>1, <1>2, <1>3, <2>1
    <3> QED
      BY <1>4, <3>1
  <2>2. CASE i # n + 1
    <3>1. i \in 1 .. n /\ i - 1 \in 0 .. n /\ i \in 0 .. n
      BY <1>1, <2>2
    <3> QED
      BY <1>1, <1>2, <1>3, <3>1
  <2> QED
    BY <2>1, <2>2
<1> HIDE DEF cuts, longer, n
<1>6. cuts[0] = 0
  BY <1>1, <1>3
<1>7. Covers(longer, cuts, s)
  BY <1>1, <1>2, <1>3, <1>5, <1>6 DEF Covers
<1> QED
  BY <1>2, <1>3, <1>7 DEF cuts, longer, n

HalvedCuts(cut, n) == [i \in 0 .. Pairs(n) |-> IF 2 * i <= n THEN cut[2 * i] ELSE cut[n]]

(* Halving keeps every second cut, and the last. *)
LEMMA CompactedCovers ==
  ASSUME ReducerAssumption, NEW aggs, NEW cut, NEW s, Covers(aggs, cut, s)
  PROVE  Covers(Compacted(aggs), HalvedCuts(cut, Len(aggs)), s)
<1> DEFINE n == Len(aggs)
           cuts == HalvedCuts(cut, Len(aggs))
<1>1. /\ n \in Nat /\ Len(s) \in Nat /\ aggs \in Seq(Reached) /\ s \in Seq(Int)
      /\ cut \in [0 .. n -> Nat] /\ cut[0] = 0 /\ cut[n] <= Len(s)
      /\ \A i \in 1 .. n : cut[i - 1] <= cut[i] /\ aggs[i] = Summary(SubSeq(s, cut[i - 1] + 1, cut[i]))
  BY DEF Covers
<1>2. Compacted(aggs) \in Seq(Reached) /\ Len(Compacted(aggs)) = Pairs(n) /\ Pairs(n) \in Nat
  BY <1>1, CompactedTyped, PairsOfLength
<1>3. ASSUME NEW i \in 0 .. Pairs(n)
      PROVE  /\ cuts[i] \in Nat
             /\ 2 * i <= n => cuts[i] = cut[2 * i]
             /\ 2 * i > n => cuts[i] = cut[n]
  <2>1. n \in 0 .. n /\ (2 * i <= n => 2 * i \in 0 .. n)
    BY <1>1, <1>2
  <2>2. cuts[i] = IF 2 * i <= n THEN cut[2 * i] ELSE cut[n]
    BY DEF HalvedCuts
  <2> HIDE DEF cuts, n
  <2> QED
    BY <1>1, <1>2, <2>1, <2>2
<1>4. ASSUME NEW i \in 1 .. Pairs(n)
      PROVE  cuts[i - 1] <= cuts[i]
             /\ Compacted(aggs)[i] = Summary(SubSeq(s, cuts[i - 1] + 1, cuts[i]))
  <2>1. /\ 2 * i - 1 \in 1 .. n /\ (2 * i <= n => 2 * i \in 1 .. n) /\ (2 * i > n => 2 * i - 1 = n)
        /\ i - 1 \in 0 .. Pairs(n) /\ i \in 0 .. Pairs(n) /\ 2 * (i - 1) <= n /\ i \in Nat
    <3>1. /\ 2 * i - 1 \in 1 .. n /\ (2 * i <= n => 2 * i \in 1 .. n)
          /\ (2 * i > n => 2 * i - 1 = n)
      BY <1>1, PairsOfLength
    <3> HIDE DEF n
    <3>2. i \in Nat /\ i >= 1 /\ i <= Pairs(n)
      BY <1>2
    <3>3. i - 1 \in 0 .. Pairs(n) /\ i \in 0 .. Pairs(n)
      BY <1>2, <3>2
    <3>4. 2 * (i - 1) <= n
      BY <1>1, <3>1, <3>2
    <3> QED
      BY <3>1, <3>2, <3>3, <3>4
  <2>2. cuts[i - 1] = cut[2 * i - 2]
    <3>1. 2 * (i - 1) = 2 * i - 2
      BY <2>1
    <3> QED
      BY <1>3, <2>1, <3>1
  <2>3. 2 * i - 2 = (2 * i - 1) - 1
    BY <2>1
  <2>4. cut[2 * i - 2] <= cut[2 * i - 1]
        /\ aggs[2 * i - 1] = Summary(SubSeq(s, cut[2 * i - 2] + 1, cut[2 * i - 1]))
    BY <1>1, <2>1, <2>3
  <2>5. Compacted(aggs)[i] = IF 2 * i <= n THEN Combine(aggs[2 * i - 1], aggs[2 * i])
                             ELSE aggs[2 * i - 1]
    BY DEF Compacted
  <2>6. CASE 2 * i > n
    <3>1. cuts[i] = cut[2 * i - 1]
      BY <1>3, <2>1, <2>6
    <3>2. Compacted(aggs)[i] = aggs[2 * i - 1]
      BY <1>1, <2>1, <2>5, <2>6
    <3> QED
      BY <2>2, <2>4, <3>1, <3>2
  <2>7. CASE 2 * i <= n
    <3>1. 2 * i - 1 = (2 * i) - 1 /\ 2 * i \in 1 .. n
      BY <2>1, <2>7
    <3>2. cut[2 * i - 1] <= cut[2 * i]
          /\ aggs[2 * i] = Summary(SubSeq(s, cut[2 * i - 1] + 1, cut[2 * i]))
      BY <1>1, <3>1
    <3>3. cuts[i] = cut[2 * i]
      BY <1>3, <2>1, <2>7
    <3>4. /\ 2 * i - 2 \in 0 .. n /\ 2 * i - 1 \in 0 .. n /\ 2 * i \in 0 .. n
          /\ 2 * i - 1 <= 2 * i
      BY <1>1, <2>1, <3>1
    <3>5. /\ cut[2 * i - 2] \in Nat /\ cut[2 * i - 1] \in Nat /\ cut[2 * i] \in Nat
          /\ cut[2 * i] <= Len(s)
      <4>1. cut[2 * i - 1] \in Nat /\ cut[2 * i] \in Nat /\ cut[2 * i] <= Len(s)
        BY <3>4, CutsGrow
      <4> QED
        BY <1>1, <3>4, <4>1
    <3>6. Compacted(aggs)[i] = Combine(aggs[2 * i - 1], aggs[2 * i])
      BY <2>5, <2>7
    <3>7. Compacted(aggs)[i] = Summary(SubSeq(s, cut[2 * i - 2] + 1, cut[2 * i]))
      BY <1>1, <2>4, <3>2, <3>5, <3>6, SummaryOfPieces
    <3> QED
      BY <2>2, <2>4, <3>2, <3>3, <3>5, <3>7
  <2> QED
    BY <1>1, <2>1, <2>6, <2>7
<1>5. cuts \in [0 .. Pairs(n) -> Nat]
  BY <1>3 DEF HalvedCuts
<1>6. cuts[0] = 0
  <2>1. 0 \in 0 .. Pairs(n) /\ 2 * 0 <= n /\ 2 * 0 = 0
    BY <1>1, <1>2
  <2> QED
    BY <1>1, <1>3, <2>1
<1>7. cuts[Pairs(n)] <= Len(s)
  <2>1. Pairs(n) \in 0 .. Pairs(n)
    BY <1>2
  <2>2. CASE 2 * Pairs(n) <= n
    <3>1. 2 * Pairs(n) \in 0 .. n /\ n \in 0 .. n
      BY <1>1, <1>2, <2>2
    <3>2. cut[2 * Pairs(n)] <= Len(s)
      BY <3>1, CutsGrow
    <3> QED
      BY <1>3, <2>1, <2>2, <3>2
  <2>3. CASE 2 * Pairs(n) > n
    BY <1>1, <1>3, <2>1, <2>3
  <2> QED
    BY <1>1, <1>2, <2>2, <2>3
<1> HIDE DEF cuts, n
<1>8. Covers(Compacted(aggs), cuts, s)
  BY <1>1, <1>2, <1>4, <1>5, <1>6, <1>7 DEF Covers
<1> QED
  BY <1>8 DEF cuts, n

------------------------------------------------------------------------------
(* Where the cuts are *)

LEMMA ProductGrows ==
  ASSUME NEW a \in Int, NEW b \in Int, NEW c \in Int, a <= b, 0 <= c
  PROVE  a * c <= b * c /\ c * a <= c * b
OBVIOUS

(* How far the i-th cut may lag behind the i-th multiple of the block.    *)
Near(i, at, requested, block) ==
  LET lack == i * block - at
  IN  /\ 0 <= lack /\ lack < block
      /\ requested * lack <= i * (block - 1)
      /\ i * block <= 2 * (requested + 1) * (lack + 1)

(* A cut that is near its multiple of a block is near, at half its index,  *)
(* its multiple of twice the block.                                        *)
LEMMA NearHalved ==
  ASSUME NEW i \in Nat, NEW at \in Nat, NEW requested \in Nat, NEW block \in Nat \ {0},
         Near(2 * i, at, requested, block)
  PROVE  Near(i, at, requested, 2 * block)
<1> DEFINE lack == 2 * i * block - at
<1>1. /\ 0 <= lack /\ lack < block
      /\ requested * lack <= 2 * i * (block - 1)
      /\ 2 * i * block <= 2 * (requested + 1) * (lack + 1)
  BY DEF Near
<1>2. i * (2 * block) - at = lack /\ i * (2 * block) = 2 * i * block
  OBVIOUS
<1>3. 2 * i * (block - 1) <= i * (2 * block - 1)
  <2>1. 2 * i * (block - 1) = 2 * (i * block) - 2 * i /\ i * (2 * block - 1) = 2 * (i * block) - i
    OBVIOUS
  <2>2. i * block \in Int
    OBVIOUS
  <2> QED
    BY <2>1, <2>2
<1>4. lack < 2 * block /\ requested * lack <= i * (2 * block - 1)
  <2>1. lack \in Int /\ requested * lack \in Int /\ 2 * i * (block - 1) \in Int
        /\ i * (2 * block - 1) \in Int
    OBVIOUS
  <2> HIDE DEF lack
  <2> QED
    BY <1>1, <1>3, <2>1
<1> HIDE DEF lack
<1> QED
  BY <1>1, <1>2, <1>4 DEF Near

(* The last cut lacks one frame less than a block. *)
LEMMA NearLast ==
  ASSUME NEW n \in Nat, NEW at \in Nat, NEW requested \in Nat, NEW block \in Nat \ {0},
         n * block - at = block - 1, n <= 2 * requested + 2, block = 1 \/ requested <= n
  PROVE  Near(n, at, requested, block)
<1>1. requested * (block - 1) <= n * (block - 1)
  <2>1. CASE block = 1
    BY <2>1
  <2>2. CASE requested <= n
    BY <2>2, ProductGrows
  <2> QED
    BY <2>1, <2>2
<1>2. n * block <= 2 * (requested + 1) * (block - 1 + 1)
  <2>1. n * block <= (2 * requested + 2) * block
    BY ProductGrows
  <2>2. 2 * (requested + 1) * (block - 1 + 1) = (2 * requested + 2) * block
    OBVIOUS
  <2> QED
    BY <2>1, <2>2
<1> QED
  BY <1>1, <1>2 DEF Near

(* What is true of a reducer while it is fed: the aggregates stand for     *)
(* consecutive pieces of the stream and the pending one for the rest of    *)
(* it; the last cut lacks one frame less than a block, and all are near    *)
(* their multiples of it; a halving leaves more aggregates than bins.      *)
Standing(r, s, cut) ==
  LET n == Len(r.aggregates)
  IN  /\ Covers(r.aggregates, cut, s)
      /\ r.requested_bins > 0 /\ n <= 2 * r.requested_bins
      /\ r.total_frames = Len(s)
      /\ r.pending = Summary(SubSeq(s, cut[n] + 1, Len(s)))
      /\ n * r.block_frames - cut[n] = r.block_frames - 1
      /\ r.block_frames = 1 \/ r.requested_bins < n
      /\ \A i \in 0 .. n : Near(i, cut[i], r.requested_bins, r.block_frames)

(* Between two frames the pending piece is shorter than a block. *)
Reduced(r, s, cut) ==
  Standing(r, s, cut) /\ Len(s) - cut[Len(r.aggregates)] < r.block_frames

(* The pending aggregate counts the frames after the last cut. *)
LEMMA Remainder ==
  ASSUME ReducerAssumption, NEW r \in Reducers, NEW s, NEW cut, Standing(r, s, cut)
  PROVE  /\ r.pending \in Reached /\ Len(s) \in Nat /\ s \in Seq(Int)
         /\ cut[Len(r.aggregates)] \in Nat /\ cut[Len(r.aggregates)] <= Len(s)
         /\ r.pending.frame_count = Len(s) - cut[Len(r.aggregates)]
         /\ Len(r.aggregates) \in Nat /\ r.requested_bins \in Nat \ {0}
         /\ r.block_frames \in Nat \ {0} /\ r.aggregates \in Seq(Reached)
         /\ r.total_frames \in Nat
<1> DEFINE n == Len(r.aggregates)
<1>1. /\ Len(s) \in Nat /\ s \in Seq(Int) /\ n \in Nat /\ cut[n] \in Nat /\ cut[n] <= Len(s)
      /\ r.pending = Summary(SubSeq(s, cut[n] + 1, Len(s)))
  BY DEF Standing, Covers, Reducers
<1>2. r.requested_bins \in Nat \ {0} /\ r.block_frames \in Nat \ {0} /\ r.aggregates \in Seq(Reached)
      /\ r.total_frames \in Nat
  BY DEF Standing, Reducers
<1>3. r.pending \in Reached /\ r.pending.frame_count = Len(s) - cut[n]
  BY <1>1, SummaryCount
<1> QED
  BY <1>1, <1>2, <1>3

LEMMA NothingAppended ==
  ASSUME ReducerAssumption, NEW r \in Reducers, r.requested_bins > 0, r.block_frames = 1,
         r.total_frames = 0, r.pending = Empty, r.aggregates = <<>>
  PROVE  Reduced(r, <<>>, [i \in 0 .. 0 |-> 0])
<1> DEFINE cut == [i \in 0 .. 0 |-> 0]
<1>1. r.requested_bins \in Nat /\ Len(r.aggregates) = 0 /\ cut[0] = 0
  BY DEF Reducers
<1>2. Covers(r.aggregates, cut, <<>>)
  BY <1>1 DEF Covers
<1>3. SubSeq(<<>>, 0 + 1, 0) = <<>>
  BY NoPiece
<1>4. Summary(SubSeq(<<>>, cut[0] + 1, Len(<<>>))) = Empty
  BY <1>1, <1>3, SummaryEquations
<1>5. \A i \in 0 .. 0 : Near(i, cut[i], r.requested_bins, 1)
  BY <1>1 DEF Near
<1> HIDE DEF cut
<1>6. Reduced(r, <<>>, cut)
  BY <1>1, <1>2, <1>4, <1>5 DEF Reduced, Standing
<1> QED
  BY <1>6 DEF cut

(* What flushing makes of the cuts: one more, or every second and the last. *)
Kept(f, r, s, cut, cuts) ==
  LET n == Len(r.aggregates)
  IN  /\ Covers(f.aggregates, cuts, s) /\ Len(f.aggregates) = n + 1
      /\ f = [r EXCEPT !.aggregates = f.aggregates, !.pending = Empty]
      /\ cuts[n + 1] = Len(s) /\ \A i \in 0 .. n : cuts[i] = cut[i]

Halved(f, r, s, cut, cuts) ==
  LET requested == r.requested_bins
  IN  /\ Covers(f.aggregates, cuts, s) /\ Len(f.aggregates) = requested + 1
      /\ f = [r EXCEPT !.aggregates = f.aggregates, !.pending = Empty,
                       !.block_frames = 2 * r.block_frames]
      /\ cuts[requested + 1] = Len(s) /\ \A i \in 0 .. requested : cuts[i] = cut[2 * i]

(* flush_pending, when something is pending, covers the stream, with or    *)
(* without a halving.                                                      *)
LEMMA FlushStanding ==
  ASSUME ReducerAssumption, NEW r \in Reducers, NEW s, NEW cut, Standing(r, s, cut),
         cut[Len(r.aggregates)] < Len(s)
  PROVE  \E cuts : \/ Len(r.aggregates) < 2 * r.requested_bins
                      /\ Kept(FlushPending(r), r, s, cut, cuts)
                   \/ Len(r.aggregates) = 2 * r.requested_bins
                      /\ Halved(FlushPending(r), r, s, cut, cuts)
<1> DEFINE n == Len(r.aggregates)
           longer == Append(r.aggregates, r.pending)
           more == MoreCuts(cut, n, Len(s))
           flushed == [r EXCEPT !.aggregates = longer, !.pending = Empty]
           f == FlushPending(r)
<1>1. /\ n \in Nat /\ r.requested_bins \in Nat \ {0} /\ n <= 2 * r.requested_bins
      /\ r.pending \in Reached /\ r.pending.frame_count = Len(s) - cut[n]
      /\ Len(s) \in Nat /\ cut[n] \in Nat
  BY Remainder DEF Standing
<1>2. /\ Covers(longer, more, s) /\ Len(longer) = n + 1
      /\ \A i \in 0 .. n : more[i] = cut[i]
      /\ more[n + 1] = Len(s)
  <2>1. Covers(r.aggregates, cut, s)
    BY DEF Standing
  <2>2. Len(s) \in Nat /\ r.pending \in Reached
    BY <1>1
  <2>3. cut[Len(r.aggregates)] <= Len(s) /\ Len(s) <= Len(s)
    BY <1>1
  <2>4. r.pending = Summary(SubSeq(s, cut[Len(r.aggregates)] + 1, Len(s)))
    BY DEF Standing
  <2> QED
    BY <2>1, <2>2, <2>3, <2>4, AppendCovers
<1>3. r.pending.frame_count # 0
  BY <1>1
<1>4. CASE n < 2 * r.requested_bins
  <2>1. ~ TooMany(longer, r.requested_bins)
    BY <1>1, <1>2, <1>4 DEF TooMany
  <2>2. f = flushed
    BY <1>3, <2>1 DEF FlushPending
  <2>3. flushed.aggregates = longer
    BY DEF Reducers
  <2> HIDE DEF longer, more, f
  <2>4. f = [r EXCEPT !.aggregates = f.aggregates, !.pending = Empty] /\ f.aggregates = longer
    BY <2>2, <2>3
  <2>5. Kept(f, r, s, cut, more)
    BY <1>2, <2>4 DEF Kept
  <2> QED
    BY <1>4, <2>5 DEF f
<1>5. CASE n = 2 * r.requested_bins
  <2> DEFINE cuts == HalvedCuts(more, n + 1)
             halved == [r EXCEPT !.aggregates = Compacted(longer), !.pending = Empty,
                                 !.block_frames = 2 * r.block_frames]
  <2>1. TooMany(longer, r.requested_bins)
    BY <1>1, <1>2, <1>5 DEF TooMany
  <2>2. f = [flushed EXCEPT !.aggregates = Compacted(longer), !.block_frames = NextBlock(@)]
    BY <1>3, <2>1 DEF FlushPending
  <2>3. flushed.block_frames = r.block_frames
    BY DEF Reducers
  <2>4. f = halved
    <3> HIDE DEF longer, f
    <3> QED
      BY <2>2, <2>3 DEF NextBlock, Reducers
  <2>5. halved.aggregates = Compacted(longer)
    BY DEF Reducers
  <2>6. Covers(Compacted(longer), cuts, s)
    <3> HIDE DEF longer, more
    <3> QED
      BY <1>2, CompactedCovers
  <2>7. longer \in Seq(Reached) /\ Len(Compacted(longer)) = Pairs(n + 1)
    <3>1. longer \in Seq(Reached)
      BY <1>2 DEF Covers
    <3> QED
      BY <1>2, <3>1, CompactedTyped
  <2>8. Pairs(n + 1) = r.requested_bins + 1
    BY <1>1, <1>5 DEF Pairs
  <2>9. cuts[r.requested_bins + 1] = Len(s)
    <3>1. 2 * (r.requested_bins + 1) > n + 1 /\ r.requested_bins + 1 \in 0 .. Pairs(n + 1)
      BY <1>1, <1>5, <2>8
    <3>2. cuts[r.requested_bins + 1] = more[n + 1]
      <4> HIDE DEF more, n
      <4> QED
        BY <1>1, <3>1 DEF HalvedCuts
    <3> QED
      BY <1>2, <3>2
  <2>10. ASSUME NEW i \in 0 .. r.requested_bins PROVE cuts[i] = cut[2 * i]
    <3>1. 2 * i <= n + 1 /\ i \in 0 .. Pairs(n + 1) /\ 2 * i \in 0 .. n
      BY <1>1, <1>5, <2>8
    <3>2. cuts[i] = more[2 * i]
      <4> HIDE DEF more, n
      <4> QED
        BY <1>1, <3>1 DEF HalvedCuts
    <3> QED
      BY <1>2, <3>1, <3>2
  <2> HIDE DEF longer, more, f, cuts
  <2>11. Halved(f, r, s, cut, cuts)
    BY <2>4, <2>5, <2>6, <2>7, <2>8, <2>9, <2>10 DEF Halved
  <2> QED
    BY <1>5, <2>11 DEF f
<1> QED
  BY <1>1, <1>4, <1>5

(* The last cut lacks one frame less than a block, and a whole block       *)
(* follows it.                                                             *)
BlockEnds(n, block, at, next) ==
  /\ n \in Nat /\ block \in Nat /\ at \in Nat /\ next \in Nat
  /\ n * block - at = block - 1 /\ next - at = block

(* The cut after it lacks one frame less than its block as well, whether   *)
(* the aggregates are halved or not.                                       *)
LEMMA NextLack ==
  ASSUME NEW n, NEW block, NEW at, NEW next, BlockEnds(n, block, at, next)
  PROVE  /\ (n + 1) * block - next = block - 1
         /\ \A half \in Nat : n = 2 * half =>
              (half + 1) * (2 * block) - next = 2 * block - 1
<1>0. /\ n \in Nat /\ block \in Nat /\ at \in Nat /\ next \in Nat
      /\ n * block - at = block - 1 /\ next - at = block
  BY DEF BlockEnds
<1>1. (n + 1) * block - next = block - 1
  <2> DEFINE p == n * block
  <2>1. (n + 1) * block = p + block /\ p \in Int /\ p - at = block - 1
    BY <1>0
  <2> HIDE DEF p
  <2> QED
    BY <1>0, <2>1
<1>2. ASSUME NEW half \in Nat, n = 2 * half PROVE (half + 1) * (2 * block) - next = 2 * block - 1
  <2> DEFINE p == half * block
  <2>1. (half + 1) * (2 * block) = 2 * p + 2 * block /\ n * block = 2 * p /\ p \in Int
    BY <1>0, <1>2
  <2> HIDE DEF p
  <2> QED
    BY <1>0, <2>1
<1> QED
  BY <1>1, <1>2

(* A flush of a whole block without a halving keeps a reducer in order. *)
LEMMA NearKept ==
  ASSUME ReducerAssumption, NEW r \in Reducers, NEW s, NEW cut, NEW f, NEW cuts,
         Standing(r, s, cut), Kept(f, r, s, cut, cuts),
         Len(r.aggregates) < 2 * r.requested_bins, Len(s) - cut[Len(r.aggregates)] = r.block_frames
  PROVE  f \in Reducers /\ Reduced(f, s, cuts)
<1> DEFINE n == Len(r.aggregates)
           block == r.block_frames
           requested == r.requested_bins
<1>1. /\ n \in Nat /\ requested \in Nat \ {0} /\ block \in Nat \ {0} /\ Len(s) \in Nat
      /\ cut[n] \in Nat /\ s \in Seq(Int)
      /\ n * block - cut[n] = block - 1 /\ r.total_frames = Len(s)
      /\ block = 1 \/ requested < n
      /\ \A i \in 0 .. n : Near(i, cut[i], requested, block)
  BY Remainder DEF Standing
<1>2. /\ Covers(f.aggregates, cuts, s) /\ Len(f.aggregates) = n + 1
      /\ f = [r EXCEPT !.aggregates = f.aggregates, !.pending = Empty]
      /\ cuts[n + 1] = Len(s) /\ \A i \in 0 .. n : cuts[i] = cut[i]
  BY DEF Kept
<1>3. /\ f.block_frames = block /\ f.requested_bins = requested /\ f.total_frames = Len(s)
      /\ f.pending = Empty /\ f \in Reducers
  <2>1. f.aggregates \in Seq(Reached) /\ Empty \in Reached
    BY <1>2, EmptyTyped DEF Covers
  <2> QED
    BY <1>1, <1>2, <2>1 DEF Reducers
<1>4. n < 2 * requested /\ Len(s) - cut[n] = block
  OBVIOUS
<1> HIDE DEF n, block, requested
<1>5. (n + 1) * block - Len(s) = block - 1
  <2>1. /\ n \in Nat /\ block \in Nat /\ cut[n] \in Nat /\ Len(s) \in Nat
        /\ n * block - cut[n] = block - 1 /\ Len(s) - cut[n] = block
    BY <1>1, <1>4
  <2>2. BlockEnds(n, block, cut[n], Len(s))
    BY <2>1 DEF BlockEnds
  <2> QED
    BY <2>2, NextLack
<1>6. Near(n + 1, Len(s), requested, block)
  BY <1>1, <1>4, <1>5, NearLast
<1>7. ASSUME NEW i \in 0 .. n + 1 PROVE Near(i, cuts[i], requested, block)
  <2>1. CASE i = n + 1
    BY <1>2, <1>6, <2>1
  <2>2. CASE i # n + 1
    BY <1>1, <1>2, <2>2
  <2> QED
    BY <2>1, <2>2
<1>8. Summary(SubSeq(s, Len(s) + 1, Len(s))) = Empty
  BY <1>1, NoPiece, SummaryEquations
<1>9. Standing(f, s, cuts)
  <2> DEFINE m == n + 1
  <2>1. /\ Len(f.aggregates) = m /\ cuts[m] = Len(s) /\ m * f.block_frames - cuts[m] = f.block_frames - 1
        /\ m <= 2 * f.requested_bins /\ f.requested_bins > 0
        /\ f.block_frames = 1 \/ f.requested_bins < m
    <3>1. m <= 2 * requested /\ requested > 0 /\ (block = 1 \/ requested < m)
      BY <1>1, <1>4
    <3>2. Len(f.aggregates) = m /\ cuts[m] = Len(s) /\ m * (block) - cuts[m] = block - 1
      BY <1>2, <1>5, Zenon
    <3> QED
      BY <1>3, <3>1, <3>2, Zenon
  <2>2. \A i \in 0 .. m : Near(i, cuts[i], f.requested_bins, f.block_frames)
    BY <1>3, <1>7
  <2>3. f.pending = Summary(SubSeq(s, cuts[m] + 1, Len(s)))
    BY <1>3, <1>8, <2>1
  <2> HIDE DEF m
  <2> QED
    BY <1>2, <1>3, <2>1, <2>2, <2>3 DEF Standing
<1>10. Len(s) - cuts[Len(f.aggregates)] < f.block_frames
  BY <1>1, <1>2, <1>3
<1> QED
  BY <1>3, <1>9, <1>10 DEF Reduced

(* So does one with a halving. *)
LEMMA NearWhenHalved ==
  ASSUME ReducerAssumption, NEW r \in Reducers, NEW s, NEW cut, NEW f, NEW cuts,
         Standing(r, s, cut), Halved(f, r, s, cut, cuts),
         Len(r.aggregates) = 2 * r.requested_bins, Len(s) - cut[Len(r.aggregates)] = r.block_frames
  PROVE  f \in Reducers /\ Reduced(f, s, cuts)
<1> DEFINE n == Len(r.aggregates)
           block == r.block_frames
           requested == r.requested_bins
<1>1. /\ n \in Nat /\ requested \in Nat \ {0} /\ block \in Nat \ {0} /\ Len(s) \in Nat
      /\ cut[n] \in Nat /\ s \in Seq(Int)
      /\ n * block - cut[n] = block - 1 /\ r.total_frames = Len(s)
      /\ \A i \in 0 .. n : Near(i, cut[i], requested, block)
  BY Remainder DEF Standing
<1>2. /\ Covers(f.aggregates, cuts, s) /\ Len(f.aggregates) = requested + 1
      /\ f = [r EXCEPT !.aggregates = f.aggregates, !.pending = Empty,
                       !.block_frames = 2 * block]
      /\ cuts[requested + 1] = Len(s) /\ \A i \in 0 .. requested : cuts[i] = cut[2 * i]
  BY DEF Halved
<1>3. /\ f.block_frames = 2 * block /\ f.requested_bins = requested /\ f.total_frames = Len(s)
      /\ f.pending = Empty /\ f \in Reducers
  <2>1. f.aggregates \in Seq(Reached) /\ Empty \in Reached
    BY <1>2, EmptyTyped DEF Covers
  <2>2. 2 * block \in Nat \ {0}
    <3> HIDE DEF n, block, requested
    <3> QED
      BY <1>1
  <2> QED
    BY <1>1, <1>2, <2>1, <2>2 DEF Reducers
<1>4. n = 2 * requested /\ Len(s) - cut[n] = block
  OBVIOUS
<1> HIDE DEF n, block, requested
<1>5. (requested + 1) * (2 * block) - Len(s) = 2 * block - 1
  <2>1. /\ requested \in Nat /\ n = 2 * requested /\ block \in Nat /\ cut[n] \in Nat
        /\ Len(s) \in Nat /\ n * block - cut[n] = block - 1 /\ Len(s) - cut[n] = block
    BY <1>1, <1>4
  <2>2. BlockEnds(n, block, cut[n], Len(s))
    BY <1>1, <2>1 DEF BlockEnds
  <2>3. \A half \in Nat : n = 2 * half => (half + 1) * (2 * block) - Len(s) = 2 * block - 1
    BY <2>2, NextLack
  <2> QED
    BY <2>1, <2>3, Zenon
<1>6. Near(requested + 1, Len(s), requested, 2 * block)
  <2>1. 2 * block \in Nat \ {0} /\ requested + 1 \in Nat /\ requested \in Nat
        /\ requested + 1 <= 2 * requested + 2 /\ requested <= requested + 1
    BY <1>1
  <2> QED
    BY <1>1, <1>5, <2>1, NearLast
<1>7. ASSUME NEW i \in 0 .. requested + 1 PROVE Near(i, cuts[i], requested, 2 * block)
  <2>1. CASE i = requested + 1
    BY <1>2, <1>6, <2>1
  <2>2. CASE i # requested + 1
    <3>1. i \in 0 .. requested /\ 2 * i \in 0 .. n /\ i \in Nat
      BY <1>1, <1>4, <2>2
    <3>2. cuts[i] = cut[2 * i] /\ Near(2 * i, cut[2 * i], requested, block)
      BY <1>1, <1>2, <3>1
    <3>3. cut[2 * i] \in Nat
      BY <3>1 DEF Standing, Covers, n
    <3> QED
      BY <1>1, <3>1, <3>2, <3>3, NearHalved
  <2> QED
    BY <2>1, <2>2
<1>8. Summary(SubSeq(s, Len(s) + 1, Len(s))) = Empty
  BY <1>1, NoPiece, SummaryEquations
<1>9. Standing(f, s, cuts)
  <2> DEFINE m == requested + 1
  <2>1. /\ Len(f.aggregates) = m /\ cuts[m] = Len(s) /\ m * f.block_frames - cuts[m] = f.block_frames - 1
        /\ m <= 2 * f.requested_bins /\ f.requested_bins > 0
        /\ f.block_frames = 1 \/ f.requested_bins < m
    <3>1. m <= 2 * requested /\ requested > 0 /\ (2 * block = 1 \/ requested < m)
      BY <1>1, <1>4
    <3>2. Len(f.aggregates) = m /\ cuts[m] = Len(s) /\ m * (2 * block) - cuts[m] = 2 * block - 1
      BY <1>2, <1>5, Zenon
    <3> QED
      BY <1>3, <3>1, <3>2, Zenon
  <2>2. \A i \in 0 .. m : Near(i, cuts[i], f.requested_bins, f.block_frames)
    BY <1>3, <1>7
  <2>3. f.pending = Summary(SubSeq(s, cuts[m] + 1, Len(s)))
    BY <1>3, <1>8, <2>1
  <2> HIDE DEF m
  <2> QED
    BY <1>2, <1>3, <2>1, <2>2, <2>3 DEF Standing
<1>10. Len(s) - cuts[Len(f.aggregates)] < f.block_frames
  BY <1>1, <1>2, <1>3
<1> QED
  BY <1>3, <1>9, <1>10 DEF Reduced

TakesFrame(longer, r, x) ==
  longer = [r EXCEPT !.pending = WithFrame(@, x), !.total_frames = @ + 1]

(* A frame more in the pending aggregate keeps what is true of the cuts. *)
LEMMA LongerStanding ==
  ASSUME ReducerAssumption, NEW r \in Reducers, NEW s, NEW cut, Reduced(r, s, cut), NEW x \in Int,
         NEW longer, TakesFrame(longer, r, x)
  PROVE  /\ longer \in Reducers /\ Standing(longer, Append(s, x), cut)
         /\ longer.aggregates = r.aggregates /\ longer.block_frames = r.block_frames
         /\ longer.requested_bins = r.requested_bins
         /\ Len(Append(s, x)) - cut[Len(r.aggregates)] <= r.block_frames
         /\ longer.pending.frame_count = Len(Append(s, x)) - cut[Len(r.aggregates)]
         /\ cut[Len(r.aggregates)] < Len(Append(s, x))
<1> DEFINE n == Len(r.aggregates)
           u == Append(s, x)
<1>1. /\ r.pending \in Reached /\ Len(s) \in Nat /\ s \in Seq(Int)
      /\ cut[n] \in Nat /\ cut[n] <= Len(s) /\ n \in Nat
      /\ r.block_frames \in Nat \ {0} /\ r.total_frames \in Nat
      /\ Len(s) - cut[n] < r.block_frames
      /\ r.pending = Summary(SubSeq(s, cut[n] + 1, Len(s))) /\ r.total_frames = Len(s)
      /\ Covers(r.aggregates, cut, s)
  BY Remainder DEF Reduced, Standing
<1>2. /\ Covers(r.aggregates, cut, u) /\ u \in Seq(Int) /\ Len(u) = Len(s) + 1
      /\ SubSeq(u, cut[n] + 1, Len(s)) = SubSeq(s, cut[n] + 1, Len(s))
      /\ u[Len(s) + 1] = x
  <2> HIDE DEF n
  <2>1. /\ Covers(r.aggregates, cut, u) /\ u \in Seq(Int) /\ Len(u) = Len(s) + 1
        /\ \A a, b \in Nat : b <= Len(s) => SubSeq(u, a + 1, b) = SubSeq(s, a + 1, b)
    BY <1>1, CoversLonger
  <2>2. u[Len(s) + 1] = x
    BY <1>1, AppendProperties
  <2>3. SubSeq(u, cut[n] + 1, Len(s)) = SubSeq(s, cut[n] + 1, Len(s))
    <3>1. cut[n] \in Nat /\ Len(s) \in Nat /\ Len(s) <= Len(s)
      BY <1>1
    <3> QED
      BY <2>1, <3>1, Zenon
  <2> QED
    BY <2>1, <2>2, <2>3
<1> HIDE DEF u
<1>3. Summary(SubSeq(u, cut[n] + 1, Len(u))) = WithFrame(r.pending, x)
  <2> DEFINE rest == SubSeq(u, cut[n] + 1, Len(s))
  <2>1. rest \in Seq(Int) /\ SubSeq(u, cut[n] + 1, Len(s) + 1) = Append(rest, u[Len(s) + 1])
    <3> HIDE DEF n
    <3>1. u \in Seq(Int) /\ cut[n] \in Nat /\ Len(s) \in Nat /\ cut[n] <= Len(s)
          /\ Len(s) + 1 <= Len(u)
      BY <1>1, <1>2
    <3> QED
      BY <3>1, OneMore, Zenon
  <2>2. Summary(rest) = r.pending
    BY <1>1, <1>2
  <2> HIDE DEF rest
  <2> QED
    BY <1>2, <2>1, <2>2, SummaryEquations
<1>4. WithFrame(r.pending, x) \in Reached /\ r.total_frames + 1 \in Nat
  BY <1>1, WithFrameTyped
<1>5. /\ longer \in Reducers /\ longer.aggregates = r.aggregates
      /\ longer.block_frames = r.block_frames /\ longer.requested_bins = r.requested_bins
      /\ longer.pending = WithFrame(r.pending, x) /\ longer.total_frames = r.total_frames + 1
  BY <1>4 DEF Reducers, TakesFrame
<1>6. Standing(longer, u, cut)
  BY <1>1, <1>2, <1>3, <1>5 DEF Reduced, Standing
<1>7. longer.pending.frame_count = Len(u) - cut[n]
  <2>1. longer.pending.frame_count = Len(u) - cut[Len(longer.aggregates)]
    BY <1>5, <1>6, Remainder
  <2> QED
    BY <1>5, <2>1
<1> QED
  BY <1>1, <1>2, <1>5, <1>6, <1>7 DEF u

(* add_frame keeps a reducer in order. *)
LEMMA AddFrameReduces ==
  ASSUME ReducerAssumption, NEW r \in Reducers, NEW s, NEW cut, Reduced(r, s, cut), NEW x \in Int
  PROVE  AddFrame(r, x) \in Reducers /\ \E cuts : Reduced(AddFrame(r, x), Append(s, x), cuts)
<1> DEFINE u == Append(s, x)
           n == Len(r.aggregates)
<1>0. PICK longer : TakesFrame(longer, r, x)
  BY DEF TakesFrame
<1>1. /\ longer \in Reducers /\ Standing(longer, u, cut)
      /\ longer.aggregates = r.aggregates /\ longer.block_frames = r.block_frames
      /\ longer.requested_bins = r.requested_bins
      /\ Len(u) - cut[n] <= r.block_frames
      /\ longer.pending.frame_count = Len(u) - cut[n]
      /\ cut[n] < Len(u)
  BY <1>0, LongerStanding
<1>2. AddFrame(r, x) = IF longer.pending.frame_count = longer.block_frames
                       THEN FlushPending(longer) ELSE longer
  BY <1>0, Zenon DEF AddFrame, TakesFrame
<1>3. cut[n] \in Nat /\ Len(u) \in Nat /\ r.block_frames \in Nat
  BY <1>1, Remainder DEF Reducers
<1> HIDE DEF u
<1>4. CASE longer.pending.frame_count # longer.block_frames
  <2>1. AddFrame(r, x) = longer
    BY <1>2, <1>4
  <2>2. Len(u) - cut[n] < r.block_frames
    BY <1>1, <1>3, <1>4
  <2>3. Reduced(longer, u, cut)
    BY <1>1, <2>2 DEF Reduced
  <2> QED
    BY <1>1, <2>1, <2>3 DEF u
<1>5. CASE longer.pending.frame_count = longer.block_frames
  <2> DEFINE f == FlushPending(longer)
  <2>1. AddFrame(r, x) = f
    BY <1>2, <1>5
  <2>2. Len(u) - cut[Len(longer.aggregates)] = longer.block_frames
        /\ cut[Len(longer.aggregates)] < Len(u)
    BY <1>1, <1>3, <1>5
  <2>3. PICK cuts : \/ Len(longer.aggregates) < 2 * longer.requested_bins
                       /\ Kept(f, longer, u, cut, cuts)
                    \/ Len(longer.aggregates) = 2 * longer.requested_bins
                       /\ Halved(f, longer, u, cut, cuts)
    BY <1>1, <2>2, FlushStanding
  <2> HIDE DEF f
  <2>4. f \in Reducers /\ Reduced(f, u, cuts)
    BY <1>1, <2>2, <2>3, NearKept, NearWhenHalved
  <2> QED
    BY <2>1, <2>4 DEF u
<1> QED
  BY <1>4, <1>5

(* append keeps a reducer in order. *)
LEMMA AppendReduces ==
  ASSUME ReducerAssumption, NEW r \in Reducers, NEW s, NEW cut, Reduced(r, s, cut),
         NEW frames \in Seq(Int)
  PROVE  /\ FoldLeft(AddFrame, r, frames) \in Reducers
         /\ \E cuts : Reduced(FoldLeft(AddFrame, r, frames), s \o frames, cuts)
<1> DEFINE part(k) == SubSeq(frames, 0 + 1, k)
           after(k) == FoldLeft(AddFrame, r, part(k))
           Good(k) == \E cuts : Reduced(after(k), s \o part(k), cuts)
           Bad == {k \in 0 .. Len(frames) : ~ Good(k)}
<1>1. s \in Seq(Int) /\ Len(frames) \in Nat
  BY DEF Reduced, Standing, Covers
<1>2. ASSUME NEW k \in 0 .. Len(frames) PROVE part(k) \in Seq(Int) /\ after(k) \in Reducers
  <2>1. part(k) \in Seq(Int)
    BY <1>1, SubSeqProperties
  <2> HIDE DEF part
  <2> QED
    BY <2>1, AddEquations
<1>3. Bad = {}
  <2> SUFFICES ASSUME Bad # {} PROVE FALSE
    OBVIOUS
  <2>1. PICK m \in Bad : \A k \in Bad : m <= k
    <3>1. Bad \subseteq Nat
      OBVIOUS
    <3> HIDE DEF Bad
    <3> QED
      BY <3>1, LeastNatural
  <2>2. Good(0)
    <3>1. part(0) = <<>>
      BY NoPiece
    <3> HIDE DEF part
    <3>2. after(0) = r
      BY <3>1, AddEquations
    <3>3. s \o part(0) = s
      BY <1>1, <3>1
    <3> QED
      BY <3>2, <3>3
  <2> HIDE DEF Good
  <2>3. m # 0 /\ m - 1 \in 0 .. Len(frames) /\ m - 1 \in Nat /\ m - 1 + 1 = m /\ m <= Len(frames)
        /\ ~ Good(m)
    BY <1>1, <2>2
  <2>4. Good(m - 1)
    BY <2>1, <2>3
  <2>5. part(m) = Append(part(m - 1), frames[m]) /\ frames[m] \in Int /\ part(m - 1) \in Seq(Int)
    <3>1. 0 <= m - 1 /\ m - 1 + 1 <= Len(frames)
      BY <2>3
    <3> QED
      BY <2>3, <3>1, OneMore
  <2>6. PICK cuts : Reduced(after(m - 1), s \o part(m - 1), cuts)
    BY <2>4 DEF Good
  <2>7. after(m - 1) \in Reducers
    BY <1>2, <2>3
  <2> HIDE DEF part
  <2>8. after(m) = AddFrame(after(m - 1), frames[m])
    <3> DEFINE before == part(m - 1)
    <3>1. FoldLeft(AddFrame, r, Append(before, frames[m])) = AddFrame(FoldLeft(AddFrame, r, before), frames[m])
      <4> HIDE DEF before, after
      <4>1. before \in Seq(Int) /\ frames[m] \in Int
        BY <2>5 DEF before
      <4> QED
        BY <4>1, AddEquations
    <3> QED
      BY <2>5, <3>1
  <2>9. s \o part(m) = Append(s \o part(m - 1), frames[m])
    <3> DEFINE before == part(m - 1)
    <3>1. before \in Seq(Int) /\ frames[m] \in Int /\ part(m) = Append(before, frames[m])
      BY <2>5
    <3> HIDE DEF before
    <3>2. s \o Append(before, frames[m]) = Append(s \o before, frames[m])
      BY <1>1, <3>1
    <3> QED
      BY <3>1, <3>2 DEF before
  <2> HIDE DEF after
  <2>10. \E new : Reduced(AddFrame(after(m - 1), frames[m]), Append(s \o part(m - 1), frames[m]), new)
    BY <2>5, <2>6, <2>7, AddFrameReduces
  <2>11. Good(m)
    BY <2>8, <2>9, <2>10 DEF Good
  <2> QED
    BY <2>3, <2>11
<1>4. Good(Len(frames)) /\ after(Len(frames)) \in Reducers
  <2> HIDE DEF Good, after
  <2> QED
    BY <1>1, <1>2, <1>3
<1>5. part(Len(frames)) = frames
  <2>1. part(Len(frames)) \in Seq(Int) /\ Len(part(Len(frames))) = Len(frames)
        /\ \A i \in 1 .. Len(frames) : part(Len(frames))[i] = frames[i]
    BY <1>1, SubSeqProperties
  <2> HIDE DEF part
  <2> QED
    BY <2>1, SeqEqual
<1> HIDE DEF part
<1> QED
  BY <1>4, <1>5

------------------------------------------------------------------------------
(* The end of the stream *)

(* What is true of the aggregates of a whole stream: none is empty, all    *)
(* begin near their multiples of the block, and the end of the stream      *)
(* lacks less than two blocks.                                             *)
Complete(aggs, s, cut, requested, block) ==
  LET n == Len(aggs)
      lack == n * block - Len(s)
  IN  /\ requested \in Nat \ {0} /\ block \in Nat \ {0} /\ n <= 2 * requested
      /\ Covers(aggs, cut, s) /\ cut[n] = Len(s)
      /\ \A i \in 1 .. n : cut[i - 1] < cut[i]
      /\ \A i \in 0 .. n - 1 : Near(i, cut[i], requested, block)
      /\ block - 1 <= lack /\ lack <= 2 * block - 2
      /\ n = requested + 1 => 2 * lack <= 3 * block - 2
      /\ n <= requested \/ Len(s) <= 2 * requested => block = 1

(* Two cuts that are near consecutive multiples differ: no aggregate is    *)
(* empty.                                                                  *)
LEMMA NearsApart ==
  ASSUME NEW i \in Nat \ {0}, NEW a \in Nat, NEW b \in Nat, NEW requested \in Nat,
         NEW block \in Nat \ {0}, Near(i - 1, a, requested, block), Near(i, b, requested, block)
  PROVE  a < b
<1> DEFINE p == i * block
<1>1. (i - 1) * block = p - block /\ p \in Int
  OBVIOUS
<1>2. 0 <= (i - 1) * block - a /\ p - b < block
  BY DEF Near
<1> HIDE DEF p
<1> QED
  BY <1>1, <1>2

(* Without a halving the stream is short, and the other way round. *)
LEMMA ShortIfWhole ==
  ASSUME ReducerAssumption, NEW r \in Reducers, NEW s, NEW cut, Standing(r, s, cut),
         Len(r.aggregates) <= r.requested_bins \/ Len(s) <= 2 * r.requested_bins
  PROVE  r.block_frames = 1
<1> DEFINE n == Len(r.aggregates)
           block == r.block_frames
           requested == r.requested_bins
<1>1. /\ n \in Nat /\ requested \in Nat \ {0} /\ block \in Nat \ {0} /\ Len(s) \in Nat
      /\ cut[n] \in Nat /\ cut[n] <= Len(s)
      /\ n * block - cut[n] = block - 1
      /\ block = 1 \/ requested < n
  BY Remainder DEF Standing
<1>2. n <= requested \/ Len(s) <= 2 * requested
  OBVIOUS
<1> HIDE DEF n, block, requested
<1> SUFFICES ASSUME block # 1 PROVE FALSE
  BY DEF block
<1>3. requested <= n - 1 /\ 2 <= block /\ n - 1 \in Nat
  BY <1>1
<1>4. requested * 2 <= (n - 1) * block
  <2>1. requested * 2 <= (n - 1) * 2 /\ (n - 1) * 2 <= (n - 1) * block
    BY <1>1, <1>3, ProductGrows
  <2> QED
    BY <1>1, <1>3, <2>1
<1>5. (n - 1) * block = n * block - block /\ n * block \in Int
  BY <1>1
<1> QED
  BY <1>1, <1>2, <1>3, <1>4, <1>5

(* What has to be looked at when the last aggregate is flushed. *)
LEMMA CompleteWhen ==
  ASSUME NEW aggs, NEW s, NEW cut, NEW requested \in Nat \ {0}, NEW block \in Nat \ {0},
         NEW n \in Nat, n = Len(aggs), n <= 2 * requested,
         Covers(aggs, cut, s), cut[n] = Len(s), n = 0 \/ cut[n - 1] < cut[n],
         \A i \in 0 .. n - 1 : Near(i, cut[i], requested, block),
         block - 1 <= n * block - Len(s), n * block - Len(s) <= 2 * block - 2,
         n = requested + 1 => 2 * (n * block - Len(s)) <= 3 * block - 2,
         n <= requested \/ Len(s) <= 2 * requested => block = 1
  PROVE  Complete(aggs, s, cut, requested, block)
<1>1. ASSUME NEW i \in 1 .. n PROVE cut[i - 1] < cut[i]
  <2>1. CASE i = n
    BY <2>1
  <2>2. CASE i # n
    <3>1. /\ i - 1 \in 0 .. n - 1 /\ i \in 0 .. n - 1 /\ i - 1 \in 0 .. n /\ i \in 0 .. n
          /\ i \in Nat \ {0}
      BY <2>2
    <3>2. cut[i - 1] \in Nat /\ cut[i] \in Nat
      BY <3>1 DEF Covers
    <3>3. Near(i - 1, cut[i - 1], requested, block) /\ Near(i, cut[i], requested, block)
      BY <3>1
    <3> QED
      BY <3>1, <3>2, <3>3, NearsApart
  <2> QED
    BY <2>1, <2>2
<1> QED
  BY <1>1 DEF Complete

(* The flush at the end of a stream completes the aggregates, with a last  *)
(* one that may be short, or with none.                                    *)
LEMMA FlushCompletes ==
  ASSUME ReducerAssumption, NEW r \in Reducers, NEW s, NEW cut, Reduced(r, s, cut)
  PROVE  /\ FlushPending(r).requested_bins = r.requested_bins
         /\ \E cuts : Complete(FlushPending(r).aggregates, s, cuts, r.requested_bins,
                               FlushPending(r).block_frames)
<1> DEFINE n == Len(r.aggregates)
           block == r.block_frames
           requested == r.requested_bins
           f == FlushPending(r)
<1>1. /\ n \in Nat /\ requested \in Nat \ {0} /\ block \in Nat \ {0} /\ Len(s) \in Nat
      /\ cut[n] \in Nat /\ cut[n] <= Len(s) /\ r.pending.frame_count = Len(s) - cut[n]
      /\ n * block - cut[n] = block - 1 /\ Len(s) - cut[n] < block
      /\ block = 1 \/ requested < n
      /\ n <= 2 * requested /\ Covers(r.aggregates, cut, s) /\ Standing(r, s, cut)
      /\ \A i \in 0 .. n : Near(i, cut[i], requested, block)
  BY Remainder DEF Reduced, Standing
<1>2. n <= requested \/ Len(s) <= 2 * requested => block = 1
  BY <1>1, ShortIfWhole
<1>3. CASE cut[n] = Len(s)
  <2>1. f = r
    BY <1>1, <1>3 DEF FlushPending
  <2>2. \A i \in 0 .. n - 1 : Near(i, cut[i], requested, block)
    BY <1>1
  <2>3. n = 0 \/ cut[n - 1] < cut[n]
    <3> SUFFICES ASSUME n # 0 PROVE cut[n - 1] < cut[n]
      OBVIOUS
    <3>1. n \in Nat \ {0} /\ n - 1 \in 0 .. n /\ n \in 0 .. n
      BY <1>1
    <3>2. cut[n - 1] \in Nat
      BY <1>1, <3>1 DEF Covers
    <3>3. Near(n - 1, cut[n - 1], requested, block) /\ Near(n, cut[n], requested, block)
      BY <1>1, <3>1
    <3> HIDE DEF n, block, requested
    <3> QED
      BY <1>1, <3>1, <3>2, <3>3, NearsApart
  <2>4. /\ block - 1 <= n * block - Len(s) /\ n * block - Len(s) <= 2 * block - 2
        /\ 2 * (n * block - Len(s)) <= 3 * block - 2
    <3> HIDE DEF n, block, requested
    <3> QED
      BY <1>1, <1>3
  <2>5. Complete(r.aggregates, s, cut, requested, block)
    BY <1>1, <1>2, <1>3, <2>2, <2>3, <2>4, CompleteWhen
  <2> QED
    BY <2>1, <2>5
<1>4. CASE cut[n] # Len(s)
  <2>1. cut[n] < Len(s) /\ 2 <= block /\ requested < n
    <3> HIDE DEF n, block, requested
    <3> QED
      BY <1>1, <1>4
  <2>2. PICK cuts : \/ n < 2 * requested /\ Kept(f, r, s, cut, cuts)
                    \/ n = 2 * requested /\ Halved(f, r, s, cut, cuts)
    BY <1>1, <2>1, FlushStanding
  <2>3. CASE n < 2 * requested /\ Kept(f, r, s, cut, cuts)
    <3>1. /\ Covers(f.aggregates, cuts, s) /\ Len(f.aggregates) = n + 1
          /\ f = [r EXCEPT !.aggregates = f.aggregates, !.pending = Empty]
          /\ cuts[n + 1] = Len(s) /\ \A i \in 0 .. n : cuts[i] = cut[i]
      BY <2>3 DEF Kept
    <3>2. f.requested_bins = requested /\ f.block_frames = block
      BY <3>1 DEF Reducers
    <3> HIDE DEF n, block, requested, f
    <3>3. ASSUME NEW i \in 0 .. (n + 1) - 1 PROVE Near(i, cuts[i], requested, block)
      <4>1. i \in 0 .. n
        BY <1>1
      <4>2. cuts[i] = cut[i] /\ Near(i, cut[i], requested, block)
        BY <1>1, <3>1, <4>1
      <4> QED
        BY <4>2
    <3>4. cuts[(n + 1) - 1] < cuts[n + 1]
      <4>1. (n + 1) - 1 = n /\ n \in 0 .. n
        BY <1>1
      <4>2. cuts[n] = cut[n] /\ cuts[n + 1] = Len(s)
        BY <3>1, <4>1
      <4> QED
        BY <2>1, <4>1, <4>2
    <3>5. /\ block - 1 <= (n + 1) * block - Len(s)
          /\ (n + 1) * block - Len(s) <= 2 * block - 2
      <4> DEFINE p == n * block
      <4>1. (n + 1) * block = p + block /\ p \in Int /\ p - cut[n] = block - 1
        BY <1>1
      <4> HIDE DEF p
      <4> QED
        BY <1>1, <2>1, <4>1
    <3>6. n + 1 \in Nat /\ n + 1 <= 2 * requested /\ n + 1 # requested + 1 /\ ~ (n + 1 <= requested)
      BY <1>1, <2>1, <2>3
    <3>7. Complete(f.aggregates, s, cuts, requested, block)
      BY <1>1, <1>2, <3>1, <3>3, <3>4, <3>5, <3>6, CompleteWhen
    <3> QED
      BY <3>2, <3>7 DEF f, requested, block
  <2>4. CASE n = 2 * requested /\ Halved(f, r, s, cut, cuts)
    <3>1. /\ Covers(f.aggregates, cuts, s) /\ Len(f.aggregates) = requested + 1
          /\ f = [r EXCEPT !.aggregates = f.aggregates, !.pending = Empty,
                           !.block_frames = 2 * block]
          /\ cuts[requested + 1] = Len(s) /\ \A i \in 0 .. requested : cuts[i] = cut[2 * i]
      BY <2>4 DEF Halved
    <3>2. f.requested_bins = requested /\ f.block_frames = 2 * block
      BY <3>1 DEF Reducers
    <3> HIDE DEF n, block, requested, f
    <3>3. ASSUME NEW i \in 0 .. (requested + 1) - 1
          PROVE  Near(i, cuts[i], requested, 2 * block)
      <4>1. i \in 0 .. requested /\ 2 * i \in 0 .. n /\ i \in Nat
        BY <1>1, <2>4
      <4>2. cuts[i] = cut[2 * i] /\ Near(2 * i, cut[2 * i], requested, block)
        BY <1>1, <3>1, <4>1
      <4>3. cut[2 * i] \in Nat
        BY <1>1, <4>1 DEF Covers, n
      <4> QED
        BY <1>1, <4>1, <4>2, <4>3, NearHalved
    <3>4. cuts[(requested + 1) - 1] < cuts[requested + 1]
      <4>1. cuts[requested] = cut[n] /\ (requested + 1) - 1 = requested
        <5>1. \A i \in 0 .. requested : cuts[i] = cut[2 * i]
          BY <3>1
        <5>2. requested \in 0 .. requested /\ n = 2 * requested /\ (requested + 1) - 1 = requested
          BY <1>1, <2>4
        <5> QED
          BY <5>1, <5>2, Zenon
      <4> QED
        BY <2>1, <3>1, <4>1
    <3>5. /\ 2 * block - 1 <= (requested + 1) * (2 * block) - Len(s)
          /\ (requested + 1) * (2 * block) - Len(s) <= 2 * (2 * block) - 2
          /\ 2 * ((requested + 1) * (2 * block) - Len(s)) <= 3 * (2 * block) - 2
      <4> DEFINE p == requested * block
      <4>1. (requested + 1) * (2 * block) = 2 * p + 2 * block /\ p \in Int /\ 2 * p - cut[n] = block - 1
        <5>1. n * block = 2 * p
          BY <1>1, <2>4
        <5>2. (requested + 1) * (2 * block) = 2 * p + 2 * block /\ p \in Int
          BY <1>1
        <5> HIDE DEF p
        <5> QED
          BY <1>1, <5>1, <5>2
      <4> HIDE DEF p
      <4> QED
        BY <1>1, <2>1, <4>1
    <3>6. /\ requested + 1 \in Nat /\ requested + 1 <= 2 * requested
          /\ ~ (requested + 1 <= requested) /\ ~ (Len(s) <= 2 * requested)
          /\ 2 * block \in Nat \ {0}
      BY <1>1, <1>2, <2>1
    <3>7. Complete(f.aggregates, s, cuts, requested, 2 * block)
      BY <1>1, <3>1, <3>3, <3>4, <3>5, <3>6, CompleteWhen
    <3> QED
      BY <3>2, <3>7 DEF f, requested
  <2> QED
    BY <2>2, <2>3, <2>4
<1> QED
  BY <1>3, <1>4

------------------------------------------------------------------------------
(* The bins in their place *)

(* A quotient and its remainder. *)
LEMMA Division ==
  ASSUME NEW a \in Nat, NEW b \in Nat \ {0}
  PROVE  /\ a \div b \in Nat /\ b * (a \div b) <= a /\ a < b * (a \div b) + b
         /\ \A q \in Int : b * q <= a /\ a < b * q + b => q = a \div b
<1> DEFINE d == a \div b
<1>1. d \in Int /\ b * d <= a /\ a < b * d + b
  OBVIOUS
<1> HIDE DEF d
<1>2. ASSUME NEW q \in Int, NEW p \in Int, b * q <= a, a < b * p + b PROVE q <= p
  <2> SUFFICES ASSUME p + 1 <= q PROVE FALSE
    BY <1>2
  <2>1. (p + 1) * b <= q * b
    BY ProductGrows
  <2>2. (p + 1) * b = b * p + b /\ q * b = b * q /\ b * p \in Int /\ b * q \in Int
    OBVIOUS
  <2> QED
    BY <1>2, <2>1, <2>2
<1>3. d \in Nat
  <2>1. 0 <= d
    BY <1>1, <1>2
  <2> QED
    BY <1>1, <2>1
<1>4. ASSUME NEW q \in Int, b * q <= a, a < b * q + b PROVE q = d
  <2>1. q <= d /\ d <= q
    BY <1>1, <1>2, <1>4
  <2> QED
    BY <1>1, <2>1
<1> QED
  BY <1>1, <1>3, <1>4 DEF d

(* Bin j + 1 of r begins at the cut of aggregate a, where j * n is a times *)
(* r and a rest; the stream of that many frames ends e before its last     *)
(* multiple of the block.                                                  *)
Placed(r, block, n, j, a, rest, at, frames) ==
  /\ r \in Nat \ {0} /\ block \in Nat \ {0} /\ n \in Nat /\ r < n /\ n <= 2 * r
  /\ j \in Nat /\ j < r /\ a \in Nat /\ rest \in Nat /\ rest < r /\ r * a + rest = j * n
  /\ at \in Nat /\ frames \in Nat \ {0} /\ Near(a, at, r, block)
  /\ block - 1 <= n * block - frames /\ n * block - frames <= 2 * block - 2
  /\ n = r + 1 => 2 * (n * block - frames) <= 3 * block - 2

(* How far a bin begins from its place, in terms of the aggregates before  *)
(* it, the rest and the two lacks.                                         *)
LEMMA PlacedParts ==
  ASSUME NEW r, NEW block, NEW n, NEW j, NEW a, NEW rest, NEW at, NEW frames,
         Placed(r, block, n, j, a, rest, at, frames), j # 0,
         NEW m, m = n - r, NEW q, q = a - j, NEW d, d = a * block - at, NEW e, e = n * block - frames
  PROVE  /\ m \in Nat \ {0} /\ q \in Nat /\ q + 1 <= m /\ j * m = r * q + rest
         /\ d \in Nat /\ e \in Nat
         /\ at * r - j * frames = j * e - r * d - rest * block
<1>0. /\ r \in Nat \ {0} /\ block \in Nat \ {0} /\ n \in Nat /\ r < n /\ n <= 2 * r
      /\ j \in Nat \ {0} /\ j < r /\ a \in Nat /\ rest \in Nat /\ rest < r /\ r * a + rest = j * n
      /\ at \in Nat /\ frames \in Nat \ {0} /\ block - 1 <= n * block - frames
      /\ 0 <= a * block - at
  BY DEF Placed, Near
<1>1. m \in Nat \ {0} /\ n = r + m /\ q \in Int /\ a = j + q
  BY <1>0
<1>2. j * m = r * q + rest
  <2>1. r * (j + q) + rest = j * (r + m)
    BY <1>0, <1>1
  <2>2. r * (j + q) = r * j + r * q /\ j * (r + m) = r * j + j * m
        /\ r * j \in Int /\ r * q \in Int /\ j * m \in Int
    BY <1>0, <1>1
  <2> QED
    BY <1>0, <2>1, <2>2
<1>3. r * q \in Int /\ j * m \in Int /\ 1 <= j * m /\ j * m <= (r - 1) * m /\ (r - 1) * m = r * m - m
      /\ r * m \in Int
  <2>1. 1 * m <= j * m /\ j * m <= (r - 1) * m
    BY <1>0, <1>1, ProductGrows
  <2> QED
    BY <1>0, <1>1, <2>1
<1>4. q <= m - 1
  <2> SUFFICES ASSUME m <= q PROVE FALSE
    BY <1>0, <1>1
  <2>1. r * m <= r * q
    BY <1>0, <1>1, ProductGrows
  <2> QED
    BY <1>0, <1>1, <1>2, <1>3, <2>1
<1>5. 0 <= q
  <2> SUFFICES ASSUME q <= -1 PROVE FALSE
    BY <1>0, <1>1
  <2>1. r * q <= r * (-1) /\ r * (-1) = -r
    BY <1>0, <1>1, ProductGrows
  <2> QED
    BY <1>0, <1>2, <1>3, <2>1
<1>6. at * r - j * frames = j * e - r * d - rest * block
  <2> DEFINE x == r * (a * block)
             y == j * (n * block)
  <2>1. x + rest * block = y
    <3>1. (r * a + rest) * block = (j * n) * block
      BY <1>0
    <3>2. (r * a + rest) * block = x + rest * block /\ (j * n) * block = y
      BY <1>0
    <3> QED
      BY <3>1, <3>2
  <2>2. r * d = x - at * r
    BY <1>0
  <2>3. j * e = y - j * frames
    BY <1>0
  <2>4. x \in Int /\ y \in Int /\ at * r \in Int /\ j * frames \in Int /\ rest * block \in Int
    BY <1>0
  <2> HIDE DEF x, y
  <2> QED
    BY <2>1, <2>2, <2>3, <2>4
<1> QED
  BY <1>0, <1>1, <1>2, <1>4, <1>5, <1>6

(* No bin begins a whole bin early. *)
LEMMA NotTooEarly ==
  ASSUME NEW r, NEW block, NEW n, NEW j, NEW a, NEW rest, NEW at, NEW frames,
         Placed(r, block, n, j, a, rest, at, frames)
  PROVE  -(at * r - j * frames) < frames
<1> DEFINE m == n - r
           q == a - j
           d == a * block - at
           e == n * block - frames
<1>0. /\ r \in Nat \ {0} /\ block \in Nat \ {0} /\ n \in Nat /\ j \in Nat /\ a \in Nat
      /\ rest \in Nat /\ rest < r /\ at \in Nat /\ frames \in Nat \ {0}
      /\ block - 1 <= e /\ r * d <= a * (block - 1) /\ 0 <= d
  BY DEF Placed, Near
<1>1. CASE j = 0
  <2>1. at * r \in Nat /\ j * frames = 0
    BY <1>0, <1>1
  <2> QED
    BY <1>0, <2>1
<1>2. CASE j # 0
  <2>1. /\ m \in Nat \ {0} /\ q \in Nat /\ q + 1 <= m /\ d \in Nat /\ e \in Nat
        /\ at * r - j * frames = j * e - r * d - rest * block
    <3> HIDE DEF m, q, d, e
    <3> QED
      BY <1>2, PlacedParts DEF m, q, d, e
  <2>2. a = j + q /\ n = r + m /\ frames = n * block - e
    BY <1>0
  <2> HIDE DEF m, q, d, e
  <2>3. rest * block <= (r - 1) * block
    BY <1>0, ProductGrows
  <2>4. (q + 1) * (block - 1) <= m * (block - 1)
    BY <1>0, <2>1, ProductGrows
  <2>5. (j - 1) * (block - 1) <= (j - 1) * e
    BY <1>0, <1>2, <2>1, ProductGrows
  <2> DEFINE jb == j * block
             qb == q * block
             rb == r * block
             mb == m * block
             sb == rest * block
             je == j * e
             rd == r * d
  <2>6. /\ (r - 1) * block = rb - block
        /\ (q + 1) * (block - 1) = qb + block - q - 1
        /\ m * (block - 1) = mb - m
        /\ (j - 1) * (block - 1) = jb - j - block + 1
        /\ (j - 1) * e = je - e
        /\ a * (block - 1) = jb + qb - j - q
        /\ n * block = rb + mb
    BY <1>0, <2>1, <2>2
  <2>7. /\ jb \in Int /\ qb \in Int /\ rb \in Int /\ mb \in Int /\ sb \in Int /\ je \in Int
        /\ rd \in Int
    BY <1>0, <2>1
  <2>8. /\ sb <= rb - block /\ qb + block - q - 1 <= mb - m /\ jb - j - block + 1 <= je - e
        /\ rd <= jb + qb - j - q
        /\ frames = rb + mb - e /\ at * r - j * frames = je - rd - sb
    BY <1>0, <2>1, <2>2, <2>3, <2>4, <2>5, <2>6
  <2> HIDE DEF jb, qb, rb, mb, sb, je, rd
  <2>9. -(je - rd - sb) < rb + mb - e
    BY <1>0, <2>1, <2>7, <2>8
  <2> QED
    BY <2>8, <2>9
<1> QED
  BY <1>1, <1>2

(* No bin begins a bin and a half late. *)
LEMMA NotTooLate ==
  ASSUME NEW r, NEW block, NEW n, NEW j, NEW a, NEW rest, NEW at, NEW frames,
         Placed(r, block, n, j, a, rest, at, frames)
  PROVE  2 * (at * r - j * frames) < 3 * frames
<1> DEFINE m == n - r
           q == a - j
           d == a * block - at
           e == n * block - frames
<1>0. /\ r \in Nat \ {0} /\ block \in Nat \ {0} /\ n \in Nat /\ j \in Nat /\ j < r /\ a \in Nat
      /\ rest \in Nat /\ rest < r /\ at \in Nat /\ frames \in Nat \ {0}
      /\ r * a + rest = j * n
      /\ e <= 2 * block - 2 /\ (n = r + 1 => 2 * e <= 3 * block - 2)
      /\ 0 <= d /\ d < block /\ a * block <= 2 * (r + 1) * (d + 1)
  BY DEF Placed, Near
<1>1. CASE j = 0
  <2>1. r * a <= 0
    BY <1>0, <1>1
  <2>2. a = 0
    <3> SUFFICES ASSUME 1 <= a PROVE FALSE
      BY <1>0
    <3>1. r * 1 <= r * a
      BY <1>0, ProductGrows
    <3> QED
      BY <1>0, <2>1, <3>1
  <2>3. at = 0
    BY <1>0, <2>2
  <2> QED
    BY <1>0, <1>1, <2>3
<1>2. CASE j # 0
  <2>1. /\ m \in Nat \ {0} /\ q \in Nat /\ d \in Nat /\ e \in Nat /\ j * m = r * q + rest
        /\ at * r - j * frames = j * e - r * d - rest * block
    <3> HIDE DEF m, q, d, e
    <3> QED
      BY <1>2, PlacedParts DEF m, q, d, e
  <2>2. a = j + q /\ n = r + m /\ frames = n * block - e
    BY <1>0
  <2> HIDE DEF m, q, d, e
  <2> DEFINE jb == j * block
             qb == q * block
             rb == r * block
             mb == m * block
             sb == rest * block
             je == j * e
             rd == r * d
  <2>3. /\ jb \in Int /\ qb \in Nat /\ rb \in Int /\ mb \in Int /\ sb \in Nat /\ je \in Int
        /\ rd \in Nat
    BY <1>0, <2>1
  <2>4. /\ n * block = rb + mb /\ a * block = jb + qb
        /\ 2 * (r + 1) * (d + 1) = 2 * rd + 2 * r + 2 * d + 2
    BY <1>0, <2>1, <2>2
  <2>5. /\ frames = rb + mb - e /\ at * r - j * frames = je - rd - sb
        /\ jb + qb <= 2 * rd + 2 * r + 2 * d + 2
    BY <1>0, <2>1, <2>2, <2>4
  <2>6. CASE m # 1
    <3> DEFINE k == r - 1 - j
               kb == k * block
    <3>1. k \in Nat /\ 0 <= kb /\ k <= kb /\ kb \in Int
      <4>1. k \in Nat
        BY <1>0
      <4> HIDE DEF k
      <4>2. k * 1 <= k * block
        BY <1>0, <4>1, ProductGrows
      <4> QED
        BY <1>0, <4>1, <4>2
    <3>2. rb = jb + block + kb /\ r = j + 1 + k
      BY <1>0
    <3>3. 2 * block <= mb
      <4>1. 2 * block <= m * block
        BY <1>0, <2>1, <2>6, ProductGrows
      <4> QED
        BY <4>1
    <3>4. je <= 2 * jb - 2 * j
      <4>1. j * e <= j * (2 * block - 2)
        BY <1>0, <2>1, ProductGrows
      <4>2. j * (2 * block - 2) = 2 * jb - 2 * j
        BY <1>0
      <4> QED
        BY <4>1, <4>2
    <3> HIDE DEF jb, qb, rb, mb, sb, je, rd, k, kb
    <3>5. 2 * (je - rd - sb) < 3 * (rb + mb - e)
      <4>1. 2 * rd >= jb + qb - 2 * r - 2 * (block - 1) - 2
        BY <1>0, <2>1, <2>3, <2>5
      <4>2. 2 * je + 3 * e <= 4 * jb - 4 * j + 6 * block - 6
        BY <1>0, <2>1, <2>3, <3>4
      <4>3. 2 * je + 3 * e < 3 * rb + 3 * mb + 2 * sb + 2 * rd
        BY <1>0, <2>1, <2>3, <3>1, <3>2, <3>3, <4>1, <4>2
      <4> QED
        BY <2>1, <2>3, <4>3
    <3> QED
      BY <2>5, <3>5
  <2>7. CASE m = 1
    <3>1. q = 0 /\ rest = j
      <4>1. r * q + rest = j
        BY <1>0, <2>1, <2>7
      <4>2. q = 0
        <5> SUFFICES ASSUME 1 <= q PROVE FALSE
          BY <2>1
        <5>1. r * 1 <= r * q
          BY <1>0, <2>1, ProductGrows
        <5>2. r * q \in Int
          BY <1>0, <2>1
        <5> QED
          BY <1>0, <4>1, <5>1, <5>2
      <4> QED
        BY <1>0, <4>1, <4>2
    <3>2. sb = jb /\ mb = block
      BY <1>0, <2>7, <3>1
    <3>3. jb + block <= rb /\ j <= jb
      <4>1. (j + 1) * block <= r * block /\ j * 1 <= j * block
        BY <1>0, ProductGrows
      <4>2. (j + 1) * block = jb + block
        BY <1>0
      <4> QED
        BY <1>0, <4>1, <4>2
    <3>4. 2 * je <= 3 * jb - 2 * j /\ 2 * e <= 3 * block - 2
      <4>1. 2 * e <= 3 * block - 2
        BY <1>0, <2>2, <2>7
      <4>2. j * (2 * e) <= j * (3 * block - 2)
        BY <1>0, <2>1, <4>1, ProductGrows
      <4>3. j * (3 * block - 2) = 3 * jb - 2 * j /\ j * (2 * e) = 2 * je
        BY <1>0, <2>1
      <4> QED
        BY <4>1, <4>2, <4>3
    <3> HIDE DEF jb, qb, rb, mb, sb, je, rd
    <3>5. 2 * (je - rd - sb) < 3 * (rb + mb - e)
      BY <1>0, <2>1, <2>3, <3>2, <3>3, <3>4
    <3> QED
      BY <2>5, <3>5
  <2> QED
    BY <2>6, <2>7
<1> QED
  BY <1>1, <1>2

(* Where the share of the first k of count bins ends. *)
Edge(k, n, count) == (k * n) \div count

BinCuts(cut, n, count) == [k \in 0 .. count |-> cut[Edge(k, n, count)]]

(* The shares of the bins partition the aggregates, none of them empty. *)
LEMMA EdgesInOrder ==
  ASSUME NEW n \in Nat, NEW count \in Nat \ {0}, count <= n
  PROVE  /\ Edge(0, n, count) = 0 /\ Edge(count, n, count) = n
         /\ \A k \in 0 .. count : Edge(k, n, count) \in 0 .. n
         /\ \A k \in 1 .. count : Edge(k - 1, n, count) < Edge(k, n, count)
<1>1. ASSUME NEW k \in Nat
      PROVE  /\ Edge(k, n, count) \in Nat /\ count * Edge(k, n, count) <= k * n
             /\ k * n < count * Edge(k, n, count) + count
             /\ \A q \in Int : count * q <= k * n /\ k * n < count * q + count => q = Edge(k, n, count)
  <2>1. k * n \in Nat
    OBVIOUS
  <2> DEFINE p == k * n
  <2> HIDE DEF p
  <2>2. /\ p \div count \in Nat /\ count * (p \div count) <= p /\ p < count * (p \div count) + count
        /\ \A q \in Int : count * q <= p /\ p < count * q + count => q = p \div count
    <3>1. p \in Nat
      BY <2>1 DEF p
    <3> QED
      BY <3>1, Division
  <2> QED
    BY <2>2 DEF p, Edge
<1>2. Edge(0, n, count) = 0
  <2>1. count * 0 <= 0 * n /\ 0 * n < count * 0 + count
    OBVIOUS
  <2> QED
    BY <1>1, <2>1
<1>3. Edge(count, n, count) = n
  <2>1. count * n <= count * n /\ count * n < count * n + count
    OBVIOUS
  <2> QED
    BY <1>1, <2>1
<1>4. ASSUME NEW k \in 1 .. count PROVE Edge(k - 1, n, count) < Edge(k, n, count)
  <2> DEFINE x == Edge(k - 1, n, count)
             y == Edge(k, n, count)
             p == k * n
  <2>1. k - 1 \in Nat /\ k \in Nat /\ (k - 1) * n = p - n /\ p \in Int
    OBVIOUS
  <2>2. x \in Nat /\ y \in Nat /\ count * x <= p - n /\ p < count * y + count
    BY <1>1, <2>1
  <2> HIDE DEF x, y, p
  <2>3. x < y
    <3> SUFFICES ASSUME y <= x PROVE FALSE
      BY <2>2
    <3>1. count * y <= count * x
      BY <2>2, ProductGrows
    <3>2. count * y \in Int /\ count * x \in Int
      BY <2>2
    <3> QED
      BY <2>1, <2>2, <3>1, <3>2
  <2> QED
    BY <2>3 DEF x, y
<1>5. ASSUME NEW k \in 0 .. count PROVE Edge(k, n, count) \in 0 .. n
  <2> DEFINE y == Edge(k, n, count)
  <2>1. y \in Nat /\ count * y <= k * n /\ k \in Nat
    BY <1>1
  <2> HIDE DEF y
  <2>2. y <= n
    <3> SUFFICES ASSUME n + 1 <= y PROVE FALSE
      BY <2>1
    <3>1. count * (n + 1) <= count * y /\ k * n <= count * n
      BY <2>1, ProductGrows
    <3>2. count * (n + 1) = count * n + count /\ count * n \in Int /\ count * y \in Int /\ k * n \in Int
      BY <2>1
    <3> QED
      BY <2>1, <3>1, <3>2
  <2> QED
    BY <2>1, <2>2 DEF y
<1> QED
  BY <1>2, <1>3, <1>4, <1>5

(* Later cuts of a complete stream are further on. *)
LEMMA CutsApart ==
  ASSUME NEW aggs, NEW s, NEW cut, NEW requested, NEW block, Complete(aggs, s, cut, requested, block),
         NEW lo \in 0 .. Len(aggs), NEW hi \in 0 .. Len(aggs), lo < hi
  PROVE  cut[lo] \in Nat /\ cut[hi] \in Nat /\ cut[lo] < cut[hi] /\ cut[hi] <= Len(s)
<1>1. Covers(aggs, cut, s) /\ Len(aggs) \in Nat /\ Len(s) \in Nat
      /\ \A i \in 1 .. Len(aggs) : cut[i - 1] < cut[i]
  BY DEF Complete, Covers
<1>2. hi \in 1 .. Len(aggs) /\ hi - 1 \in 0 .. Len(aggs) /\ lo <= hi - 1 /\ hi <= hi
  BY <1>1
<1>3. cut[lo] \in Nat /\ cut[hi - 1] \in Nat /\ cut[lo] <= cut[hi - 1]
  BY <1>1, <1>2, CutsGrow
<1>4. cut[hi] \in Nat /\ cut[hi] <= Len(s)
  BY <1>1, <1>2, CutsGrow
<1>5. cut[hi - 1] < cut[hi]
  BY <1>1, <1>2
<1> QED
  BY <1>3, <1>4, <1>5

(* What finish makes of the aggregates. *)
BinsOf(aggs, count) == [bin \in 1 .. count |-> FoldLeft(Combine, Empty, Share(aggs, bin, count))]

(* The bins cover the stream, none of them empty. *)
LEMMA SharesCover ==
  ASSUME ReducerAssumption, NEW aggs, NEW s, NEW cut, NEW requested, NEW block,
         Complete(aggs, s, cut, requested, block), NEW count \in Nat \ {0}, count <= Len(aggs)
  PROVE  LET cuts == BinCuts(cut, Len(aggs), count)
         IN  /\ Covers(BinsOf(aggs, count), cuts, s) /\ Len(BinsOf(aggs, count)) = count
             /\ cuts[count] = Len(s)
             /\ \A k \in 1 .. count : cuts[k - 1] < cuts[k]
<1> DEFINE n == Len(aggs)
           cuts == BinCuts(cut, n, count)
           made == BinsOf(aggs, count)
<1>1. /\ n \in Nat /\ Covers(aggs, cut, s) /\ aggs \in Seq(Reached) /\ s \in Seq(Int) /\ cut[0] = 0
      /\ cut[n] = Len(s) /\ Len(s) \in Nat
  BY DEF Complete, Covers
<1>2. /\ Edge(0, n, count) = 0 /\ Edge(count, n, count) = n
      /\ \A k \in 0 .. count : Edge(k, n, count) \in 0 .. n
      /\ \A k \in 1 .. count : Edge(k - 1, n, count) < Edge(k, n, count)
  BY <1>1, EdgesInOrder
<1>3. ASSUME NEW k \in 0 .. count PROVE cuts[k] = cut[Edge(k, n, count)] /\ cuts[k] \in Nat
  <2>1. cut[Edge(k, n, count)] \in Nat
    BY <1>1, <1>2 DEF Covers
  <2> QED
    BY <2>1 DEF BinCuts
<1>4. ASSUME NEW k \in 1 .. count
      PROVE  /\ cuts[k - 1] < cuts[k] /\ made[k] = Summary(SubSeq(s, cuts[k - 1] + 1, cuts[k]))
             /\ made[k] \in Reached
  <2> DEFINE lo == Edge(k - 1, n, count)
             hi == Edge(k, n, count)
  <2>1. k - 1 \in 0 .. count /\ k \in 0 .. count
    OBVIOUS
  <2>2. lo \in 0 .. n /\ hi \in 0 .. n /\ lo < hi /\ cuts[k - 1] = cut[lo] /\ cuts[k] = cut[hi]
    BY <1>2, <1>3, <2>1
  <2>3. made[k] = Merged(SubSeq(aggs, lo + 1, hi))
    BY DEF BinsOf, Share, Merged, Edge
  <2> HIDE DEF lo, hi, n, cuts, made
  <2>4. lo \in 0 .. Len(aggs) /\ hi \in 0 .. Len(aggs) /\ lo <= hi
    BY <1>1, <2>2 DEF n
  <2>5. cut[lo] < cut[hi] /\ cut[lo] \in Nat /\ cut[hi] \in Nat /\ cut[hi] <= Len(s)
    BY <2>2, <2>4, CutsApart
  <2>6. Merged(SubSeq(aggs, lo + 1, hi)) = Summary(SubSeq(s, cut[lo] + 1, cut[hi]))
    BY <1>1, <2>4, MergedPiece
  <2>7. Summary(SubSeq(s, cut[lo] + 1, cut[hi])) \in Reached
    BY <1>1, <2>5, SummaryCount
  <2> QED
    BY <2>2, <2>3, <2>5, <2>6, <2>7
<1>5. made \in Seq(Reached) /\ Len(made) = count
  <2> DEFINE share(k) == FoldLeft(Combine, Empty, Share(aggs, k, count))
  <2>1. made = [k \in 1 .. count |-> share(k)]
    BY DEF BinsOf
  <2>2. \A k \in 1 .. count : share(k) \in Reached
    BY <1>4, <2>1
  <2> HIDE DEF share, made
  <2> QED
    BY <2>1, <2>2
<1>6. cuts \in [0 .. count -> Nat]
  BY <1>3 DEF BinCuts
<1>7. cuts[0] = 0 /\ cuts[count] = Len(s)
  BY <1>1, <1>2, <1>3
<1> HIDE DEF cuts, made, n
<1>8. \A k \in 1 .. count : cuts[k - 1] <= cuts[k]
  <2>1. ASSUME NEW k \in 1 .. count PROVE cuts[k - 1] <= cuts[k]
    <3>1. cuts[k - 1] \in Nat /\ cuts[k] \in Nat
      BY <1>6
    <3> QED
      BY <1>4, <3>1
  <2> QED
    BY <2>1
<1>9. Covers(made, cuts, s)
  BY <1>1, <1>4, <1>5, <1>6, <1>7, <1>8 DEF Covers
<1> QED
  BY <1>4, <1>5, <1>7, <1>9 DEF cuts, made, n

(* Blocks of one frame: every aggregate is a frame. *)
LEMMA WholeCuts ==
  ASSUME NEW aggs, NEW s, NEW cut, NEW requested, Complete(aggs, s, cut, requested, 1)
  PROVE  Len(s) = Len(aggs) /\ \A i \in 0 .. Len(aggs) : cut[i] = i
<1>1. /\ Len(aggs) \in Nat /\ Len(s) \in Nat /\ cut[Len(aggs)] = Len(s)
      /\ 0 <= Len(aggs) * 1 - Len(s) /\ Len(aggs) * 1 - Len(s) <= 0
      /\ \A i \in 0 .. Len(aggs) - 1 : Near(i, cut[i], requested, 1)
      /\ \A i \in 0 .. Len(aggs) : cut[i] \in Nat
  <2>1. /\ Len(aggs) \in Nat /\ Len(s) \in Nat /\ cut[Len(aggs)] = Len(s)
        /\ \A i \in 0 .. Len(aggs) : cut[i] \in Nat
    <3>1. Covers(aggs, cut, s) /\ cut[Len(aggs)] = Len(s)
      BY DEF Complete
    <3>2. /\ aggs \in Seq(Reached) /\ s \in Seq(Int) /\ cut \in [0 .. Len(aggs) -> Nat]
      BY <3>1 DEF Covers
    <3>3. Len(aggs) \in Nat /\ Len(s) \in Nat
      BY <3>2
    <3> QED
      BY <3>1, <3>2, <3>3
  <2>2. /\ \A i \in 0 .. Len(aggs) - 1 : Near(i, cut[i], requested, 1)
        /\ 1 - 1 <= Len(aggs) * 1 - Len(s) /\ Len(aggs) * 1 - Len(s) <= 2 * 1 - 2
    BY DEF Complete
  <2> QED
    BY <2>1, <2>2
<1>2. Len(s) = Len(aggs)
  BY <1>1
<1>3. ASSUME NEW i \in 0 .. Len(aggs) PROVE cut[i] = i
  <2>1. CASE i = Len(aggs)
    BY <1>1, <1>2, <2>1
  <2>2. CASE i # Len(aggs)
    <3>1. i \in 0 .. Len(aggs) - 1 /\ cut[i] \in Nat
      BY <1>1, <2>2
    <3>2. 0 <= i * 1 - cut[i] /\ i * 1 - cut[i] < 1
      BY <1>1, <3>1 DEF Near
    <3> QED
      BY <3>1, <3>2
  <2> QED
    BY <2>1, <2>2
<1> QED
  BY <1>2, <1>3

(* Every bin begins near the place where it is drawn. *)
LEMMA BinsPlaced ==
  ASSUME NEW aggs, NEW s, NEW cut, NEW requested, NEW block,
         Complete(aggs, s, cut, requested, block), Len(aggs) # 0,
         NEW count, count = Lesser(requested, Len(aggs)), NEW k \in 1 .. count
  PROVE  LET off == cut[Edge(k - 1, Len(aggs), count)] * count - (k - 1) * Len(s)
         IN  -off < Len(s) /\ 2 * off < 3 * Len(s)
<1> DEFINE n == Len(aggs)
           a == Edge(k - 1, n, count)
           at == cut[a]
           frames == Len(s)
<1>1. /\ n \in Nat \ {0} /\ frames \in Nat /\ requested \in Nat \ {0} /\ block \in Nat \ {0}
      /\ n <= 2 * requested /\ cut[0] = 0 /\ cut[n] = frames
      /\ \A i \in 0 .. n - 1 : Near(i, cut[i], requested, block)
      /\ \A i \in 0 .. n : cut[i] \in Nat
      /\ block - 1 <= n * block - frames /\ n * block - frames <= 2 * block - 2
      /\ n = requested + 1 => 2 * (n * block - frames) <= 3 * block - 2
      /\ n <= requested => block = 1
  <2>1. /\ Covers(aggs, cut, s) /\ cut[n] = frames
        /\ requested \in Nat \ {0} /\ block \in Nat \ {0} /\ n <= 2 * requested
    BY DEF Complete
  <2>2. n \in Nat \ {0} /\ frames \in Nat /\ cut[0] = 0 /\ \A i \in 0 .. n : cut[i] \in Nat
    BY <2>1 DEF Covers
  <2>3. /\ \A i \in 0 .. n - 1 : Near(i, cut[i], requested, block)
        /\ block - 1 <= n * block - frames /\ n * block - frames <= 2 * block - 2
        /\ n = requested + 1 => 2 * (n * block - frames) <= 3 * block - 2
        /\ n <= requested => block = 1
    BY DEF Complete
  <2> QED
    BY <2>1, <2>2, <2>3
<1>2. count \in Nat \ {0} /\ count <= n /\ (n <= requested => count = n) /\ (requested < n => count = requested)
  BY <1>1 DEF Lesser
<1>3. frames # 0
  <2>1. 0 \in 0 .. Len(aggs) /\ Len(aggs) \in 0 .. Len(aggs) /\ 0 < Len(aggs)
    BY <1>1
  <2>2. cut[0] < cut[n]
    BY <2>1, CutsApart
  <2> QED
    BY <1>1, <2>2
<1>4. /\ k - 1 \in 0 .. count /\ k \in 0 .. count /\ k - 1 \in Nat
  BY <1>2
<1>5. a \in 0 .. n - 1
  <2>1. a \in 0 .. n /\ Edge(k, n, count) \in 0 .. n /\ a < Edge(k, n, count)
    BY <1>1, <1>2, <1>4, EdgesInOrder
  <2> QED
    BY <1>1, <2>1
<1>6. count * a <= (k - 1) * n /\ (k - 1) * n < count * a + count
  <2> DEFINE p == (k - 1) * n
  <2>1. p \in Nat
    BY <1>1, <1>4
  <2> HIDE DEF p
  <2>2. count * (p \div count) <= p /\ p < count * (p \div count) + count
    BY <1>2, <2>1, Division
  <2> QED
    BY <2>2 DEF p, Edge
<1>7. Near(a, at, requested, block) /\ at \in Nat
  <2> HIDE DEF n, a, frames
  <2>1. a \in 0 .. n - 1 /\ a \in 0 .. n
    BY <1>1, <1>5
  <2> QED
    BY <1>1, <2>1, Zenon
<1> HIDE DEF n, a, at, frames
<1>8. CASE requested < n
  <2> DEFINE rest == (k - 1) * n - count * a
  <2>1. rest \in Nat /\ rest < count /\ count * a + rest = (k - 1) * n
    <3> DEFINE p == (k - 1) * n
               u == count * a
    <3>1. p \in Int /\ u \in Int
      BY <1>1, <1>2, <1>4, <1>5
    <3> HIDE DEF p, u
    <3>2. u <= p /\ p < u + count
      BY <1>6 DEF p, u
    <3>3. p - u \in Nat /\ p - u < count /\ u + (p - u) = p
      BY <1>2, <3>1, <3>2
    <3> QED
      BY <3>3 DEF p, u
  <2>2. Placed(count, block, n, k - 1, a, rest, at, frames)
    <3> HIDE DEF rest
    <3>1. count = requested /\ k - 1 < count /\ a \in Nat
      BY <1>1, <1>2, <1>5, <1>8
    <3> QED
      BY <1>1, <1>2, <1>3, <1>4, <1>7, <1>8, <2>1, <3>1 DEF Placed
  <2>3. -(at * count - (k - 1) * frames) < frames /\ 2 * (at * count - (k - 1) * frames) < 3 * frames
    <3> HIDE DEF rest
    <3> QED
      BY <2>2, NotTooEarly, NotTooLate
  <2> QED
    BY <2>3 DEF at, a, n, frames
<1>9. CASE n <= requested
  <2>1. block = 1 /\ count = n
    BY <1>1, <1>2, <1>9
  <2>2. frames = n /\ \A i \in 0 .. n : cut[i] = i
    BY <2>1, WholeCuts DEF n, frames
  <2>3. a = k - 1
    <3>1. n * (k - 1) <= (k - 1) * n /\ (k - 1) * n < n * (k - 1) + n
      BY <1>1, <1>4
    <3>2. k - 1 \in Int /\ (k - 1) * n \in Nat
      BY <1>1, <1>4
    <3> DEFINE p == (k - 1) * n
    <3>3. p \in Nat /\ n * (k - 1) <= p /\ p < n * (k - 1) + n
      BY <3>1, <3>2
    <3> HIDE DEF p
    <3>4. k - 1 = p \div n
      BY <1>1, <3>2, <3>3, Division
    <3> QED
      BY <2>1, <3>4 DEF p, a, Edge, n
  <2>4. at = k - 1
    BY <1>1, <1>4, <1>5, <2>2, <2>3 DEF at
  <2>5. at * count - (k - 1) * frames = 0
    BY <1>1, <1>4, <2>1, <2>2, <2>4
  <2>6. -0 < frames /\ 2 * 0 < 3 * frames
    BY <1>1, <1>3
  <2> QED
    BY <2>5, <2>6 DEF at, a, n, frames
<1> QED
  BY <1>1, <1>8, <1>9

(* Each aggregate of a cover describes its own piece of the stream. *)
LEMMA CoverDescribes ==
  ASSUME ReducerAssumption, NEW aggs, NEW cut, Covers(aggs, cut, stream), NEW i \in 1 .. Len(aggs)
  PROVE  /\ StartOf(aggs, i) = cut[i - 1] /\ aggs[i].frame_count = cut[i] - cut[i - 1]
         /\ Describes(aggs, i)
<1>1. /\ Len(aggs) \in Nat /\ stream \in Seq(Int)
      /\ aggs[i] = Summary(SubSeq(stream, cut[i - 1] + 1, cut[i]))
  BY DEF Covers
<1>2. i - 1 \in 0 .. Len(aggs) /\ i \in 0 .. Len(aggs) /\ i - 1 <= i
  BY <1>1
<1>3. cut[i - 1] \in Nat /\ cut[i] \in Nat /\ cut[i - 1] <= cut[i] /\ cut[i] <= Len(stream)
  BY <1>2, CutsGrow
<1>4. StartOf(aggs, i) = cut[i - 1]
  BY <1>2, FramesOfCover DEF StartOf
<1>5. aggs[i].frame_count = cut[i] - cut[i - 1]
  BY <1>1, <1>3, SummaryCount
<1>6. cut[i - 1] + aggs[i].frame_count = cut[i]
  BY <1>3, <1>5
<1>7. aggs[i] = FoldLeft(WithFrame, Empty,
                  SubSeq(stream, cut[i - 1] + 1, cut[i - 1] + aggs[i].frame_count))
  BY <1>1, <1>6 DEF Summary
<1>8. Describes(aggs, i)
  BY <1>4, <1>7 DEF Describes
<1> QED
  BY <1>4, <1>5, <1>8

(* The aggregates of a cover have the frames up to its last cut. *)
LEMMA WholeFrames ==
  ASSUME ReducerAssumption, NEW aggs, NEW cut, NEW s, Covers(aggs, cut, s)
  PROVE  FramesIn(aggs) = cut[Len(aggs)]
<1>1. Len(aggs) \in Nat /\ aggs \in Seq(Reached)
  BY DEF Covers
<1>2. SubSeq(aggs, 1, Len(aggs)) = aggs
  <2>1. SubSeq(aggs, 1, Len(aggs)) \in Seq(Reached) /\ Len(SubSeq(aggs, 1, Len(aggs))) = Len(aggs)
        /\ \A i \in 1 .. Len(aggs) : SubSeq(aggs, 1, Len(aggs))[i] = aggs[i]
    BY <1>1, SubSeqProperties
  <2> QED
    BY <1>1, <2>1, SeqEqual
<1>3. Len(aggs) \in 0 .. Len(aggs)
  BY <1>1
<1> QED
  BY <1>2, <1>3, FramesOfCover

------------------------------------------------------------------------------
(* The decode *)

(* append sees whole numbers of frames. *)
LEMMA FramesOfChunk ==
  ASSUME ReducerAssumption, NEW chunk \in Chunks, WellFormed(chunk)
  PROVE  Frames(chunk) \in Seq(Int)
<1> DEFINE c == chunk.channels
           size == Len(chunk.pcm)
           frames == size \div c
<1>1. chunk.pcm \in Seq(Int) /\ c \in Nat \ {0} /\ size \in Nat
  BY DEF ReducerAssumption, WellFormed
<1>2. frames \in Nat /\ c * frames <= size
  <2> HIDE DEF c, size
  <2> QED
    BY <1>1, Division
<1>3. ASSUME NEW frame \in 1 .. frames PROVE Mono(chunk, frame) \in Int
  <2> DEFINE samples == [channel \in 1 .. c |-> chunk.pcm[(frame - 1) * c + channel]]
  <2>1. ASSUME NEW channel \in 1 .. c PROVE chunk.pcm[(frame - 1) * c + channel] \in Int
    <3>1. (frame - 1) * c + channel \in 1 .. size
      <4> HIDE DEF c, size, frames
      <4>1. frame \in Nat /\ 1 <= frame /\ channel \in Nat /\ 1 <= channel /\ channel <= c
            /\ frame <= frames
        BY <1>1, <1>2
      <4>2. c * frame <= c * frames /\ 0 * c <= (frame - 1) * c
        BY <1>1, <1>2, <4>1, ProductGrows
      <4>3. (frame - 1) * c = c * frame - c /\ c * frame \in Int /\ c * frames \in Int /\ 0 * c = 0
        BY <1>1, <1>2, <4>1
      <4> QED
        BY <1>1, <1>2, <4>1, <4>2, <4>3
    <3> QED
      BY <1>1, <3>1
  <2>2. samples \in Seq(Int)
    <3>1. c \in Nat
      BY <1>1
    <3> HIDE DEF c
    <3> QED
      BY <2>1, <3>1
  <2>3. Total(samples) \in Int
    <3> HIDE DEF samples
    <3> QED
      BY <2>2, TotalEquations
  <2>4. Mono(chunk, frame) = Total(samples) \div c
    BY DEF Mono
  <2> HIDE DEF samples, c
  <2> QED
    BY <1>1, <2>3, <2>4
<1>4. Frames(chunk) = [frame \in 1 .. frames |-> Mono(chunk, frame)]
  BY DEF Frames
<1> HIDE DEF frames
<1> QED
  BY <1>2, <1>3, <1>4

(* The inductive invariant.  While a stream is decoded the aggregates      *)
(* cover it but for the pending frames, with their cuts near multiples of  *)
(* the block; when it is done they cover all of it, and the bins are made  *)
(* of them.  What is drawn is the resampled bins.                          *)
ReducerInv ==
  /\ reducer \in Reducers /\ stream \in Seq(Int) /\ bins \in Seq(Reached)
  /\ phase \in {"decoding", "finished", "failed"}
  /\ Len(reducer.aggregates) <= 2 * reducer.requested_bins
  /\ reducer.requested_bins = 0 => reducer.aggregates = <<>> /\ reducer.pending = Empty
  /\ phase = "decoding" /\ reducer.requested_bins # 0 => \E cut : Reduced(reducer, stream, cut)
  /\ phase = "finished" =>
       /\ bins # <<>>
       /\ bins = BinsOf(reducer.aggregates, Lesser(reducer.requested_bins, Len(reducer.aggregates)))
       /\ \E cut : Complete(reducer.aggregates, stream, cut, reducer.requested_bins,
                            reducer.block_frames)
  /\ bin_view \in [begin : Int, end : Int, requested : Nat]
  /\ \/ bin_view = NoView
     \/ /\ phase = "finished"
        /\ columns = ResampleWaveform(bins, bin_view.begin, bin_view.end, bin_view.requested)

LEMMA ReducerInit ==
  ASSUME ReducerAssumption, DecodeInit
  PROVE  ReducerInv
<1>1. PICK requested \in RequestedBins :
        reducer = [requested_bins |-> requested, block_frames |-> 1, total_frames |-> 0,
                   pending |-> Empty, aggregates |-> <<>>]
  BY DEF DecodeInit
<1>2. requested \in Nat /\ Empty \in Reached
  BY EmptyTyped DEF ReducerAssumption
<1>3. /\ reducer \in Reducers /\ reducer.requested_bins = requested /\ reducer.block_frames = 1
      /\ reducer.total_frames = 0 /\ reducer.pending = Empty /\ reducer.aggregates = <<>>
  BY <1>1, <1>2 DEF Reducers
<1>4. reducer.requested_bins # 0 => \E cut : Reduced(reducer, <<>>, cut)
  <2> SUFFICES ASSUME reducer.requested_bins # 0 PROVE \E cut : Reduced(reducer, <<>>, cut)
    OBVIOUS
  <2>1. reducer.requested_bins > 0
    BY <1>2, <1>3
  <2> QED
    BY <1>3, <2>1, NothingAppended
<1>5. /\ stream = <<>> /\ bins = <<>> /\ phase = "decoding" /\ bin_view = NoView
  BY DEF DecodeInit
<1> QED
  BY <1>2, <1>3, <1>4, <1>5 DEF ReducerInv, NoView

LEMMA ReducerAppend ==
  ASSUME ReducerAssumption, ReducerInv, NEW chunk \in Chunks, AppendChunk(chunk)
  PROVE  ReducerInv'
<1>1. /\ phase = "decoding" /\ WellFormed(chunk) /\ stream' = stream \o Frames(chunk)
      /\ UNCHANGED <<phase, bins, bin_view, columns>>
      /\ reducer' = IF reducer.requested_bins = 0 THEN reducer
                    ELSE FoldLeft(AddFrame, reducer, Frames(chunk))
  BY DEF AppendChunk
<1>2. Frames(chunk) \in Seq(Int)
  BY <1>1, FramesOfChunk
<1>3. stream' \in Seq(Int)
  BY <1>1, <1>2 DEF ReducerInv
<1>4. CASE reducer.requested_bins = 0
  BY <1>1, <1>3, <1>4 DEF ReducerInv
<1>5. CASE reducer.requested_bins # 0
  <2>1. PICK cut : Reduced(reducer, stream, cut)
    BY <1>1, <1>5 DEF ReducerInv
  <2>2. reducer \in Reducers /\ reducer' = FoldLeft(AddFrame, reducer, Frames(chunk))
    BY <1>1, <1>5 DEF ReducerInv
  <2>3. reducer' \in Reducers /\ \E cuts : Reduced(reducer', stream', cuts)
    BY <1>1, <1>2, <2>1, <2>2, AppendReduces
  <2>4. Len(reducer'.aggregates) <= 2 * reducer'.requested_bins /\ reducer'.requested_bins # 0
    BY <2>3 DEF Reduced, Standing, Reducers
  <2> QED
    BY <1>1, <1>3, <2>3, <2>4 DEF ReducerInv
<1> QED
  BY <1>4, <1>5

LEMMA ReducerFinish ==
  ASSUME ReducerAssumption, ReducerInv, Finish
  PROVE  ReducerInv'
<1> DEFINE f == FlushPending(reducer)
           count == Lesser(f.requested_bins, Len(f.aggregates))
<1>1. /\ phase = "decoding" /\ reducer' = f /\ UNCHANGED <<bin_view, columns, stream>>
      /\ bins' = Finished(reducer) /\ phase' = IF bins' = <<>> THEN "failed" ELSE "finished"
  BY DEF Finish
<1>2. f \in Reducers /\ f.requested_bins \in Nat /\ Len(f.aggregates) \in Nat
  BY FlushTyped DEF ReducerInv, Reducers
<1>3. bin_view' = NoView
  BY <1>1 DEF ReducerInv
<1>4. CASE reducer.requested_bins = 0
  <2>1. reducer.pending.frame_count = 0 /\ reducer.aggregates = <<>>
    BY <1>4 DEF ReducerInv, Empty
  <2>2. f = reducer
    BY <2>1 DEF FlushPending
  <2>3. Finished(reducer) = <<>>
    <3>1. Lesser(reducer.requested_bins, Len(f.aggregates)) = 0
      BY <1>4, <2>1, <2>2 DEF Lesser
    <3> HIDE DEF f
    <3> QED
      BY <3>1 DEF Finished, f
  <2>4. bins' = <<>> /\ phase' = "failed" /\ bins' \in Seq(Reached)
    BY <1>1, <2>3
  <2> QED
    BY <1>1, <1>3, <2>2, <2>4 DEF ReducerInv
<1>5. CASE reducer.requested_bins # 0
  <2>1. PICK cut : Reduced(reducer, stream, cut)
    BY <1>1, <1>5 DEF ReducerInv
  <2>2. PICK cuts : Complete(f.aggregates, stream, cuts, reducer.requested_bins, f.block_frames)
    BY <2>1, FlushCompletes DEF ReducerInv
  <2>3. f.requested_bins = reducer.requested_bins
    BY <2>1, FlushCompletes DEF ReducerInv
  <2>4. Finished(reducer) = BinsOf(f.aggregates, count)
    BY <2>3 DEF Finished, BinsOf
  <2>5. Len(f.aggregates) <= 2 * f.requested_bins
    BY <2>2, <2>3 DEF Complete
  <2> HIDE DEF f
  <2>6. CASE Len(f.aggregates) = 0
    <3>1. count = 0
      BY <1>2, <2>6 DEF Lesser
    <3>2. BinsOf(f.aggregates, count) = <<>>
      BY <3>1 DEF BinsOf
    <3>3. bins' = <<>> /\ phase' = "failed" /\ bins' \in Seq(Reached)
      BY <1>1, <2>4, <3>2
    <3> QED
      BY <1>1, <1>2, <1>3, <1>5, <2>3, <2>5, <3>3 DEF ReducerInv
  <2>7. CASE Len(f.aggregates) # 0
    <3>1. count \in Nat \ {0} /\ count <= Len(f.aggregates)
      BY <1>2, <1>5, <2>3, <2>7 DEF Lesser
    <3>2. /\ Len(BinsOf(f.aggregates, count)) = count
          /\ Covers(BinsOf(f.aggregates, count), BinCuts(cuts, Len(f.aggregates), count), stream)
      <4> HIDE DEF count
      <4> QED
        BY <2>2, <3>1, SharesCover
    <3>3. bins' \in Seq(Reached) /\ bins' # <<>>
      BY <1>1, <2>4, <3>1, <3>2 DEF Covers
    <3>4. phase' = "finished" /\ stream' = stream /\ bins' = BinsOf(f.aggregates, count)
      BY <1>1, <2>4, <3>3
    <3>5. \E c : Complete(f.aggregates, stream, c, f.requested_bins, f.block_frames)
      BY <2>2, <2>3
    <3>6. stream \in Seq(Int)
      BY DEF ReducerInv
    <3> QED
      BY <1>1, <1>2, <1>3, <1>5, <2>3, <2>5, <3>3, <3>4, <3>5, <3>6 DEF ReducerInv
  <2> QED
    BY <2>6, <2>7
<1> QED
  BY <1>4, <1>5

(* The invariant is inductive. *)
LEMMA ReducerStep ==
  ASSUME ReducerAssumption, ReducerInv, [DecodeNext]_wave_vars
  PROVE  ReducerInv'
<1>1. ASSUME NEW chunk \in Chunks, AppendChunk(chunk) PROVE ReducerInv'
  BY <1>1, ReducerAppend
<1>2. ASSUME NEW chunk \in Chunks, AppendThrows(chunk) PROVE ReducerInv'
  BY <1>2 DEF AppendThrows, ReducerInv
<1>3. ASSUME Finish PROVE ReducerInv'
  BY <1>3, ReducerFinish
<1>4. ASSUME NEW bounds \in DrawnViews, NEW requested \in DrawnColumns,
             Draw(bounds[1], bounds[2], requested)
      PROVE  ReducerInv'
  <2> DEFINE begin == bounds[1]
             end == bounds[2]
  <2>1. /\ phase = "finished" /\ UNCHANGED <<reducer, phase, bins, stream>>
        /\ bin_view' = [begin |-> begin, end |-> end, requested |-> requested]
        /\ columns' = ResampleWaveform(bins, begin, end, requested)
    BY <1>4 DEF Draw
  <2>2. begin \in Int /\ end \in Int /\ requested \in Nat
    BY DEF ReducerAssumption
  <2> HIDE DEF begin, end
  <2>3. columns' = ResampleWaveform(bins', bin_view'.begin, bin_view'.end, bin_view'.requested)
    BY <2>1
  <2>4. bin_view' \in [begin : Int, end : Int, requested : Nat]
    BY <2>1, <2>2
  <2> QED
    BY <2>1, <2>3, <2>4 DEF ReducerInv
<1>5. CASE UNCHANGED wave_vars
  BY <1>5 DEF wave_vars, ReducerInv
<1> QED
  BY <1>1, <1>2, <1>3, <1>4, <1>5 DEF DecodeNext

LEMMA TypesKept == ReducerAssumption /\ ReducerInv => DecodeTypeOK
<1> SUFFICES ASSUME ReducerAssumption, ReducerInv PROVE DecodeTypeOK
  OBVIOUS
<1>1. Reached \subseteq Aggregate
  BY DEF Reached
<1>2. \A s \in Seq(Reached) : s \in Seq(Aggregate)
  BY <1>1
<1>3. reducer \in [requested_bins : Nat, block_frames : Nat \ {0}, total_frames : Nat,
                   pending : Aggregate, aggregates : Seq(Aggregate)]
  BY <1>1, <1>2 DEF ReducerInv, Reducers
<1> QED
  BY <1>2, <1>3 DEF ReducerInv, DecodeTypeOK

LEMMA AggregatesDescribe == ReducerAssumption /\ ReducerInv => AggregatesDescribeStream
<1> SUFFICES ASSUME ReducerAssumption, ReducerInv, phase = "decoding", reducer.requested_bins # 0
             PROVE  LET all == Append(reducer.aggregates, reducer.pending)
                    IN  /\ \A i \in DOMAIN all : Describes(all, i)
                        /\ FramesIn(all) = Len(stream) /\ reducer.total_frames = Len(stream)
  BY DEF AggregatesDescribeStream
<1> DEFINE n == Len(reducer.aggregates)
           all == Append(reducer.aggregates, reducer.pending)
<1>1. PICK cut : Reduced(reducer, stream, cut)
  BY DEF ReducerInv
<1>2. /\ Covers(reducer.aggregates, cut, stream) /\ reducer.total_frames = Len(stream)
      /\ reducer.pending = Summary(SubSeq(stream, cut[n] + 1, Len(stream)))
      /\ reducer.pending \in Reached /\ cut[n] <= Len(stream) /\ Len(stream) \in Nat /\ n \in Nat
  BY <1>1, Remainder DEF Reduced, Standing, ReducerInv
<1>3. /\ Covers(all, MoreCuts(cut, n, Len(stream)), stream) /\ all \in Seq(Reached) /\ Len(all) = n + 1
      /\ MoreCuts(cut, n, Len(stream))[n + 1] = Len(stream)
  <2>1. Len(stream) <= Len(stream)
    BY <1>2
  <2> QED
    BY <1>2, <2>1, AppendCovers
<1> HIDE DEF all, n
<1>4. \A i \in DOMAIN all : Describes(all, i)
  <2>1. DOMAIN all = 1 .. Len(all)
    BY <1>3
  <2> QED
    BY <1>3, <2>1, CoverDescribes
<1>5. FramesIn(all) = Len(stream)
  BY <1>3, WholeFrames
<1> QED
  BY <1>2, <1>4, <1>5 DEF all

(* The cuts of the bins of a whole stream. *)
LEMMA BinsCover ==
  ASSUME ReducerAssumption, ReducerInv, phase = "finished"
  PROVE  \E cut : LET n == Len(reducer.aggregates)
                      count == Lesser(reducer.requested_bins, n)
                  IN  /\ Complete(reducer.aggregates, stream, cut, reducer.requested_bins,
                                  reducer.block_frames)
                      /\ n # 0 /\ Covers(bins, BinCuts(cut, n, count), stream)
                      /\ Len(bins) = count /\ count \in Nat \ {0} /\ count <= n
                      /\ BinCuts(cut, n, count)[count] = Len(stream)
                      /\ \A k \in 1 .. count : BinCuts(cut, n, count)[k - 1] < BinCuts(cut, n, count)[k]
<1> DEFINE n == Len(reducer.aggregates)
           count == Lesser(reducer.requested_bins, n)
<1>1. PICK cut : Complete(reducer.aggregates, stream, cut, reducer.requested_bins,
                          reducer.block_frames)
  BY DEF ReducerInv
<1>2. bins # <<>> /\ bins = BinsOf(reducer.aggregates, count)
  BY DEF ReducerInv
<1>3. n \in Nat /\ reducer.requested_bins \in Nat \ {0}
  BY <1>1 DEF Complete, Covers
<1>4. n # 0
  <2> SUFFICES ASSUME n = 0 PROVE FALSE
    OBVIOUS
  <2>1. count = 0
    BY <1>3 DEF Lesser
  <2> HIDE DEF count
  <2> QED
    BY <1>2, <2>1 DEF BinsOf
<1>5. count \in Nat \ {0} /\ count <= n
  BY <1>3, <1>4 DEF Lesser
<1> HIDE DEF count
<1>6. /\ Covers(bins, BinCuts(cut, n, count), stream) /\ Len(bins) = count
      /\ BinCuts(cut, n, count)[count] = Len(stream)
      /\ \A k \in 1 .. count : BinCuts(cut, n, count)[k - 1] < BinCuts(cut, n, count)[k]
  BY <1>1, <1>2, <1>5, SharesCover
<1> QED
  BY <1>1, <1>4, <1>5, <1>6 DEF count

LEMMA BinsAreInPlace == ReducerAssumption /\ ReducerInv => BinsInPlace
<1> SUFFICES ASSUME ReducerAssumption, ReducerInv, phase = "finished"
             PROVE  /\ \A i \in DOMAIN bins :
                         LET off == StartOf(bins, i) * Len(bins) - (i - 1) * Len(stream)
                         IN  /\ bins[i].frame_count > 0 /\ Describes(bins, i)
                             /\ -off < Len(stream) /\ 2 * off < 3 * Len(stream)
                    /\ FramesIn(bins) = Len(stream)
  BY DEF BinsInPlace
<1> DEFINE n == Len(reducer.aggregates)
           count == Lesser(reducer.requested_bins, n)
<1>1. PICK cut : /\ Complete(reducer.aggregates, stream, cut, reducer.requested_bins,
                             reducer.block_frames)
                 /\ n # 0 /\ Covers(bins, BinCuts(cut, n, count), stream)
                 /\ Len(bins) = count /\ count \in Nat \ {0} /\ count <= n
                 /\ BinCuts(cut, n, count)[count] = Len(stream)
                 /\ \A k \in 1 .. count : BinCuts(cut, n, count)[k - 1] < BinCuts(cut, n, count)[k]
  BY BinsCover
<1> DEFINE cuts == BinCuts(cut, n, count)
<1>2. DOMAIN bins = 1 .. count
  BY <1>1 DEF Covers
<1>3. ASSUME NEW i \in 1 .. count
      PROVE  LET off == StartOf(bins, i) * Len(bins) - (i - 1) * Len(stream)
             IN  /\ bins[i].frame_count > 0 /\ Describes(bins, i)
                 /\ -off < Len(stream) /\ 2 * off < 3 * Len(stream)
  <2>1. /\ StartOf(bins, i) = cuts[i - 1] /\ bins[i].frame_count = cuts[i] - cuts[i - 1]
        /\ Describes(bins, i)
    <3> HIDE DEF cuts, count, n
    <3> QED
      BY <1>1, CoverDescribes DEF cuts
  <2>2. cuts[i - 1] \in Nat /\ cuts[i] \in Nat /\ cuts[i - 1] < cuts[i]
    <3>1. i - 1 \in 0 .. count /\ i \in 0 .. count /\ Len(bins) = count
      BY <1>1
    <3> HIDE DEF cuts, count, n
    <3> QED
      BY <1>1, <3>1 DEF Covers, cuts
  <2>3. cuts[i - 1] = cut[Edge(i - 1, n, count)]
    <3>1. i - 1 \in 0 .. count
      BY <1>1
    <3> HIDE DEF count, n
    <3> QED
      BY <3>1 DEF BinCuts
  <2>4. LET off == cut[Edge(i - 1, n, count)] * count - (i - 1) * Len(stream)
        IN  -off < Len(stream) /\ 2 * off < 3 * Len(stream)
    BY <1>1, BinsPlaced
  <2> HIDE DEF cuts, count, n
  <2> QED
    BY <1>1, <2>1, <2>2, <2>3, <2>4
<1>4. FramesIn(bins) = Len(stream)
  <2> HIDE DEF cuts, count, n
  <2> QED
    BY <1>1, WholeFrames DEF cuts
<1> QED
  BY <1>2, <1>3, <1>4

(* A stream that was not halved has an aggregate for each frame, so its    *)
(* bins are those of reduce_waveform.                                      *)
LEMMA ShortStreams == ReducerAssumption /\ ReducerInv => ShortStreamsExact
<1> SUFFICES ASSUME ReducerAssumption, ReducerInv, phase = "finished",
                    Len(stream) <= 2 * reducer.requested_bins
             PROVE  bins = ReduceWaveform(stream, reducer.requested_bins)
  BY DEF ShortStreamsExact
<1> DEFINE n == Len(reducer.aggregates)
           requested == reducer.requested_bins
           count == Lesser(requested, n)
<1>1. PICK cut : /\ Complete(reducer.aggregates, stream, cut, requested, reducer.block_frames)
                 /\ n # 0 /\ Covers(bins, BinCuts(cut, n, count), stream)
                 /\ Len(bins) = count /\ count \in Nat \ {0} /\ count <= n
  BY BinsCover
<1>2. reducer.block_frames = 1
  BY <1>1 DEF Complete
<1>3. Len(stream) = n /\ \A i \in 0 .. n : cut[i] = i
  BY <1>1, <1>2, WholeCuts
<1>4. n \in Nat
  BY <1>1 DEF Complete, Covers
<1> HIDE DEF n, requested, count
<1>5. ASSUME NEW k \in 1 .. count
      PROVE  bins[k] = FoldLeft(WithFrame, Empty, Share(stream, k, count))
  <2>1. k - 1 \in 0 .. count /\ k \in 0 .. count
    BY <1>1
  <2>2. /\ Edge(k - 1, n, count) \in 0 .. n /\ Edge(k, n, count) \in 0 .. n
    BY <1>1, <1>4, <2>1, EdgesInOrder
  <2>3. bins[k] = Summary(SubSeq(stream, BinCuts(cut, n, count)[k - 1] + 1, BinCuts(cut, n, count)[k]))
    BY <1>1 DEF Covers
  <2>4. BinCuts(cut, n, count)[k - 1] = Edge(k - 1, n, count) /\ BinCuts(cut, n, count)[k] = Edge(k, n, count)
    BY <1>3, <2>1, <2>2 DEF BinCuts
  <2>5. Share(stream, k, count) = SubSeq(stream, Edge(k - 1, n, count) + 1, Edge(k, n, count))
    BY <1>3 DEF Share, Edge
  <2> QED
    BY <2>3, <2>4, <2>5 DEF Summary
<1>6. bins = [k \in 1 .. count |-> FoldLeft(WithFrame, Empty, Share(stream, k, count))]
  <2>1. bins \in Seq(Reached) /\ Len(bins) = count
    BY <1>1 DEF Covers
  <2>2. bins = [k \in 1 .. count |-> bins[k]]
    BY <2>1
  <2> QED
    BY <1>5, <2>2, Zenon
<1>7. count = Lesser(requested, Len(stream))
  BY <1>3 DEF count
<1> QED
  BY <1>6, <1>7, Zenon DEF ReduceWaveform, requested

LEMMA ReducerInvImplies == ReducerAssumption /\ ReducerInv => WaveformIsFaithful
BY TypesKept, AggregatesDescribe, ShortStreams, BinsAreInPlace DEF WaveformIsFaithful

LEMMA ReducerAlways == ASSUME ReducerAssumption PROVE DecodeSpec => []ReducerInv
<1>1. DecodeInit => ReducerInv
  BY ReducerInit
<1>2. ReducerInv /\ [DecodeNext]_wave_vars => ReducerInv'
  BY ReducerStep
<1> QED
  BY <1>1, <1>2, PTL DEF DecodeSpec

(* For any number of bins, any chunks of any length and any values: while  *)
(* a stream is decoded its aggregates and the pending one stand for        *)
(* consecutive pieces of it that make up the whole, in at most twice as    *)
(* many aggregates as bins, and when it is finished every bin sums up      *)
(* exactly its own piece, no bin is empty, and none begins as much as one  *)
(* bin before its place or one and a half after it                         *)
(* (StreamingWaveformReducer::append, flush_pending, compact and finish in *)
(* src/core/waveform.cpp).                                                 *)
THEOREM WaveformStaysFaithful == ASSUME ReducerAssumption PROVE DecodeSpec => []WaveformIsFaithful
<1>1. ReducerInv => WaveformIsFaithful
  BY ReducerInvImplies
<1> QED
  BY <1>1, ReducerAlways, PTL

------------------------------------------------------------------------------
(* The columns of a view *)

(* Of finitely many numbers one is the least and one the largest. *)
LEMMA Extremes ==
  ASSUME NEW lo \in Int, NEW hi \in Int, lo <= hi, NEW f, \A i \in lo .. hi : f[i] \in Int
  PROVE  /\ \E m \in lo .. hi : \A i \in lo .. hi : f[m] <= f[i]
         /\ \E m \in lo .. hi : \A i \in lo .. hi : f[i] <= f[m]
<1> DEFINE Good(n) == /\ \E m \in lo .. lo + n : \A i \in lo .. lo + n : f[m] <= f[i]
                      /\ \E m \in lo .. lo + n : \A i \in lo .. lo + n : f[i] <= f[m]
           Bad == {n \in 0 .. hi - lo : ~ Good(n)}
<1>1. Bad = {}
  <2> SUFFICES ASSUME Bad # {} PROVE FALSE
    OBVIOUS
  <2>1. PICK n \in Bad : \A k \in Bad : n <= k
    <3>1. Bad \subseteq Nat
      OBVIOUS
    <3> HIDE DEF Bad
    <3> QED
      BY <3>1, LeastNatural
  <2>2. Good(0)
    <3>1. lo \in lo .. lo + 0 /\ \A i \in lo .. lo + 0 : i = lo /\ f[i] \in Int
      OBVIOUS
    <3> QED
      BY <3>1
  <2> HIDE DEF Good
  <2>3. n \in 0 .. hi - lo /\ ~ Good(n) /\ n # 0 /\ n - 1 \in 0 .. hi - lo /\ n - 1 < n
    BY <2>2
  <2>4. Good(n - 1)
    BY <2>1, <2>3
  <2>5. PICK low \in lo .. lo + (n - 1) : \A i \in lo .. lo + (n - 1) : f[low] <= f[i]
    BY <2>4 DEF Good
  <2>6. PICK high \in lo .. lo + (n - 1) : \A i \in lo .. lo + (n - 1) : f[i] <= f[high]
    BY <2>4 DEF Good
  <2>7. /\ lo + n \in lo .. hi /\ low \in lo .. hi /\ high \in lo .. hi
        /\ lo + n \in lo .. lo + n /\ low \in lo .. lo + n /\ high \in lo .. lo + n
        /\ \A i \in lo .. lo + n : i \in lo .. hi /\ (i = lo + n \/ i \in lo .. lo + (n - 1))
    BY <2>3
  <2>8. f[lo + n] \in Int /\ f[low] \in Int /\ f[high] \in Int
    BY <2>7
  <2>9. \E m \in lo .. lo + n : \A i \in lo .. lo + n : f[m] <= f[i]
    <3>1. CASE f[low] <= f[lo + n]
      BY <2>5, <2>7, <2>8, <3>1
    <3>2. CASE ~ (f[low] <= f[lo + n])
      <4>1. ASSUME NEW i \in lo .. lo + n PROVE f[lo + n] <= f[i]
        BY <2>5, <2>7, <2>8, <3>2
      <4> QED
        BY <2>7, <4>1
    <3> QED
      BY <3>1, <3>2
  <2>10. \E m \in lo .. lo + n : \A i \in lo .. lo + n : f[i] <= f[m]
    <3>1. CASE f[lo + n] <= f[high]
      BY <2>6, <2>7, <2>8, <3>1
    <3>2. CASE ~ (f[lo + n] <= f[high])
      <4>1. ASSUME NEW i \in lo .. lo + n PROVE f[i] <= f[lo + n]
        BY <2>6, <2>7, <2>8, <3>2
      <4> QED
        BY <2>7, <4>1
    <3> QED
      BY <3>1, <3>2
  <2>11. Good(n)
    BY <2>9, <2>10 DEF Good
  <2> QED
    BY <2>3, <2>11
<1>2. Good(hi - lo)
  <2> HIDE DEF Good
  <2> QED
    BY <1>1
<1>3. lo + (hi - lo) = hi
  OBVIOUS
<1> QED
  BY <1>2, <1>3

(* Where a column begins, in units of which a bin has ViewSteps *          *)
(* requested; it ends where the next begins.                               *)
ColumnStart(size, begin, end, requested, k) ==
  size * (begin * requested + (end - begin) * (k - 1))

Drawn(size, begin, end, requested) ==
  /\ size \in Nat \ {0} /\ requested \in Nat \ {0} /\ ViewSteps \in Nat \ {0}
  /\ begin \in Nat /\ end \in Nat /\ begin < end /\ end <= ViewSteps

(* The columns divide the view, each with some width. *)
LEMMA ColumnStarts ==
  ASSUME NEW size, NEW begin, NEW end, NEW requested, Drawn(size, begin, end, requested)
  PROVE  /\ \A k \in 1 .. requested + 1 : ColumnStart(size, begin, end, requested, k) \in Nat
         /\ ColumnStart(size, begin, end, requested, 1) = size * begin * requested
         /\ ColumnStart(size, begin, end, requested, requested + 1) = size * end * requested
         /\ \A k \in 1 .. requested :
              /\ size * begin * requested <= ColumnStart(size, begin, end, requested, k)
              /\ ColumnStart(size, begin, end, requested, k)
                   < ColumnStart(size, begin, end, requested, k + 1)
              /\ ColumnStart(size, begin, end, requested, k) < size * end * requested
              /\ ColumnStart(size, begin, end, requested, k + 1) <= size * end * requested
<1> DEFINE at(k) == ColumnStart(size, begin, end, requested, k)
           w == size * (end - begin)
           b == size * begin * requested
<1>0. /\ size \in Nat \ {0} /\ requested \in Nat \ {0}
      /\ begin \in Nat /\ end \in Nat /\ begin < end
  BY DEF Drawn
<1>1. w \in Nat \ {0} /\ b \in Nat
  <2>1. end - begin \in Nat \ {0}
    BY <1>0
  <2>2. size * 1 <= size * (end - begin)
    BY <1>0, <2>1, ProductGrows
  <2>3. b \in Nat
    BY <1>0
  <2> QED
    BY <1>0, <2>1, <2>2, <2>3
<1>2. ASSUME NEW k \in Nat PROVE at(k) = b + w * (k - 1)
  BY <1>0 DEF ColumnStart
<1>3. b + w * requested = size * end * requested
  BY <1>0
<1> HIDE DEF w, b
<1>4. ASSUME NEW k \in 1 .. requested + 1 PROVE at(k) = b + w * (k - 1) /\ w * (k - 1) \in Nat
  <2>1. k \in Nat /\ k - 1 \in Nat
    BY <1>0
  <2> QED
    BY <1>1, <1>2, <2>1
<1>5. at(1) = b
  <2>1. 1 \in Nat /\ w * (1 - 1) = 0
    BY <1>1
  <2> QED
    BY <1>1, <1>2, <2>1
<1>6. at(requested + 1) = size * end * requested
  <2>1. requested + 1 \in Nat /\ (requested + 1) - 1 = requested
    BY <1>0
  <2> QED
    BY <1>2, <1>3, <2>1
<1>7. ASSUME NEW k \in 1 .. requested
      PROVE  /\ b <= at(k) /\ at(k) < at(k + 1) /\ at(k) < size * end * requested
             /\ at(k + 1) <= size * end * requested
  <2>1. k \in 1 .. requested + 1 /\ k + 1 \in 1 .. requested + 1 /\ (k + 1) - 1 = k
        /\ k \in Nat
    BY <1>0
  <2>2. /\ at(k) = b + w * (k - 1) /\ w * (k - 1) \in Nat /\ at(k + 1) = b + w * k /\ w * k \in Nat
    BY <1>4, <2>1
  <2>3. w * (k - 1) = w * k - w
    BY <1>1, <2>1
  <2>4. w * k <= w * requested /\ w * requested \in Nat
    BY <1>0, <1>1, <2>1, ProductGrows
  <2> HIDE DEF at
  <2> QED
    BY <1>1, <1>3, <2>2, <2>3, <2>4
<1>8. ASSUME NEW k \in 1 .. requested + 1 PROVE at(k) \in Nat
  BY <1>1, <1>4
<1> QED
  BY <1>5, <1>6, <1>7, <1>8 DEF b

LEMMA Cancelled ==
  ASSUME NEW a \in Int, NEW b \in Int, NEW c \in Nat \ {0}
  PROVE  a * c < b * c <=> a < b
<1>1. ASSUME a < b PROVE a * c < b * c
  <2>1. (a + 1) * c <= b * c /\ (a + 1) * c = a * c + c /\ a * c \in Int
    BY <1>1, ProductGrows
  <2> QED
    BY <2>1
<1>2. ASSUME b <= a PROVE b * c <= a * c /\ a * c \in Int /\ b * c \in Int
  BY <1>2, ProductGrows
<1> QED
  BY <1>1, <1>2

(* A column shows consecutive bins: none outside the view, and every one   *)
(* it overlaps.                                                            *)
LEMMA ColumnShows ==
  ASSUME NEW size, NEW begin, NEW end, NEW requested, Drawn(size, begin, end, requested),
         NEW k \in 1 .. requested
  PROVE  LET source == ColumnSource(size, begin, end, requested, k)
             at == ColumnStart(size, begin, end, requested, k)
             next == ColumnStart(size, begin, end, requested, k + 1)
             unit == ViewSteps * requested
         IN  /\ \E lo, hi \in 0 .. size - 1 : lo <= hi /\ source = lo .. hi
             /\ \A i \in source : at < (i + 1) * unit /\ i * unit < size * end * requested
             /\ \A i \in 0 .. size - 1 : at < (i + 1) * unit /\ i * unit < next => i \in source
<1> DEFINE source == ColumnSource(size, begin, end, requested, k)
           at == ColumnStart(size, begin, end, requested, k)
           next == ColumnStart(size, begin, end, requested, k + 1)
           unit == ViewSteps * requested
           all == size * end * requested
           x == at \div unit
           y == Ceiling(next, unit)
<1>0. /\ size \in Nat \ {0} /\ requested \in Nat \ {0} /\ ViewSteps \in Nat \ {0}
      /\ begin \in Nat /\ end \in Nat /\ begin < end /\ end <= ViewSteps
  BY DEF Drawn
<1>1. at \in Nat /\ next \in Nat /\ at < all /\ next <= all /\ at < next
  <2>1. k \in 1 .. requested + 1 /\ k + 1 \in 1 .. requested + 1
    BY <1>0
  <2> QED
    BY <2>1, ColumnStarts
<1>2. unit \in Nat \ {0} /\ all \in Nat
  <2>1. 1 * requested <= ViewSteps * requested
    BY <1>0, ProductGrows
  <2> QED
    BY <1>0, <2>1
<1>3. all <= size * unit
  <2>1. (size * requested) * end <= (size * requested) * ViewSteps
    BY <1>0, ProductGrows
  <2>2. (size * requested) * end = all /\ (size * requested) * ViewSteps = size * unit
    BY <1>0
  <2> QED
    BY <2>1, <2>2
<1>4. source = Lesser(x, size - 1) .. Greater(Lesser(x, size - 1) + 1, Lesser(y, size)) - 1
  BY <1>0 DEF ColumnSource, ColumnStart, LastOf
<1> HIDE DEF source, at, next, unit, all
<1>5. x \in Nat /\ unit * x <= at /\ at < unit * x + unit
  BY <1>1, <1>2, Division
<1>6. y \in Nat /\ unit * y < next + unit /\ next <= unit * y
  <2> DEFINE p == next + unit - 1
  <2>1. p \in Nat /\ y = p \div unit
    BY <1>1, <1>2 DEF Ceiling
  <2> HIDE DEF p, y
  <2>2. y \in Nat /\ unit * y <= p /\ p < unit * y + unit
    BY <1>2, <2>1, Division
  <2>3. unit * y \in Int
    BY <1>2, <2>2
  <2> HIDE DEF unit
  <2> QED
    BY <1>1, <1>2, <2>2, <2>3 DEF p
<1> HIDE DEF x, y
<1>7. x <= size - 1
  <2>1. x * unit < size * unit
    <3>1. x * unit = unit * x /\ x * unit \in Int /\ size * unit \in Int
      BY <1>0, <1>2, <1>5
    <3> QED
      BY <1>1, <1>2, <1>3, <1>5, <3>1
  <2>2. x < size
    BY <1>0, <1>2, <1>5, <2>1, Cancelled
  <2> QED
    BY <1>0, <1>5, <2>2
<1> DEFINE last == Lesser(y, size)
           hi == Greater(x + 1, last) - 1
<1>8. source = x .. hi
  <2>1. Lesser(x, size - 1) = x
    BY <1>0, <1>5, <1>7 DEF Lesser
  <2> QED
    BY <1>4, <2>1
<1>9. x \in 0 .. size - 1 /\ hi \in 0 .. size - 1 /\ x <= hi /\ hi \in Int
      /\ (hi = x \/ hi + 1 <= y) /\ (\A i \in Int : i < y /\ i < size => i <= hi)
  BY <1>0, <1>5, <1>6, <1>7 DEF Lesser, Greater
<1> HIDE DEF hi
<1>10. ASSUME NEW i \in source PROVE at < (i + 1) * unit /\ i * unit < all
  <2>1. i \in Int /\ x <= i /\ i <= hi
    BY <1>8, <1>9
  <2>2. at < (i + 1) * unit
    <3>1. (x + 1) * unit <= (i + 1) * unit
      BY <1>2, <1>5, <2>1, ProductGrows
    <3>2. (x + 1) * unit = unit * x + unit /\ unit * x \in Int /\ (i + 1) * unit \in Int
      BY <1>2, <1>5, <2>1
    <3> QED
      BY <1>1, <1>2, <1>5, <3>1, <3>2
  <2>3. i * unit < all
    <3>1. CASE i = x
      <4>1. i * unit = unit * x /\ unit * x \in Int
        BY <1>2, <1>5, <3>1
      <4> QED
        BY <1>1, <1>2, <1>5, <4>1
    <3>2. CASE i # x
      <4>1. i <= y - 1
        BY <1>5, <1>6, <1>9, <2>1, <3>2
      <4>2. i * unit <= (y - 1) * unit /\ (y - 1) * unit = unit * y - unit
            /\ unit * y \in Int /\ i * unit \in Int
        BY <1>2, <1>6, <2>1, <4>1, ProductGrows
      <4> QED
        BY <1>1, <1>2, <1>6, <4>2
    <3> QED
      BY <3>1, <3>2
  <2> QED
    BY <2>2, <2>3
<1>11. ASSUME NEW i \in 0 .. size - 1, at < (i + 1) * unit, i * unit < next PROVE i \in source
  <2>1. i \in Nat /\ i < size
    BY <1>0
  <2>2. x <= i
    <3>1. x * unit < (i + 1) * unit
      <4>1. x * unit = unit * x /\ unit * x \in Int /\ (i + 1) * unit \in Int
        BY <1>2, <1>5, <2>1
      <4> QED
        BY <1>1, <1>5, <1>11, <4>1
    <3>2. x < i + 1
      BY <1>2, <1>5, <2>1, <3>1, Cancelled
    <3> QED
      BY <1>5, <2>1, <3>2
  <2>3. i < y
    <3>1. i * unit < y * unit
      <4>1. y * unit = unit * y /\ unit * y \in Int /\ i * unit \in Int
        BY <1>2, <1>6, <2>1
      <4> QED
        BY <1>1, <1>6, <1>11, <4>1
    <3> QED
      BY <1>2, <1>6, <2>1, <3>1, Cancelled
  <2> QED
    BY <1>5, <1>8, <1>9, <2>1, <2>2, <2>3
<1>12. \E lo, h \in 0 .. size - 1 : lo <= h /\ source = lo .. h
  BY <1>8, <1>9
<1> QED
  BY <1>10, <1>11, <1>12 DEF source, at, next, unit, all

(* A bin that reaches into the view is shown by some column. *)
LEMMA SomeColumn ==
  ASSUME NEW size, NEW begin, NEW end, NEW requested, Drawn(size, begin, end, requested),
         NEW i \in 0 .. size - 1, (i + 1) * ViewSteps > begin * size, i * ViewSteps < end * size
  PROVE  \E k \in 1 .. requested :
           /\ ColumnStart(size, begin, end, requested, k) < (i + 1) * (ViewSteps * requested)
           /\ i * (ViewSteps * requested) < ColumnStart(size, begin, end, requested, k + 1)
<1> DEFINE at(k) == ColumnStart(size, begin, end, requested, k)
           unit == ViewSteps * requested
           Ends == {k \in 1 .. requested : i * unit < at(k + 1)}
<1>0. /\ size \in Nat \ {0} /\ requested \in Nat \ {0} /\ ViewSteps \in Nat \ {0}
      /\ begin \in Nat /\ end \in Nat /\ begin < end /\ end <= ViewSteps /\ i \in Nat
  BY DEF Drawn
<1>1. /\ \A k \in 1 .. requested + 1 : at(k) \in Nat
      /\ at(1) = size * begin * requested /\ at(requested + 1) = size * end * requested
  BY ColumnStarts
<1>2. i * unit < at(requested + 1)
  <2>1. (i * ViewSteps) * requested < (end * size) * requested
    <3>1. i * ViewSteps \in Int /\ end * size \in Int /\ i * ViewSteps < end * size
      BY <1>0
    <3> QED
      BY <1>0, <3>1, Cancelled
  <2>2. (i * ViewSteps) * requested = i * unit /\ (end * size) * requested = size * end * requested
    BY <1>0
  <2> HIDE DEF at, unit
  <2> QED
    BY <1>1, <2>1, <2>2
<1>3. at(1) < (i + 1) * unit
  <2>1. (begin * size) * requested < ((i + 1) * ViewSteps) * requested
    <3>1. (i + 1) * ViewSteps \in Int /\ begin * size \in Int /\ begin * size < (i + 1) * ViewSteps
      BY <1>0
    <3> QED
      BY <1>0, <3>1, Cancelled
  <2>2. ((i + 1) * ViewSteps) * requested = (i + 1) * unit
        /\ (begin * size) * requested = size * begin * requested
    BY <1>0
  <2> HIDE DEF at, unit
  <2> QED
    BY <1>1, <2>1, <2>2
<1>4. unit \in Nat \ {0}
  <2>1. 1 * requested <= ViewSteps * requested
    BY <1>0, ProductGrows
  <2> QED
    BY <1>0, <2>1
<1> HIDE DEF at, unit
<1>5. Ends # {} /\ Ends \subseteq Nat
  <2>1. requested \in 1 .. requested
    BY <1>0
  <2> QED
    BY <1>2, <2>1
<1>6. PICK k \in Ends : \A j \in Ends : k <= j
  <2> HIDE DEF Ends
  <2> QED
    BY <1>5, LeastNatural
<1>7. k \in 1 .. requested /\ i * unit < at(k + 1)
  BY <1>6
<1>8. at(k) < (i + 1) * unit
  <2>1. CASE k = 1
    BY <1>3, <2>1
  <2>2. CASE k # 1
    <3>1. k - 1 \in 1 .. requested /\ (k - 1) + 1 = k /\ k \in 1 .. requested + 1 /\ ~ (k <= k - 1)
      BY <1>0, <1>7, <2>2
    <3>2. ~ (i * unit < at(k))
      <4>1. k - 1 \notin Ends
        <5> HIDE DEF Ends
        <5> QED
          BY <1>6, <3>1
      <4> QED
        BY <3>1, <4>1
    <3>3. at(k) \in Nat /\ (i + 1) * unit = i * unit + unit /\ i * unit \in Int
      BY <1>0, <1>1, <1>4, <3>1
    <3> QED
      BY <1>4, <3>2, <3>3
  <2> QED
    BY <2>1, <2>2
<1> QED
  BY <1>7, <1>8 DEF at, unit

(* A column has the extremes of the bins it shows, which are in view. *)
LEMMA ColumnExtremes ==
  ASSUME NEW made \in Seq(Reached), NEW begin, NEW end, NEW requested,
         Drawn(Len(made), begin, end, requested), NEW k \in 1 .. requested
  PROVE  LET column == ResampleWaveform(made, begin, end, requested)[k]
             source == ColumnSource(Len(made), begin, end, requested, k)
         IN  /\ \E i \in source : made[i + 1].minimum = column.minimum
             /\ \E i \in source : made[i + 1].maximum = column.maximum
             /\ \A i \in source :
                  column.minimum <= made[i + 1].minimum /\ made[i + 1].maximum <= column.maximum
<1> DEFINE column == ResampleWaveform(made, begin, end, requested)[k]
           source == ColumnSource(Len(made), begin, end, requested, k)
           shown == {made[i + 1] : i \in source}
<1>0. /\ Len(made) \in Nat \ {0} /\ requested \in Nat \ {0} /\ 0 <= begin /\ begin < end
      /\ end <= ViewSteps
  BY DEF Drawn
<1>1. PICK lo \in 0 .. Len(made) - 1, hi \in 0 .. Len(made) - 1 : lo <= hi /\ source = lo .. hi
  BY ColumnShows
<1>2. ValidView(made, begin, end, requested)
  <2>1. made # <<>>
    BY <1>0
  <2> QED
    BY <1>0, <2>1 DEF ValidView
<1>3. column = [minimum |-> CHOOSE low \in {bin.minimum : bin \in shown} :
                              \A bin \in shown : low <= bin.minimum,
                maximum |-> CHOOSE high \in {bin.maximum : bin \in shown} :
                              \A bin \in shown : bin.maximum <= high]
  BY <1>2, Zenon DEF ResampleWaveform
<1>4. \A i \in source : i + 1 \in 1 .. Len(made) /\ made[i + 1] \in Reached
  <2>1. \A i \in source : i + 1 \in 1 .. Len(made)
    <3> HIDE DEF source
    <3> QED
      BY <1>0, <1>1
  <2> HIDE DEF source
  <2> QED
    BY <2>1
<1>5. \A i \in source : made[i + 1].minimum \in Int /\ made[i + 1].maximum \in Int
  <2> HIDE DEF source
  <2> QED
    BY <1>4, Field
<1> HIDE DEF source
<1>6. \E i \in source : \A j \in source : made[i + 1].minimum <= made[j + 1].minimum
  <2> DEFINE f == [i \in lo .. hi |-> made[i + 1].minimum]
  <2>1. \A i \in lo .. hi : f[i] = made[i + 1].minimum /\ f[i] \in Int
    BY <1>1, <1>5
  <2>2. lo \in Int /\ hi \in Int
    BY <1>1
  <2> HIDE DEF f
  <2>3. \E i \in lo .. hi : \A j \in lo .. hi : f[i] <= f[j]
    BY <1>1, <2>1, <2>2, Extremes
  <2> QED
    BY <1>1, <2>1, <2>3
<1>7. \E i \in source : \A j \in source : made[j + 1].maximum <= made[i + 1].maximum
  <2> DEFINE f == [i \in lo .. hi |-> made[i + 1].maximum]
  <2>1. \A i \in lo .. hi : f[i] = made[i + 1].maximum /\ f[i] \in Int
    BY <1>1, <1>5
  <2>2. lo \in Int /\ hi \in Int
    BY <1>1
  <2> HIDE DEF f
  <2>3. \E i \in lo .. hi : \A j \in lo .. hi : f[j] <= f[i]
    BY <1>1, <2>1, <2>2, Extremes
  <2> QED
    BY <1>1, <2>1, <2>3
<1>8. /\ column.minimum \in {bin.minimum : bin \in shown}
      /\ \A bin \in shown : column.minimum <= bin.minimum
  <2>1. \E low \in {bin.minimum : bin \in shown} : \A bin \in shown : low <= bin.minimum
    BY <1>6
  <2>2. column.minimum = CHOOSE low \in {bin.minimum : bin \in shown} :
                           \A bin \in shown : low <= bin.minimum
    BY <1>3
  <2> HIDE DEF shown, column
  <2> QED
    BY <2>1, <2>2
<1>9. /\ column.maximum \in {bin.maximum : bin \in shown}
      /\ \A bin \in shown : bin.maximum <= column.maximum
  <2>1. \E high \in {bin.maximum : bin \in shown} : \A bin \in shown : bin.maximum <= high
    BY <1>7
  <2>2. column.maximum = CHOOSE high \in {bin.maximum : bin \in shown} :
                           \A bin \in shown : bin.maximum <= high
    BY <1>3
  <2> HIDE DEF shown, column
  <2> QED
    BY <2>1, <2>2
<1> HIDE DEF column
<1>10. /\ \E i \in source : made[i + 1].minimum = column.minimum
       /\ \E i \in source : made[i + 1].maximum = column.maximum
       /\ \A i \in source :
            column.minimum <= made[i + 1].minimum /\ made[i + 1].maximum <= column.maximum
  BY <1>8, <1>9
<1> QED
  BY <1>10 DEF column, source

LEMMA PeaksKept == ReducerAssumption /\ ReducerInv => NoPeakLost
<1> DEFINE begin == bin_view.begin
           end == bin_view.end
           requested == bin_view.requested
           size == Len(bins)
           inside == {bins[i] : i \in {j \in DOMAIN bins : BinInView(j)}}
<1> SUFFICES ASSUME ReducerAssumption, ReducerInv, 0 <= begin, begin < end, end <= ViewSteps,
                    requested > 0
             PROVE  /\ Len(columns) = requested
                    /\ \A bin \in inside :
                         /\ \E k \in DOMAIN columns : columns[k].minimum <= bin.minimum
                         /\ \E k \in DOMAIN columns : bin.maximum <= columns[k].maximum
                    /\ \A k \in DOMAIN columns :
                         /\ \E bin \in inside : bin.minimum = columns[k].minimum
                         /\ \E bin \in inside : bin.maximum = columns[k].maximum
  BY DEF NoPeakLost
<1>1. bins \in Seq(Reached) /\ begin \in Int /\ end \in Int /\ requested \in Nat
  BY DEF ReducerInv
<1>2. phase = "finished" /\ bins # <<>> /\ columns = ResampleWaveform(bins, begin, end, requested)
  <2>1. bin_view # NoView
    BY <1>1 DEF NoView
  <2> QED
    BY <2>1 DEF ReducerInv
<1>3. Drawn(size, begin, end, requested)
  <2>1. size \in Nat \ {0}
    BY <1>1, <1>2
  <2>2. ViewSteps \in Nat \ {0}
    BY DEF ReducerAssumption
  <2> QED
    BY <1>1, <2>1, <2>2 DEF Drawn
<1>4. DOMAIN columns = 1 .. requested /\ Len(columns) = requested
  <2>1. ValidView(bins, begin, end, requested)
    BY <1>1, <1>2 DEF ValidView
  <2> DEFINE drawn(k) == LET shown == {bins[i + 1] : i \in ColumnSource(size, begin, end, requested, k)}
                         IN  [minimum |-> CHOOSE low \in {bin.minimum : bin \in shown} :
                                            \A bin \in shown : low <= bin.minimum,
                              maximum |-> CHOOSE high \in {bin.maximum : bin \in shown} :
                                            \A bin \in shown : bin.maximum <= high]
  <2>2. columns = [k \in 1 .. requested |-> drawn(k)]
    BY <1>2, <2>1, Zenon DEF ResampleWaveform
  <2> HIDE DEF drawn, requested
  <2> QED
    BY <1>1, <2>2
<1>5. DOMAIN bins = 1 .. size /\ size \in Nat \ {0} /\ requested \in Nat \ {0}
      /\ ViewSteps \in Nat \ {0} /\ begin \in Nat /\ end \in Nat
  BY <1>1, <1>3 DEF Drawn
<1> DEFINE source(k) == ColumnSource(size, begin, end, requested, k)
           at(k) == ColumnStart(size, begin, end, requested, k)
           unit == ViewSteps * requested
<1>6. ASSUME NEW k \in 1 .. requested
      PROVE  /\ \E i \in source(k) : bins[i + 1].minimum = columns[k].minimum
             /\ \E i \in source(k) : bins[i + 1].maximum = columns[k].maximum
             /\ \A i \in source(k) : columns[k].minimum <= bins[i + 1].minimum
                                     /\ bins[i + 1].maximum <= columns[k].maximum
  BY <1>1, <1>2, <1>3, ColumnExtremes
<1>7. ASSUME NEW k \in 1 .. requested
      PROVE  /\ \A i \in source(k) : i \in 0 .. size - 1 /\ at(k) < (i + 1) * unit
                                     /\ i * unit < size * end * requested
             /\ \A i \in 0 .. size - 1 :
                  at(k) < (i + 1) * unit /\ i * unit < at(k + 1) => i \in source(k)
  <2>1. PICK lo, hi \in 0 .. size - 1 : lo <= hi /\ source(k) = lo .. hi
    BY <1>3, ColumnShows
  <2>2. \A i \in source(k) : i \in 0 .. size - 1
    <3> HIDE DEF source, size
    <3> QED
      BY <1>5, <2>1
  <2>3. /\ \A i \in source(k) : at(k) < (i + 1) * unit /\ i * unit < size * end * requested
        /\ \A i \in 0 .. size - 1 :
             at(k) < (i + 1) * unit /\ i * unit < at(k + 1) => i \in source(k)
    BY <1>3, ColumnShows
  <2> QED
    BY <2>2, <2>3
<1>8. \A k \in 1 .. requested : size * begin * requested <= at(k) /\ at(k) \in Nat
  <2>1. \A k \in 1 .. requested : k \in 1 .. requested + 1
    BY <1>1
  <2>2. \A k \in 1 .. requested + 1 : at(k) \in Nat
    BY <1>3, ColumnStarts
  <2>3. \A k \in 1 .. requested : size * begin * requested <= at(k)
    BY <1>3, ColumnStarts
  <2> QED
    BY <2>1, <2>2, <2>3
<1> HIDE DEF source, at
<1>9. ASSUME NEW k \in 1 .. requested, NEW i \in source(k) PROVE bins[i + 1] \in inside
  <2>1. i \in Nat /\ i + 1 \in 1 .. size /\ (i + 1) - 1 = i
    <3>1. i \in 0 .. size - 1
      BY <1>7, Zenon
    <3>2. size \in Nat
      BY <1>5
    <3> HIDE DEF size
    <3> QED
      BY <3>1, <3>2
  <2>2. (begin * size) * requested < ((i + 1) * ViewSteps) * requested
    <3>1. at(k) < (i + 1) * unit /\ size * begin * requested <= at(k) /\ at(k) \in Nat
      <4> HIDE DEF requested, unit, size, begin
      <4>1. at(k) < (i + 1) * unit
        BY <1>7
      <4>2. size * begin * requested <= at(k) /\ at(k) \in Nat
        BY <1>8
      <4> QED
        BY <4>1, <4>2
    <3>2. (begin * size) * requested = size * begin * requested
          /\ ((i + 1) * ViewSteps) * requested = (i + 1) * unit
          /\ size * begin * requested \in Int /\ (i + 1) * unit \in Int
      <4> HIDE DEF begin, size, requested
      <4>1. (begin * size) * requested = size * begin * requested
        BY <1>5
      <4>2. ((i + 1) * ViewSteps) * requested = (i + 1) * unit
        BY <1>5, <2>1
      <4>3. size * begin * requested \in Int /\ (i + 1) * unit \in Int
        BY <1>5, <2>1
      <4> QED
        BY <4>1, <4>2, <4>3
    <3> DEFINE from == size * begin * requested
               upto == (i + 1) * unit
    <3>3. from <= at(k) /\ at(k) < upto /\ from \in Int /\ upto \in Int /\ at(k) \in Nat
      BY <3>1, <3>2
    <3>4. from < upto
      <4> HIDE DEF from, upto
      <4> QED
        BY <3>3
    <3> QED
      BY <3>2, <3>4, Zenon
  <2>3. (i * ViewSteps) * requested < (end * size) * requested
    <3>1. i * unit < size * end * requested
      BY <1>7
    <3>2. (i * ViewSteps) * requested = i * unit
          /\ (end * size) * requested = size * end * requested
      <4> HIDE DEF end, size, requested
      <4>1. (i * ViewSteps) * requested = i * unit
        BY <1>5, <2>1
      <4>2. (end * size) * requested = size * end * requested
        BY <1>5
      <4> QED
        BY <4>1, <4>2
    <3> QED
      BY <3>1, <3>2
  <2>4. /\ begin * size \in Int /\ (i + 1) * ViewSteps \in Int /\ i * ViewSteps \in Int
        /\ end * size \in Int
    BY <1>5, <2>1
  <2>5. begin * size < (i + 1) * ViewSteps /\ i * ViewSteps < end * size
    BY <1>5, <2>2, <2>3, <2>4, Cancelled
  <2>6. BinInView(i + 1)
    BY <2>1, <2>4, <2>5 DEF BinInView
  <2> QED
    BY <1>5, <2>1, <2>6
<1>10. ASSUME NEW bin \in inside
       PROVE  \E k \in 1 .. requested : \E i \in source(k) : bin = bins[i + 1]
  <2>1. PICK j \in 1 .. size : BinInView(j) /\ bin = bins[j]
    BY <1>5
  <2> DEFINE i == j - 1
  <2>2. i \in 0 .. size - 1 /\ i + 1 = j
    BY <1>5, <2>1
  <2>3. (i + 1) * ViewSteps > begin * size /\ i * ViewSteps < end * size
    BY <2>1, <2>2 DEF BinInView
  <2> HIDE DEF i
  <2>4. PICK k \in 1 .. requested : at(k) < (i + 1) * unit /\ i * unit < at(k + 1)
    BY <1>3, <2>2, <2>3, SomeColumn DEF at
  <2>5. i \in source(k)
    BY <1>7, <2>2, <2>4
  <2> QED
    BY <2>1, <2>2, <2>5
<1> HIDE DEF inside
<1>11. ASSUME NEW bin \in inside
       PROVE  /\ \E k \in DOMAIN columns : columns[k].minimum <= bin.minimum
              /\ \E k \in DOMAIN columns : bin.maximum <= columns[k].maximum
  <2>1. PICK k \in 1 .. requested : \E i \in source(k) : bin = bins[i + 1]
    BY <1>10
  <2>2. columns[k].minimum <= bin.minimum /\ bin.maximum <= columns[k].maximum
    BY <1>6, <2>1
  <2> QED
    BY <1>4, <2>2
<1>12. ASSUME NEW k \in DOMAIN columns
       PROVE  /\ \E bin \in inside : bin.minimum = columns[k].minimum
              /\ \E bin \in inside : bin.maximum = columns[k].maximum
  <2>1. k \in 1 .. requested
    BY <1>4
  <2> QED
    BY <1>6, <1>9, <2>1
<1> QED
  BY <1>4, <1>11, <1>12

(* For any bins, view and number of columns, also more columns than bins:  *)
(* the extremes of the columns that resample_waveform makes                *)
(* (src/core/waveform.cpp) are those of the bins in view. Every bin in     *)
(* view is shown by some column, and a column shows no other bins.         *)
THEOREM PeaksAreKept == ASSUME ReducerAssumption PROVE DecodeSpec => []NoPeakLost
<1>1. ReducerInv => NoPeakLost
  BY PeaksKept
<1> QED
  BY <1>1, ReducerAlways, PTL

==============================================================================
