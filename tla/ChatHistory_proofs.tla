------------------------- MODULE ChatHistory_proofs -------------------------
(***************************************************************************)
(* Proofs about the operators of ChatHistory, for lists over any set of     *)
(* messages: how lists are cut, repaired and extended, and when they stay  *)
(* such that a provider accepts them.  SessionHistory_proofs and           *)
(* TurnRunner_proofs rest on them.                                         *)
(***************************************************************************)
EXTENDS ChatHistory, FiniteSetTheorems, SequenceTheorems, WellFoundedInduction, TLAPS

(* Induction over the numbers, as the search for a least counterexample.   *)
LEMMA Counting ==
    ASSUME NEW S \in SUBSET Nat, 0 \in S, \A n \in S : n + 1 \in S
    PROVE  Nat \subseteq S
<1> DEFINE Below == OpToRel(<, Nat)
           Rest == Nat \ S
<1>1. IsWellFoundedOn(Below, Nat)
  BY NatLessThanWellFounded
<1>2. \A x, y \in Nat : y < x => <<y, x>> \in Below
  BY DEF OpToRel
<1> HIDE DEF Below
<1>3. SUFFICES ASSUME Rest # {} PROVE FALSE
  OBVIOUS
<1>4. PICK x \in Rest : \A y \in Rest : <<y, x>> \notin Below
  <2>1. Rest \in SUBSET Nat
    OBVIOUS
  <2> HIDE DEF Rest
  <2> QED
    BY <1>1, <1>3, <2>1, WFMin, Zenon
<1>5. x \in Nat /\ x # 0 /\ x \notin S
  OBVIOUS
<1>6. x - 1 \in Nat /\ x - 1 < x /\ (x - 1) + 1 = x
  BY <1>5
<1>7. x - 1 \in S
  BY <1>2, <1>4, <1>5, <1>6
<1> QED
  BY <1>5, <1>6, <1>7

(* The same for an interval, which is how the folds below are followed.     *)
LEMMA CountingTo ==
    ASSUME NEW N \in Nat, NEW K, 0 \in K, \A k \in 1 .. N : k - 1 \in K => k \in K
    PROVE  0 .. N \subseteq K
<1> DEFINE S == {n \in Nat : n <= N => n \in K}
<1>1. 0 \in S
  OBVIOUS
<1>2. ASSUME NEW n \in S PROVE n + 1 \in S
  <2>1. n + 1 <= N => n + 1 \in 1 .. N /\ (n + 1) - 1 = n /\ n <= N
    OBVIOUS
  <2> QED
    BY <2>1
<1>3. Nat \subseteq S
  <2>1. S \in SUBSET Nat
    OBVIOUS
  <2> HIDE DEF S
  <2> QED
    BY <1>1, <1>2, <2>1, Counting
<1> QED
  BY <1>3

(* The functions that MapThenFoldSet chooses exist, for a fold over the    *)
(* indices of a list whose steps stay in a set of values.                  *)
Folds(g, V, base, N, F) == 
    /\ g \in [SUBSET (1 .. N) -> V]
    /\ \A s \in SUBSET (1 .. N) :
          g[s] = IF s = {} THEN base ELSE F[<<g[s \ {Max(s)}], Max(s)>>]

(* FoldLeft, taken apart: the intermediate values are a sequence of steps. *)
LEMMA FoldExists ==
    ASSUME NEW V, NEW base \in V, NEW N \in Nat, NEW F \in [V \X (1 .. N) -> V]
    PROVE  \E g : Folds(g, V, base, N, F)
<1> DEFINE Good(n, g) == Folds(g, V, base, n, F)
           S == {n \in Nat : n <= N => \E g : Good(n, g)}
<1> USE DEF Folds
<1>1. 0 \in S
  <2> DEFINE g == [s \in SUBSET (1 .. 0) |-> base]
  <2>1. 1 .. 0 = {}
    OBVIOUS
  <2>2. Good(0, g)
    BY <2>1
  <2> QED
    BY <2>2
<1>2. ASSUME NEW n \in S PROVE n + 1 \in S
  <2>1. n \in Nat /\ n + 1 \in Nat
    OBVIOUS
  <2>2. SUFFICES ASSUME n + 1 <= N PROVE \E g : Good(n + 1, g)
    BY <2>1
  <2>3. PICK f : Good(n, f)
    <3>1. n <= N
      BY <2>1, <2>2
    <3> HIDE DEF Good
    <3> QED
      BY <3>1
  <2> DEFINE g == [s \in SUBSET (1 .. n + 1) |-> 
                     IF n + 1 \in s THEN F[<<f[s \ {n + 1}], n + 1>>] ELSE f[s]]
  <2>4. \A s \in SUBSET (1 .. n + 1) : s \ {n + 1} \in SUBSET (1 .. n)
    BY <2>1
  <2>5. ASSUME NEW s \in SUBSET (1 .. n + 1), n + 1 \in s 
        PROVE  Max(s) = n + 1
    <3>1. \A y \in s : n + 1 >= y
      BY <2>1
    <3>2. \A x \in s : (\A y \in s : x >= y) => x = n + 1
      BY <2>1, <2>5
    <3> QED
      BY <2>5, <3>1, <3>2 DEF Max
  <2>6. ASSUME NEW s \in SUBSET (1 .. n + 1), n + 1 \notin s, s # {}
        PROVE  s \in SUBSET (1 .. n) /\ s \ {Max(s)} \in SUBSET (1 .. n) /\ n + 1 \notin s \ {Max(s)}
    BY <2>4, <2>6
  <2>7. g \in [SUBSET (1 .. n + 1) -> V]
    <3>1. n + 1 \in 1 .. N
      BY <2>1, <2>2
    <3> QED
      BY <2>3, <2>4, <3>1
  <2>8. ASSUME NEW s \in SUBSET (1 .. n + 1)
        PROVE  g[s] = IF s = {} THEN base ELSE F[<<g[s \ {Max(s)}], Max(s)>>]
    <3>1. CASE n + 1 \in s
      <4>1. g[s \ {n + 1}] = f[s \ {n + 1}]
        BY <2>1, <2>4
      <4> QED
        BY <2>5, <3>1, <4>1
    <3>2. CASE n + 1 \notin s
      <4>1. s \in SUBSET (1 .. n) /\ g[s] = f[s]
        BY <2>4, <3>2
      <4>2. s # {} => g[s \ {Max(s)}] = f[s \ {Max(s)}]
        BY <2>6, <3>2
      <4> QED
        BY <2>3, <4>1, <4>2
    <3> QED
      BY <3>1, <3>2
  <2> HIDE DEF g
  <2> QED
    BY <2>7, <2>8
<1>3. N \in S
  <2> HIDE DEF S
  <2>1. S \in SUBSET Nat
    BY DEF S
  <2> QED
    BY <1>1, <1>2, <2>1, Counting
<1> HIDE DEF Good, Folds
<1>4. \E g : Good(N, g)
  BY <1>3
<1> QED
  BY <1>4 DEF Good

(* The values a fold over a list goes through: one for each of its prefixes. *)
LEMMA UpToNumber ==
    ASSUME NEW n \in Nat \ {0}
    PROVE  /\ 1 .. n # {} /\ Max(1 .. n) = n 
           /\ (1 .. n) \ {n} = 1 .. n - 1 /\ n - 1 \in Nat
<1>1. n \in 1 .. n /\ \A y \in 1 .. n : n >= y
  OBVIOUS
<1>2. \A x \in 1 .. n : (\A y \in 1 .. n : x >= y) => x = n
  BY <1>1
<1>3. Max(1 .. n) = n
  BY <1>1, <1>2 DEF Max
<1> QED
  BY <1>3

LEMMA LargestIn ==
    ASSUME NEW N \in Nat, NEW s \in SUBSET (1 .. N), s # {}
    PROVE  Max(s) \in s /\ \A y \in s : Max(s) >= y
<1> DEFINE P(n) == \A u \in SUBSET (1 .. n) : u # {} => \E x \in u : \A y \in u : x >= y
           S == {n \in Nat : P(n)}
<1>1. 0 \in S
  <2>1. 1 .. 0 = {}
    OBVIOUS
  <2> QED
    BY <2>1
<1>2. ASSUME NEW n \in S PROVE n + 1 \in S
  <2> SUFFICES ASSUME NEW u \in SUBSET (1 .. n + 1), u # {}
               PROVE  \E x \in u : \A y \in u : x >= y
    OBVIOUS
  <2>1. CASE n + 1 \in u
    BY <2>1
  <2>2. CASE n + 1 \notin u
    <3>1. u \in SUBSET (1 .. n)
      BY <2>2
    <3> QED
      BY <3>1
  <2> QED
    BY <2>1, <2>2
<1>3. N \in S
  <2> HIDE DEF P
  <2>1. S \in SUBSET Nat
    OBVIOUS
  <2> HIDE DEF S
  <2> QED
    BY <1>1, <1>2, <2>1, Counting
<1>4. \E x \in s : \A y \in s : x >= y
  BY <1>3
<1> QED
  BY <1>4 DEF Max

(* find_legal_message_start as a run of its loop.                          *)
LEMMA LegalStartRuns ==
    ASSUME NEW S, NEW h \in Seq(S)
    PROVE  \E r \in [0 .. Len(h) -> Nat] :
              /\ r[0] = 0 /\ LegalStart(h) = r[Len(h)]
              /\ \A k \in 1 .. Len(h) : r[k] = Moved(h, r[k - 1], k)
<1> DEFINE seq == [i \in 1 .. Len(h) |-> i]
           G == CHOOSE iter : iter = [s \in SUBSET (DOMAIN seq) |->
                   IF s = {} THEN 0 ELSE Moved(h, iter[s \ {Max(s)}], seq[Max(s)])]
           F == [p \in Nat \X (1 .. Len(h)) |-> Moved(h, p[1], p[2])]
<1>1. Len(h) \in Nat /\ DOMAIN seq = 1 .. Len(h)
  OBVIOUS
<1>2. LegalStart(h) = G[DOMAIN seq]
  BY Zenon DEF LegalStart, FoldLeft, MapThenFoldSet
<1>3. F \in [Nat \X (1 .. Len(h)) -> Nat]
  BY DEF Moved
<1>4. ASSUME NEW s \in SUBSET (1 .. Len(h)), s # {} PROVE Max(s) \in 1 .. Len(h)
  BY <1>1, <1>4, LargestIn
<1>5. PICK g : Folds(g, Nat, 0, Len(h), F)
  <2> HIDE DEF F
  <2> QED
    BY <1>1, <1>3, FoldExists
<1>6. \A s \in SUBSET (1 .. Len(h)) : 
         g[s] = IF s = {} THEN 0 ELSE Moved(h, g[s \ {Max(s)}], seq[Max(s)])
  <2> TAKE s \in SUBSET (1 .. Len(h))
  <2>1. s # {} => g[s \ {Max(s)}] \in Nat
    BY <1>5 DEF Folds
  <2>2. s # {} => /\ F[<<g[s \ {Max(s)}], Max(s)>>] = Moved(h, g[s \ {Max(s)}], Max(s))
                 /\ seq[Max(s)] = Max(s)
    BY <1>4, <2>1
  <2> HIDE DEF F, seq
  <2> QED
    BY <1>5, <2>2 DEF Folds
<1>7. g = [s \in SUBSET (DOMAIN seq) |->
              IF s = {} THEN 0 ELSE Moved(h, g[s \ {Max(s)}], seq[Max(s)])]
  <2>1. g = [s \in SUBSET (DOMAIN seq) |-> g[s]]
    BY <1>1, <1>5 DEF Folds
  <2> HIDE DEF seq
  <2> QED
    BY <1>1, <1>6, <2>1
<1>12. G = [s \in SUBSET (DOMAIN seq) |->
              IF s = {} THEN 0 ELSE Moved(h, G[s \ {Max(s)}], seq[Max(s)])]
  <2> HIDE DEF seq
  <2> QED
    BY <1>7
<1> DEFINE r == [k \in 0 .. Len(h) |-> G[1 .. k]]
<1> HIDE DEF G
<1>8. \A s \in SUBSET (1 .. Len(h)) :
         G[s] = IF s = {} THEN 0 ELSE Moved(h, G[s \ {Max(s)}], seq[Max(s)])
  <2> HIDE DEF seq
  <2> QED
    BY <1>1, <1>12
<1>9. r[0] = 0 /\ LegalStart(h) = r[Len(h)]
  <2>1. r[0] = G[{}] /\ {} \in SUBSET (1 .. Len(h))
    BY <1>1
  <2>2. G[{}] = 0
    BY <1>8
  <2> QED
    BY <1>1, <1>2, <2>1, <2>2
<1>10. ASSUME NEW k \in 1 .. Len(h) PROVE r[k] = Moved(h, r[k - 1], k)
  <2>1. k \in Nat /\ k # 0 /\ 1 .. k \in SUBSET (1 .. Len(h)) /\ k - 1 \in 0 .. Len(h) /\ seq[k] = k
    BY <1>1
  <2>2. G[1 .. k] = Moved(h, G[1 .. k - 1], seq[k])
    BY <1>8, <2>1, UpToNumber
  <2> QED
    BY <2>1, <2>2
<1>11. r \in [0 .. Len(h) -> Nat]
  <2> DEFINE K == {k \in Nat : k <= Len(h) => r[k] \in Nat}
  <2>1. 0 \in K
    BY <1>9
  <2>2. ASSUME NEW k \in K PROVE k + 1 \in K
    <3>1. k + 1 <= Len(h) => r[k + 1] = Moved(h, r[k], k + 1) /\ r[k] \in Nat
      <4> HIDE DEF r
      <4> QED
        BY <1>1, <1>10
    <3> HIDE DEF r
    <3> QED
      BY <3>1 DEF Moved
  <2>3. Nat \subseteq K
    <3>1. K \in SUBSET Nat
      OBVIOUS
    <3> HIDE DEF K
    <3> QED
      BY <2>1, <2>2, <3>1, Counting
  <2>4. \A k \in 0 .. Len(h) : r[k] \in Nat
    <3> HIDE DEF r
    <3> QED
      BY <1>1, <2>3
  <2> QED
    BY <2>4
<1> HIDE DEF r
<1> QED
  BY <1>9, <1>10, <1>11

-----------------------------------------------------------------------------
(* Lists of messages, message by message.                                  *)
Declares(h, a, c) == h[a].role = "assistant" /\ c \in ToSet(h[a].calls)
Gives(h, j, c) == h[j].role = "tool" /\ h[j].id = c
Full(h, i) == 
    LET n == Len(h[i].calls)
    IN  /\ i + n <= Len(h)
        /\ \A j \in i + 1 .. i + n : h[j].role = "tool" /\ h[j].id \in ToSet(h[i].calls)
        /\ \A c \in ToSet(h[i].calls) : \E j \in i + 1 .. i + n : Gives(h, j, c)
Bare(h, i) == \A j \in 1 .. i : h[j].role \in {"system", "tool"}

(* A list from which a head may have been cut off: its answers are complete, *)
(* no result comes twice, and only what a cut left at the head lacks a call. *)
Known(h, i) == \E a \in 1 .. i - 1 : Declares(h, a, h[i].id)
AllFull(h) == \A i \in 1 .. Len(h) : h[i].role = "assistant" => Full(h, i)
Once(h) == 
    \A i, j \in 1 .. Len(h) : h[i].role = "tool" /\ h[j].role = "tool" /\ h[i].id = h[j].id => i = j
Whole(h) == 
    /\ AllFull(h) /\ Once(h)
    /\ \A i \in 1 .. Len(h) : h[i].role = "tool" => Known(h, i) \/ Bare(h, i)

(* Nothing was cut off.                                                    *)
Legal(h) == AllFull(h) /\ Once(h) /\ \A i \in 1 .. Len(h) : h[i].role = "tool" => Known(h, i)

LEMMA ListOfItsOwn ==
    ASSUME NEW S, NEW s \in Seq(S)
    PROVE  s \in Seq(ToSet(s)) /\ \A x : x \in ToSet(s) <=> \E i \in 1 .. Len(s) : x = s[i]
  BY DEF ToSet

(* Lists over a set of messages whose answers hold lists of calls.          *)
Talk(M) == \A m \in M : m.role = "assistant" => m.calls \in Seq(ToSet(m.calls))

LEMMA CallsCounted ==
    ASSUME NEW M, Talk(M), NEW h \in Seq(M), NEW i \in 1 .. Len(h), h[i].role = "assistant"
    PROVE  h[i].calls \in Seq(ToSet(h[i].calls)) /\ Len(h[i].calls) \in Nat
<1>1. h[i] \in M
  OBVIOUS
<1>2. h[i].calls \in Seq(ToSet(h[i].calls))
  BY <1>1 DEF Talk
<1> QED
  BY <1>2

LEMMA SliceIs ==
    ASSUME NEW S, NEW h \in Seq(S), NEW m \in 1 .. Len(h) + 1, NEW n \in m - 1 .. Len(h)
    PROVE  /\ SubSeq(h, m, n) \in Seq(S) /\ Len(SubSeq(h, m, n)) = n - m + 1
           /\ \A j \in 1 .. n - m + 1 : SubSeq(h, m, n)[j] = h[m + j - 1]
  OBVIOUS

(* Declarations and results of a slice, by their place in the whole list.  *)
LEMMA DeclaredIn ==
    ASSUME NEW S, NEW h \in Seq(S), NEW m \in 1 .. Len(h) + 1, NEW n \in m - 1 .. Len(h), NEW c
    PROVE  c \in Declared(SubSeq(h, m, n)) <=> \E a \in m .. n : Declares(h, a, c)
<1> DEFINE u == SubSeq(h, m, n)
<1>1. DOMAIN u = 1 .. n - m + 1 /\ \A j \in 1 .. n - m + 1 : u[j] = h[m + j - 1]
  BY SliceIs
<1> HIDE DEF u
<1>2. c \in Declared(u) <=> \E j \in 1 .. n - m + 1 : Declares(u, j, c)
  BY <1>1 DEF Declared, Declares
<1>3. \A j \in 1 .. n - m + 1 : Declares(u, j, c) <=> Declares(h, m + j - 1, c)
  BY <1>1 DEF Declares
<1>4. (\E j \in 1 .. n - m + 1 : Declares(h, m + j - 1, c)) => \E a \in m .. n : Declares(h, a, c)
  OBVIOUS
<1>5. ASSUME NEW a \in m .. n, Declares(h, a, c) PROVE \E j \in 1 .. n - m + 1 : Declares(h, m + j - 1, c)
  <2>1. a - m + 1 \in 1 .. n - m + 1 /\ m + (a - m + 1) - 1 = a
    OBVIOUS
  <2> QED
    BY <1>5, <2>1
<1> QED
  BY <1>2, <1>3, <1>4, <1>5 DEF u

LEMMA FulfilledIn ==
    ASSUME NEW S, NEW h \in Seq(S), NEW m \in 1 .. Len(h) + 1, NEW n \in m - 1 .. Len(h), NEW c
    PROVE  c \in Fulfilled(SubSeq(h, m, n)) <=> \E j \in m .. n : Gives(h, j, c)
<1> DEFINE u == SubSeq(h, m, n)
<1>1. DOMAIN u = 1 .. n - m + 1 /\ \A j \in 1 .. n - m + 1 : u[j] = h[m + j - 1]
  BY SliceIs
<1> HIDE DEF u
<1>2. c \in Fulfilled(u) <=> \E j \in 1 .. n - m + 1 : Gives(u, j, c)
  BY <1>1 DEF Fulfilled, Gives
<1>3. \A j \in 1 .. n - m + 1 : Gives(u, j, c) <=> Gives(h, m + j - 1, c)
  BY <1>1 DEF Gives
<1>4. (\E j \in 1 .. n - m + 1 : Gives(h, m + j - 1, c)) => \E a \in m .. n : Gives(h, a, c)
  OBVIOUS
<1>5. ASSUME NEW a \in m .. n, Gives(h, a, c) PROVE \E j \in 1 .. n - m + 1 : Gives(h, m + j - 1, c)
  <2>1. a - m + 1 \in 1 .. n - m + 1 /\ m + (a - m + 1) - 1 = a
    OBVIOUS
  <2> QED
    BY <1>5, <2>1
<1> QED
  BY <1>2, <1>3, <1>4, <1>5 DEF u

LEMMA WholeList ==
    ASSUME NEW S, NEW h \in Seq(S), NEW c
    PROVE  /\ c \in Declared(h) <=> \E a \in 1 .. Len(h) : Declares(h, a, c)
           /\ c \in Fulfilled(h) <=> \E j \in 1 .. Len(h) : Gives(h, j, c)
<1>1. DOMAIN h = 1 .. Len(h)
  OBVIOUS
<1>2. c \in Declared(h) <=> \E a \in 1 .. Len(h) : Declares(h, a, c)
  BY <1>1 DEF Declared, Declares
<1> QED
  BY <1>1, <1>2 DEF Fulfilled, Gives

(* Orphans, answers and results, message by message.                       *)
LEMMA OrphansAre ==
    ASSUME NEW S, NEW h \in Seq(S), NEW i
    PROVE  i \in Orphans(h) <=> i \in 1 .. Len(h) /\ h[i].role = "tool" /\ ~Known(h, i)
<1>1. DOMAIN h = 1 .. Len(h) /\ Len(h) \in Nat
  OBVIOUS
<1>2. ASSUME i \in 1 .. Len(h) 
      PROVE  h[i].id \in Declared(Upto(h, i - 1)) <=> Known(h, i)
  <2>1. 1 \in 1 .. Len(h) + 1 /\ i - 1 \in 1 - 1 .. Len(h)
    BY <1>1, <1>2
  <2> QED
    BY <2>1, DeclaredIn DEF Upto, Known
<1> QED
  BY <1>1, <1>2 DEF Orphans

LEMMA AnsweredIs ==
    ASSUME NEW M, Talk(M), NEW h \in Seq(M), NEW i \in 1 .. Len(h), h[i].role = "assistant"
    PROVE  Answered(h, i) <=> Full(h, i)
<1> DEFINE n == Len(h[i].calls)
           next == SubSeq(h, i + 1, i + n)
<1>1. n \in Nat /\ Len(h) \in Nat
  BY CallsCounted
<1>2. ASSUME i + n <= Len(h)
      PROVE  Answered(h, i) <=> Full(h, i)
  <2>1. i + 1 \in 1 .. Len(h) + 1 /\ i + n \in (i + 1) - 1 .. Len(h) /\ (i + n) - (i + 1) + 1 = n
    BY <1>1, <1>2
  <2>2. DOMAIN next = 1 .. n /\ \A j \in 1 .. n : next[j] = h[(i + 1) + j - 1]
    <3> HIDE DEF n
    <3> QED
      BY <2>1, SliceIs
  <2>3. \A c : c \in Fulfilled(next) <=> \E j \in i + 1 .. i + n : Gives(h, j, c)
    <3> HIDE DEF n
    <3> QED
      BY <2>1, FulfilledIn
  <2>4. (\A j \in DOMAIN next : next[j].role = "tool") <=> \A j \in i + 1 .. i + n : h[j].role = "tool"
    <3> HIDE DEF n, next
    <3>1. ASSUME NEW j \in i + 1 .. i + n PROVE j - i \in 1 .. n /\ (i + 1) + (j - i) - 1 = j
      BY <1>1
    <3>2. ASSUME NEW j \in 1 .. n PROVE (i + 1) + j - 1 \in i + 1 .. i + n
      BY <1>1
    <3> QED
      BY <2>2, <3>1, <3>2
  <2>5. Fulfilled(next) = ToSet(h[i].calls) <=>
           /\ \A j \in i + 1 .. i + n : h[j].role = "tool" => h[j].id \in ToSet(h[i].calls)
           /\ \A c \in ToSet(h[i].calls) : \E j \in i + 1 .. i + n : Gives(h, j, c)
    <3> DEFINE calls == ToSet(h[i].calls)
               found == Fulfilled(next)
    <3>1. \A c : c \in found <=> \E j \in i + 1 .. i + n : Gives(h, j, c)
      BY <2>3
    <3> HIDE DEF n, next, calls, found
    <3>2. ASSUME found = calls, NEW j \in i + 1 .. i + n, h[j].role = "tool" PROVE h[j].id \in calls
      BY <3>1, <3>2 DEF Gives
    <3>3. ASSUME NEW c \in calls, found = calls PROVE \E j \in i + 1 .. i + n : Gives(h, j, c)
      BY <3>1, <3>3
    <3>4. ASSUME /\ \A j \in i + 1 .. i + n : h[j].role = "tool" => h[j].id \in calls
                 /\ \A c \in calls : \E j \in i + 1 .. i + n : Gives(h, j, c)
          PROVE  found = calls
      <4>1. \A c : c \in found <=> c \in calls
        BY <3>1, <3>4 DEF Gives
      <4> QED
        BY <4>1, Zenon
    <3> QED
      BY <3>2, <3>3, <3>4 DEF calls, found
  <2> QED
    BY <1>2, <2>4, <2>5 DEF Answered, Full
<1> QED
  BY <1>2 DEF Answered, Full

(* The pointwise legality is the one a provider asks for.                  *)
LEMMA LegalIs ==
    ASSUME NEW M, Talk(M), NEW h \in Seq(M)
    PROVE  LegalChat(h) <=> Legal(h)
<1>1. DOMAIN h = 1 .. Len(h)
  OBVIOUS
<1>2. Orphans(h) = {} <=> \A i \in 1 .. Len(h) : h[i].role = "tool" => Known(h, i)
  BY OrphansAre
<1>3. (\A i \in DOMAIN h : h[i].role = "assistant" => Answered(h, i)) <=> AllFull(h)
  BY <1>1, AnsweredIs DEF AllFull
<1> QED
  BY <1>1, <1>2, <1>3 DEF LegalChat, Legal, Once

-----------------------------------------------------------------------------
(* What the cuts and the additions of the code leave of a list.             *)
Shows(h, k, t) == Len(t) = Len(h) - k /\ \A j \in 1 .. Len(t) : t[j] = h[k + j]
Starts(h, g) == Len(h) <= Len(g) /\ \A j \in 1 .. Len(h) : g[j] = h[j]

LEMMA TailIs ==
    ASSUME NEW S, NEW h \in Seq(S), NEW k \in 0 .. Len(h)
    PROVE  LET t == SubSeq(h, k + 1, Len(h)) IN t \in Seq(S) /\ Shows(h, k, t)
<1>1. k + 1 \in 1 .. Len(h) + 1 /\ Len(h) \in (k + 1) - 1 .. Len(h) /\ Len(h) \in Nat
  OBVIOUS
<1> DEFINE t == SubSeq(h, k + 1, Len(h))
<1>2. t \in Seq(S) /\ Len(t) = Len(h) - (k + 1) + 1 /\ \A j \in 1 .. Len(h) - (k + 1) + 1 : t[j] = h[(k + 1) + j - 1]
  BY <1>1, SliceIs
<1> HIDE DEF t
<1>3. Len(h) - (k + 1) + 1 = Len(h) - k /\ \A j \in Nat : (k + 1) + j - 1 = k + j
  BY <1>1
<1>4. Shows(h, k, t)
  BY <1>1, <1>2, <1>3 DEF Shows
<1> QED
  BY <1>2, <1>4 DEF t

(* A result whose declaration was cut off stands behind results alone.      *)
LEMMA CutTail ==
    ASSUME NEW M, Talk(M), NEW h \in Seq(M), Whole(h), NEW k \in 0 .. Len(h), NEW t \in Seq(M), Shows(h, k, t)
    PROVE  Whole(t)
<1>1. /\ Len(t) \in Nat /\ Len(h) \in Nat /\ k \in Nat /\ Len(t) = Len(h) - k
      /\ \A j \in 1 .. Len(t) : t[j] = h[k + j] /\ k + j \in 1 .. Len(h)
  BY DEF Shows
<1>2. ASSUME NEW i \in 1 .. Len(t), t[i].role = "assistant" PROVE Full(t, i)
  <2>1. Full(h, k + i) /\ h[k + i] = t[i]
    BY <1>1, <1>2 DEF Whole, AllFull
  <2> DEFINE n == Len(t[i].calls)
  <2>2. n \in Nat
    BY <1>2, CallsCounted
  <2> HIDE DEF n
  <2>3. /\ (k + i) + n <= Len(h)
        /\ \A j \in k + i + 1 .. k + i + n : h[j].role = "tool" /\ h[j].id \in ToSet(t[i].calls)
        /\ \A c \in ToSet(t[i].calls) : \E j \in k + i + 1 .. k + i + n : Gives(h, j, c)
    BY <2>1 DEF Full, n
  <2>7. i + n <= Len(t) /\ i \in Nat
    BY <1>1, <2>2, <2>3
  <2>4. ASSUME NEW j \in i + 1 .. i + n PROVE k + j \in k + i + 1 .. k + i + n /\ t[j] = h[k + j]
    <3>1. j \in 1 .. Len(t) /\ k + j \in k + i + 1 .. k + i + n
      BY <1>1, <2>2, <2>7
    <3> QED
      BY <1>1, <3>1
  <2>5. ASSUME NEW j \in k + i + 1 .. k + i + n PROVE j - k \in i + 1 .. i + n /\ t[j - k] = h[j]
    <3>1. j \in Int /\ j - k \in i + 1 .. i + n /\ j - k \in 1 .. Len(t) /\ k + (j - k) = j
      BY <1>1, <2>2, <2>7
    <3> QED
      BY <1>1, <3>1
  <2>6. ASSUME NEW c \in ToSet(t[i].calls) PROVE \E j \in i + 1 .. i + n : Gives(t, j, c)
    <3>1. PICK j \in k + i + 1 .. k + i + n : Gives(h, j, c)
      BY <2>3
    <3>2. Gives(t, j - k, c) /\ j - k \in i + 1 .. i + n
      BY <2>5, <3>1 DEF Gives
    <3> QED
      BY <3>2
  <2> QED
    BY <2>3, <2>4, <2>6, <2>7 DEF Full, n
<1>3. Once(t)
  <2> SUFFICES ASSUME NEW i \in 1 .. Len(t), NEW j \in 1 .. Len(t),
                      t[i].role = "tool", t[j].role = "tool", t[i].id = t[j].id
               PROVE  i = j
    BY DEF Once
  <2>1. k + i = k + j
    BY <1>1 DEF Whole, Once
  <2> QED
    BY <1>1, <2>1
<1>4. ASSUME NEW i \in 1 .. Len(t), t[i].role = "tool" PROVE Known(t, i) \/ Bare(t, i)
  <2>1. h[k + i] = t[i] /\ k + i \in 1 .. Len(h) /\ i \in Nat
    BY <1>1
  <2>2. CASE Bare(h, k + i)
    <3>1. \A j \in 1 .. i : k + j \in 1 .. k + i /\ t[j] = h[k + j]
      BY <1>1
    <3> QED
      BY <2>2, <3>1 DEF Bare
  <2>3. ASSUME NEW a \in 1 .. (k + i) - 1, Declares(h, a, t[i].id) PROVE Known(t, i) \/ Bare(t, i)
    <3>1. CASE a > k
      <4>1. a - k \in 1 .. i - 1 /\ t[a - k] = h[a]
        BY <1>1, <2>1, <3>1
      <4> QED
        BY <2>3, <4>1 DEF Known, Declares
    <3>2. CASE a <= k
      <4>1. a \in 1 .. Len(h) /\ h[a].role = "assistant" /\ t[i].id \in ToSet(h[a].calls)
        BY <1>1, <2>1, <2>3 DEF Declares
      <4>2. Full(h, a) /\ Len(h[a].calls) \in Nat
        BY <4>1, CallsCounted DEF Whole, AllFull
      <4> DEFINE n == Len(h[a].calls)
      <4>3. PICK j \in a + 1 .. a + n : Gives(h, j, t[i].id)
        BY <4>1, <4>2 DEF Full
      <4>7. /\ n \in Nat /\ a \in Nat /\ a + n <= Len(h)
            /\ \A q \in a + 1 .. a + n : h[q].role = "tool"
        BY <4>1, <4>2 DEF Full
      <4> HIDE DEF n
      <4>9. j \in 1 .. Len(h)
        BY <4>7
      <4>8. j \in 1 .. Len(h) /\ h[j].role = "tool" /\ h[j].id = t[i].id
        BY <4>3, <4>9 DEF Gives
      <4>4. j = k + i
        BY <1>4, <2>1, <4>8 DEF Whole, Once
      <4>5. ASSUME NEW q \in 1 .. i PROVE k + q \in a + 1 .. a + n /\ t[q] = h[k + q]
        <5>1. q \in 1 .. Len(t) /\ k + q \in a + 1 .. a + n
          BY <1>1, <2>1, <3>2, <4>3, <4>4, <4>7
        <5> QED
          BY <1>1, <5>1
      <4>6. \A q \in 1 .. i : t[q].role = "tool"
        BY <4>5, <4>7
      <4> QED
        BY <4>6 DEF Bare
    <3> QED
      BY <1>1, <2>1, <3>1, <3>2
  <2>4. Known(h, k + i) \/ Bare(h, k + i)
    BY <1>4, <2>1 DEF Whole
  <2>5. CASE Known(h, k + i)
    <3>1. PICK a \in 1 .. (k + i) - 1 : Declares(h, a, t[i].id)
      BY <2>1, <2>5 DEF Known
    <3> QED
      BY <2>3, <3>1
  <2> QED
    BY <2>2, <2>4, <2>5
<1> QED
  BY <1>2, <1>3, <1>4 DEF Whole, AllFull

(* What stands in a list stays as it is when the list grows.                *)
LEMMA GrownFacts ==
    ASSUME NEW M, Talk(M), NEW h \in Seq(M), NEW g \in Seq(M), Starts(h, g), NEW i \in 1 .. Len(h)
    PROVE  /\ g[i] = h[i] /\ i \in 1 .. Len(g)
           /\ h[i].role = "assistant" /\ Full(h, i) => Full(g, i)
           /\ Known(h, i) => Known(g, i)
           /\ Bare(h, i) => Bare(g, i)
<1>1. /\ Len(h) \in Nat /\ Len(g) \in Nat /\ Len(h) <= Len(g)
      /\ \A j \in 1 .. Len(h) : g[j] = h[j]
  BY DEF Starts
<1>2. g[i] = h[i] /\ i \in 1 .. Len(g)
  BY <1>1
<1>3. ASSUME h[i].role = "assistant", Full(h, i) PROVE Full(g, i)
  <2> DEFINE n == Len(h[i].calls)
  <2>1. /\ n \in Nat /\ i \in Nat /\ i + n <= Len(h)
        /\ \A j \in i + 1 .. i + n : h[j].role = "tool" /\ h[j].id \in ToSet(h[i].calls)
        /\ \A c \in ToSet(h[i].calls) : \E j \in i + 1 .. i + n : Gives(h, j, c)
    BY <1>3, CallsCounted DEF Full
  <2> HIDE DEF n
  <2>2. ASSUME NEW j \in i + 1 .. i + n PROVE g[j] = h[j]
    <3>1. j \in 1 .. Len(h)
      BY <1>1, <2>1
    <3> QED
      BY <1>1, <3>1
  <2>3. i + n <= Len(g)
    BY <1>1, <2>1
  <2> QED
    BY <1>2, <2>1, <2>2, <2>3 DEF Full, Gives, n
<1>4. \A a \in 1 .. i : g[a] = h[a]
  BY <1>1
<1>5. Known(h, i) => Known(g, i)
  BY <1>2, <1>4 DEF Known, Declares
<1>6. Bare(h, i) => Bare(g, i)
  BY <1>4 DEF Bare
<1> QED
  BY <1>2, <1>3, <1>5, <1>6

(* A list stays whole when user messages are put behind it ...             *)
LEMMA UsersBehind ==
    ASSUME NEW M, Talk(M), NEW h \in Seq(M), NEW g \in Seq(M), Starts(h, g),
           \A i \in Len(h) + 1 .. Len(g) : g[i].role = "user"
    PROVE  (Whole(h) => Whole(g)) /\ (Legal(h) => Legal(g))
<1>1. /\ Len(h) \in Nat /\ Len(g) \in Nat /\ Len(h) <= Len(g)
      /\ \A i \in 1 .. Len(g) : i \in 1 .. Len(h) \/ g[i].role = "user"
  BY DEF Starts
<1>2. \A i \in 1 .. Len(g) : g[i].role # "user" => i \in 1 .. Len(h) /\ g[i] = h[i]
  BY <1>1, GrownFacts
<1>3. AllFull(h) => AllFull(g)
  BY <1>2, GrownFacts DEF AllFull
<1>4. Once(h) => Once(g)
  BY <1>2 DEF Once
<1> QED
  BY <1>2, <1>3, <1>4, GrownFacts DEF Whole, Legal

(* ... and when system messages are put in front of it.                     *)
LEMMA SystemsInFront ==
    ASSUME NEW M, Talk(M), NEW h \in Seq(M), NEW g \in Seq(M), NEW p \in 0 .. Len(g), Shows(g, p, h),
           \A i \in 1 .. p : g[i].role = "system"
    PROVE  (Whole(h) => Whole(g)) /\ (Legal(h) => Legal(g))
<1>1. /\ Len(h) \in Nat /\ Len(g) \in Nat /\ p \in Nat /\ Len(g) = Len(h) + p
      /\ \A j \in 1 .. Len(h) : g[p + j] = h[j] /\ p + j \in 1 .. Len(g)
  BY DEF Shows
<1>2. ASSUME NEW i \in 1 .. Len(g), g[i].role # "system"
      PROVE  i - p \in 1 .. Len(h) /\ g[i] = h[i - p] /\ i > p
  <2>1. i \notin 1 .. p
    BY <1>2
  <2>2. i - p \in 1 .. Len(h) /\ p + (i - p) = i /\ i > p
    BY <1>1, <2>1
  <2> QED
    BY <1>1, <2>2
<1>3. ASSUME NEW i \in 1 .. Len(g), g[i].role = "assistant", Full(h, i - p) PROVE Full(g, i)
  <2>1. i - p \in 1 .. Len(h) /\ g[i] = h[i - p] /\ i > p
    BY <1>2, <1>3
  <2> DEFINE n == Len(g[i].calls)
             b == i - p
  <2>2. /\ n \in Nat /\ b \in Nat /\ b + n <= Len(h)
        /\ \A j \in b + 1 .. b + n : h[j].role = "tool" /\ h[j].id \in ToSet(g[i].calls)
        /\ \A c \in ToSet(g[i].calls) : \E j \in b + 1 .. b + n : Gives(h, j, c)
    BY <1>3, <2>1, CallsCounted DEF Full
  <2>6. p + b = i /\ b \in 1 .. Len(h)
    BY <1>1, <2>1
  <2> HIDE DEF n, b
  <2>3. i + n <= Len(g)
    BY <1>1, <2>2, <2>6
  <2>4. ASSUME NEW j \in i + 1 .. i + n PROVE j - p \in b + 1 .. b + n /\ g[j] = h[j - p]
    <3>1. j - p \in b + 1 .. b + n /\ j - p \in 1 .. Len(h) /\ p + (j - p) = j
      BY <1>1, <2>2, <2>6
    <3> QED
      BY <1>1, <3>1
  <2>5. ASSUME NEW c \in ToSet(g[i].calls) PROVE \E j \in i + 1 .. i + n : Gives(g, j, c)
    <3>1. PICK j \in b + 1 .. b + n : Gives(h, j, c)
      BY <2>2
    <3>2. p + j \in i + 1 .. i + n /\ j \in 1 .. Len(h)
      BY <1>1, <2>2, <2>6
    <3>3. Gives(g, p + j, c)
      BY <1>1, <3>1, <3>2 DEF Gives
    <3> QED
      BY <3>2, <3>3
  <2>7. ASSUME NEW j \in i + 1 .. i + n PROVE g[j].role = "tool" /\ g[j].id \in ToSet(g[i].calls)
    <3>1. j - p \in b + 1 .. b + n /\ g[j] = h[j - p]
      BY <2>4
    <3> QED
      BY <2>2, <3>1
  <2> QED
    BY <2>3, <2>5, <2>7, Zenon DEF Full, n
<1>4. AllFull(h) => AllFull(g)
  <2> SUFFICES ASSUME AllFull(h), NEW i \in 1 .. Len(g), g[i].role = "assistant" PROVE Full(g, i)
    BY DEF AllFull
  <2>1. i - p \in 1 .. Len(h) /\ h[i - p].role = "assistant"
    BY <1>2
  <2> QED
    BY <1>3, <2>1 DEF AllFull
<1>5. Once(h) => Once(g)
  <2> SUFFICES ASSUME Once(h), NEW i \in 1 .. Len(g), NEW j \in 1 .. Len(g),
                      g[i].role = "tool", g[j].role = "tool", g[i].id = g[j].id
               PROVE  i = j
    BY DEF Once
  <2>1. i - p \in 1 .. Len(h) /\ g[i] = h[i - p] /\ j - p \in 1 .. Len(h) /\ g[j] = h[j - p]
    BY <1>2
  <2>2. i - p = j - p
    BY <2>1 DEF Once
  <2> QED
    BY <1>1, <2>2
<1>6. ASSUME NEW i \in 1 .. Len(g), g[i].role = "tool", Known(h, i - p) PROVE Known(g, i)
  <2>1. i - p \in 1 .. Len(h) /\ g[i] = h[i - p] /\ i \in Nat /\ i > p
    BY <1>1, <1>2, <1>6
  <2>2. PICK a \in 1 .. (i - p) - 1 : Declares(h, a, g[i].id)
    BY <1>6, <2>1 DEF Known
  <2>3. p + a \in 1 .. i - 1 /\ a \in 1 .. Len(h)
    BY <1>1, <2>1
  <2>4. Declares(g, p + a, g[i].id)
    BY <1>1, <2>2, <2>3 DEF Declares
  <2> QED
    BY <2>3, <2>4 DEF Known
<1>7. ASSUME NEW i \in 1 .. Len(g), g[i].role = "tool", Bare(h, i - p) PROVE Bare(g, i)
  <2>1. i - p \in 1 .. Len(h) /\ i \in Nat
    BY <1>1, <1>2, <1>7
  <2> SUFFICES ASSUME NEW j \in 1 .. i, g[j].role # "system" PROVE g[j].role \in {"system", "tool"}
    BY DEF Bare
  <2>2. j \in 1 .. Len(g)
    BY <1>1, <2>1
  <2>3. j - p \in 1 .. Len(h) /\ g[j] = h[j - p]
    BY <1>2, <2>2
  <2>4. j - p \in 1 .. i - p
    BY <1>1, <2>1, <2>3
  <2> QED
    BY <1>7, <2>3, <2>4 DEF Bare
<1>8. \A i \in 1 .. Len(g) : g[i].role = "tool" => i - p \in 1 .. Len(h) /\ h[i - p].role = "tool"
  BY <1>2
<1> QED
  BY <1>4, <1>5, <1>6, <1>7, <1>8 DEF Whole, Legal

(* Where the scan for orphans stops: behind a result, and every result that *)
(* is left has its call in what is left.                                   *)
LEMMA LegalStartStops ==
    ASSUME NEW M, NEW h \in Seq(M)
    PROVE  /\ LegalStart(h) \in 0 .. Len(h)
           /\ LegalStart(h) # 0 => h[LegalStart(h)].role = "tool"
           /\ \A i \in LegalStart(h) + 1 .. Len(h) : h[i].role = "tool" => 
                \E a \in LegalStart(h) + 1 .. i - 1 : Declares(h, a, h[i].id)
<1>1. PICK r \in [0 .. Len(h) -> Nat] :
         /\ r[0] = 0 /\ LegalStart(h) = r[Len(h)]
         /\ \A k \in 1 .. Len(h) : r[k] = Moved(h, r[k - 1], k)
  BY LegalStartRuns
<1> DEFINE Scanned(s, k) == /\ s \in 0 .. k
                            /\ s # 0 => h[s].role = "tool"
                            /\ \A i \in s + 1 .. k : h[i].role = "tool" => 
                                 \E a \in s + 1 .. i - 1 : Declares(h, a, h[i].id)
           K == {k \in 0 .. Len(h) : Scanned(r[k], k)}
<1>2. Len(h) \in Nat
  OBVIOUS
<1>3. 0 \in K
  BY <1>1, <1>2
<1>4. ASSUME NEW k \in 1 .. Len(h), k - 1 \in K PROVE k \in K
  <2> DEFINE s == r[k - 1]
  <2>1. /\ s \in 0 .. k - 1 /\ (s # 0 => h[s].role = "tool")
        /\ \A i \in s + 1 .. k - 1 : h[i].role = "tool" => \E a \in s + 1 .. i - 1 : Declares(h, a, h[i].id)
        /\ r[k] = Moved(h, s, k)
    BY <1>1, <1>4
  <2> HIDE DEF s
  <2>2. k \in Nat /\ k \in 0 .. Len(h) /\ s + 1 \in 1 .. Len(h) + 1 /\ k - 1 \in (s + 1) - 1 .. Len(h)
    BY <1>2, <2>1
  <2>3. h[k].id \in Declared(SubSeq(h, s + 1, k - 1)) <=> \E a \in s + 1 .. k - 1 : Declares(h, a, h[k].id)
    BY <2>2, DeclaredIn
  <2>4. CASE h[k].role = "tool" /\ h[k].id \notin Declared(SubSeq(h, s + 1, k - 1))
    <3>1. r[k] = k
      BY <2>1, <2>4 DEF Moved
    <3>2. Scanned(k, k)
      BY <2>2, <2>4
    <3> QED
      BY <2>2, <3>1, <3>2
  <2>5. CASE ~(h[k].role = "tool" /\ h[k].id \notin Declared(SubSeq(h, s + 1, k - 1)))
    <3>1. r[k] = s
      BY <2>1, <2>5 DEF Moved
    <3>2. s \in 0 .. k
      BY <2>1, <2>2
    <3>3. \A i \in s + 1 .. k : i \in s + 1 .. k - 1 \/ i = k
      BY <2>1, <2>2
    <3>4. Scanned(s, k)
      BY <2>1, <2>3, <2>5, <3>2, <3>3
    <3> QED
      BY <2>2, <3>1, <3>4
  <2> QED
    BY <2>4, <2>5
<1>5. Len(h) \in K
  <2> HIDE DEF K
  <2>1. 0 .. Len(h) \subseteq K
    BY <1>2, <1>3, <1>4, CountingTo
  <2> QED
    BY <1>2, <2>1
<1> QED
  BY <1>1, <1>5

(* The repair of the head makes a list legal that a head was cut off from.  *)
LEMMA DropHeadLegal ==
    ASSUME NEW M, Talk(M), NEW h \in Seq(M)
    PROVE  /\ DropHead(h) \in Seq(M)
           /\ LegalStart(h) \in 0 .. Len(h) /\ Shows(h, LegalStart(h), DropHead(h))
           /\ Whole(h) => Legal(DropHead(h))
<1> DEFINE s == LegalStart(h)
           t == DropHead(h)
<1>1. /\ s \in 0 .. Len(h)
      /\ \A i \in s + 1 .. Len(h) : h[i].role = "tool" => \E a \in s + 1 .. i - 1 : Declares(h, a, h[i].id)
  BY LegalStartStops
<1> HIDE DEF s
<1>2. t \in Seq(M) /\ Shows(h, s, t)
  <2>1. t = SubSeq(h, s + 1, Len(h))
    BY DEF DropHead, From, s
  <2> QED
    BY <1>1, <2>1, TailIs
<1> HIDE DEF t
<1>3. ASSUME Whole(h) PROVE Legal(t)
  <2>1. Whole(t)
    BY <1>1, <1>2, <1>3, CutTail
  <2>2. ASSUME NEW i \in 1 .. Len(t), t[i].role = "tool" PROVE Known(t, i)
    <3>1. /\ s \in Nat /\ Len(h) \in Nat /\ Len(t) = Len(h) - s
          /\ \A j \in 1 .. Len(t) : t[j] = h[s + j]
      <4>1. s \in Nat /\ Len(h) \in Nat
        BY <1>1
      <4> QED
        BY <1>2, <4>1 DEF Shows
    <3>2. s + i \in s + 1 .. Len(h) /\ t[i] = h[s + i]
      BY <3>1
    <3>3. PICK a \in s + 1 .. (s + i) - 1 : Declares(h, a, t[i].id)
      BY <1>1, <2>2, <3>2
    <3>4. a - s \in 1 .. i - 1 /\ a - s \in 1 .. Len(t) /\ s + (a - s) = a
      BY <3>1
    <3>5. Declares(t, a - s, t[i].id)
      BY <3>1, <3>3, <3>4 DEF Declares
    <3> QED
      BY <3>4, <3>5 DEF Known
  <2> QED
    BY <2>1, <2>2 DEF Whole, Legal
<1> QED
  BY <1>1, <1>2, <1>3 DEF s, t

-----------------------------------------------------------------------------
(* A loop over the places of a list, whose steps stay in a set of values.    *)
Loops(r, V, base, N, F) == 
    r \in [0 .. N -> V] /\ r[0] = base /\ \A k \in 1 .. N : r[k] = F[<<r[k - 1], k>>]

LEMMA LoopExists ==
    ASSUME NEW V, NEW base \in V, NEW N \in Nat, NEW F \in [V \X (1 .. N) -> V]
    PROVE  \E r : Loops(r, V, base, N, F)
<1>1. PICK g : Folds(g, V, base, N, F)
  BY FoldExists
<1> DEFINE r == [k \in 0 .. N |-> g[1 .. k]]
<1>2. r \in [0 .. N -> V]
  <2>1. \A k \in 0 .. N : 1 .. k \in SUBSET (1 .. N)
    OBVIOUS
  <2> QED
    BY <1>1, <2>1 DEF Folds
<1>3. r[0] = base
  <2>1. 1 .. 0 = {} /\ {} \in SUBSET (1 .. N) /\ 0 \in 0 .. N
    OBVIOUS
  <2> QED
    BY <1>1, <2>1 DEF Folds
<1>4. ASSUME NEW k \in 1 .. N PROVE r[k] = F[<<r[k - 1], k>>]
  <2>1. k \in Nat \ {0} /\ 1 .. k \in SUBSET (1 .. N) /\ k - 1 \in 0 .. N /\ k \in 0 .. N
    OBVIOUS
  <2>2. g[1 .. k] = F[<<g[1 .. k - 1], k>>]
    BY <1>1, <2>1, UpToNumber DEF Folds
  <2> QED
    BY <2>1, <2>2
<1> HIDE DEF r
<1> QED
  BY <1>2, <1>3, <1>4 DEF Loops

(* FlattenSeq, taken apart.                                                *)
LEMMA FlattenRuns ==
    ASSUME NEW S, NEW ss \in Seq(Seq(S))
    PROVE  \E r \in [0 .. Len(ss) -> Seq(S)] :
              /\ r[0] = <<>> /\ FlattenSeq(ss) = r[Len(ss)]
              /\ \A k \in 1 .. Len(ss) : r[k] = r[k - 1] \o ss[k]
<1> DEFINE N == Len(ss)
           F == [p \in Seq(S) \X (1 .. N) |-> p[1] \o ss[p[2]]]
           G == CHOOSE f : f = [i \in 1 .. N |-> IF i = 1 THEN ss[i] ELSE f[i - 1] \o ss[i]]
<1>1. N \in Nat /\ \A k \in 1 .. N : ss[k] \in Seq(S)
  OBVIOUS
<1>2. PICK r : Loops(r, Seq(S), <<>>, N, F)
  <2>1. F \in [Seq(S) \X (1 .. N) -> Seq(S)] /\ <<>> \in Seq(S)
    BY <1>1
  <2> HIDE DEF F, N
  <2> QED
    BY <1>1, <2>1, LoopExists
<1>6. r \in [0 .. N -> Seq(S)] /\ r[0] = <<>> /\ \A k \in 1 .. N : r[k] = F[<<r[k - 1], k>>]
  <2> HIDE DEF F, N
  <2> QED
    BY <1>2 DEF Loops
<1>3. ASSUME NEW k \in 1 .. N PROVE r[k] = r[k - 1] \o ss[k] /\ r[k - 1] \in Seq(S)
  <2>1. k - 1 \in 0 .. N
    BY <1>1
  <2>2. r[k - 1] \in Seq(S)
    BY <1>6, <2>1
  <2> QED
    BY <1>6, <2>2
<1> HIDE DEF F
<1>7. \A k \in 1 .. N : k = 1 => r[k] = ss[k]
  <2>1. \A q \in Seq(S) : <<>> \o q = q
    OBVIOUS
  <2>2. 1 - 1 = 0
    OBVIOUS
  <2> SUFFICES ASSUME 1 \in 1 .. N PROVE r[1] = ss[1]
    OBVIOUS
  <2> HIDE DEF N, G
  <2>3. r[1] = r[1 - 1] \o ss[1] /\ ss[1] \in Seq(S)
    BY <1>1, <1>3
  <2>4. r[1] = <<>> \o ss[1]
    BY <1>6, <2>2, <2>3
  <2> QED
    BY <2>1, <2>3, <2>4
<1>4. CASE N = 0
  <2>1. FlattenSeq(ss) = ss /\ ss = <<>>
    BY <1>4 DEF FlattenSeq
  <2> QED
    BY <1>6, <1>4, <2>1
<1>5. CASE N # 0
  <2>1. FlattenSeq(ss) = G[N]
    BY <1>5, Zenon DEF FlattenSeq
  <2>2. G = [i \in 1 .. N |-> IF i = 1 THEN ss[i] ELSE G[i - 1] \o ss[i]]
    <3> DEFINE f == [i \in 1 .. N |-> r[i]]
    <3>1. ASSUME NEW i \in 1 .. N PROVE f[i] = IF i = 1 THEN ss[i] ELSE f[i - 1] \o ss[i]
      <4>1. r[i] = r[i - 1] \o ss[i] /\ r[0] = <<>> /\ ss[i] \in Seq(S)
        BY <1>1, <1>6, <1>3
      <4>2. i = 1 => r[i] = ss[i]
        BY <1>7
      <4>3. i # 1 => i - 1 \in 1 .. N
        BY <1>1
      <4> QED
        BY <4>1, <4>2, <4>3
    <3>2. f = [i \in 1 .. N |-> IF i = 1 THEN ss[i] ELSE f[i - 1] \o ss[i]]
      <4>1. f = [i \in 1 .. N |-> f[i]]
        OBVIOUS
      <4> HIDE DEF f, N
      <4> QED
        BY <3>1, <4>1
    <3> HIDE DEF f, N
    <3> QED
      BY <3>2
  <2> HIDE DEF G
  <2> DEFINE K == {k \in 0 .. N : k = 0 \/ G[k] = r[k]}
  <2>3. 0 \in K
    BY <1>1
  <2>4. ASSUME NEW k \in 1 .. N, k - 1 \in K PROVE k \in K
    <3>1. G[k] = IF k = 1 THEN ss[k] ELSE G[k - 1] \o ss[k]
      <4> HIDE DEF N
      <4> QED
        BY <2>2
    <3>2. r[k] = r[k - 1] \o ss[k] /\ r[0] = <<>> /\ ss[k] \in Seq(S)
      BY <1>1, <1>6, <1>3
    <3>3. k = 1 => r[k] = ss[k]
      BY <1>7
    <3>4. k # 1 => G[k - 1] = r[k - 1]
      BY <2>4
    <3>5. G[k] = r[k]
      <4> HIDE DEF N
      <4> QED
        BY <3>1, <3>2, <3>3, <3>4
    <3> QED
      BY <1>1, <3>5
  <2>5. G[N] = r[N]
    <3> HIDE DEF K, N
    <3>1. 0 .. N \subseteq K
      BY <1>1, <2>3, <2>4, CountingTo
    <3> QED
      BY <1>1, <1>5, <3>1 DEF K
  <2> HIDE DEF N
  <2>6. FlattenSeq(ss) = r[N]
    BY <2>1, <2>5
  <2> QED
    BY <1>6, <1>3, <2>6 DEF N
<1> QED
  BY <1>4, <1>5

(* Picked as a run over the list.                                          *)
Picks(r, S, h, P) == 
    /\ r \in [0 .. Len(h) -> Seq(S)] /\ r[0] = <<>> /\ Picked(h, P) = r[Len(h)]
    /\ \A k \in 1 .. Len(h) : r[k] = IF k \in P THEN Append(r[k - 1], h[k]) ELSE r[k - 1]

LEMMA PickedRuns ==
    ASSUME NEW S, NEW h \in Seq(S), NEW P
    PROVE  \E r : Picks(r, S, h, P)
<1> DEFINE ss == [i \in DOMAIN h |-> IF i \in P THEN <<h[i]>> ELSE <<>>]
<1>1. /\ Len(h) \in Nat /\ ss \in Seq(Seq(S)) /\ Len(ss) = Len(h)
      /\ \A k \in 1 .. Len(h) : h[k] \in S /\ ss[k] = IF k \in P THEN <<h[k]>> ELSE <<>>
  <2>1. DOMAIN h = 1 .. Len(h) /\ Len(h) \in Nat /\ \A k \in 1 .. Len(h) : h[k] \in S
    OBVIOUS
  <2>2. \A k \in 1 .. Len(h) : (IF k \in P THEN <<h[k]>> ELSE <<>>) \in Seq(S)
    BY <2>1
  <2> QED
    BY <2>1, <2>2
<1>2. Picked(h, P) = FlattenSeq(ss)
  BY DEF Picked
<1> HIDE DEF ss
<1>3. PICK r \in [0 .. Len(ss) -> Seq(S)] :
         /\ r[0] = <<>> /\ FlattenSeq(ss) = r[Len(ss)]
         /\ \A k \in 1 .. Len(ss) : r[k] = r[k - 1] \o ss[k]
  BY <1>1, FlattenRuns
<1>4. ASSUME NEW k \in 1 .. Len(h) PROVE r[k] = IF k \in P THEN Append(r[k - 1], h[k]) ELSE r[k - 1]
  <2>1. k - 1 \in 0 .. Len(ss) /\ k \in 1 .. Len(ss)
    BY <1>1
  <2>2. r[k - 1] \in Seq(S) /\ r[k] = r[k - 1] \o ss[k]
    BY <1>3, <2>1
  <2>3. \A q \in Seq(S) : q \o <<>> = q /\ q \o <<h[k]>> = Append(q, h[k])
    BY <1>1
  <2> QED
    BY <1>1, <2>2, <2>3
<1>5. Picks(r, S, h, P)
  BY <1>1, <1>2, <1>3, <1>4 DEF Picks
<1> QED
  BY <1>5

(* Neighbouring places make a slice.                                       *)
LEMMA PickedSlice ==
    ASSUME NEW S, NEW h \in Seq(S), NEW P, NEW m \in 1 .. Len(h) + 1, NEW n \in m - 1 .. Len(h),
           \A i \in 1 .. Len(h) : i \in P <=> i \in m .. n
    PROVE  Picked(h, P) = SubSeq(h, m, n)
<1>1. PICK r : Picks(r, S, h, P)
  BY PickedRuns
<1> DEFINE N == Len(h)
           L(k) == IF k < m THEN 0 ELSE IF k <= n THEN k - m + 1 ELSE n - m + 1
           K == {k \in 0 .. N : Len(r[k]) = L(k) /\ \A j \in 1 .. L(k) : r[k][j] = h[m + j - 1]}
<1>2. N \in Nat /\ m \in Nat /\ n \in Nat /\ m - 1 <= n /\ n <= N /\ m >= 1
  OBVIOUS
<1>3. /\ r \in [0 .. N -> Seq(S)] /\ r[0] = <<>> /\ Picked(h, P) = r[N]
      /\ \A k \in 1 .. N : r[k] = IF k \in m .. n THEN Append(r[k - 1], h[k]) ELSE r[k - 1]
  BY <1>1 DEF Picks
<1>4. 0 \in K
  <2>1. L(0) = 0 /\ 0 \in 0 .. N
    BY <1>2
  <2> HIDE DEF L
  <2> QED
    BY <1>3, <2>1
<1>5. ASSUME NEW k \in 1 .. N, k - 1 \in K PROVE k \in K
  <2> DEFINE q == r[k - 1]
  <2>1. k - 1 \in 0 .. N /\ k \in 0 .. N /\ k \in Nat
    BY <1>2
  <2>2. q \in Seq(S) /\ Len(q) = L(k - 1) /\ \A j \in 1 .. L(k - 1) : q[j] = h[m + j - 1]
    <3> HIDE DEF L, N
    <3> QED
      BY <1>3, <1>5, <2>1
  <2>3. r[k] = IF k \in m .. n THEN Append(q, h[k]) ELSE q
    BY <1>3
  <2> HIDE DEF q
  <2>4. CASE k \in m .. n
    <3>1. L(k) = L(k - 1) + 1 /\ L(k - 1) \in Nat /\ m + L(k) - 1 = k
      BY <1>2, <2>1, <2>4
    <3> HIDE DEF L, N
    <3>2. r[k] = Append(q, h[k]) /\ Len(r[k]) = L(k)
      BY <2>2, <2>3, <2>4, <3>1
    <3>3. ASSUME NEW j \in 1 .. L(k) PROVE r[k][j] = h[m + j - 1]
      <4>1. CASE j = L(k)
        <5>1. m + j - 1 = k
          BY <3>1, <4>1
        <5>2. Append(q, h[k])[L(k - 1) + 1] = h[k]
          BY <2>2, <3>1
        <5> QED
          BY <3>1, <3>2, <4>1, <5>1, <5>2
      <4>2. CASE j # L(k)
        <5>1. j \in 1 .. L(k - 1)
          BY <3>1, <4>2
        <5>2. r[k][j] = q[j]
          BY <2>2, <3>2, <5>1
        <5> QED
          BY <2>2, <5>1, <5>2
      <4> QED
        BY <4>1, <4>2
    <3> QED
      BY <2>1, <3>2, <3>3 DEF K
  <2>5. CASE k \notin m .. n
    <3>1. L(k) = L(k - 1)
      BY <1>2, <2>1, <2>5
    <3> HIDE DEF L, N
    <3> QED
      BY <2>1, <2>2, <2>3, <2>5, <3>1
  <2> QED
    BY <2>4, <2>5
<1>6. N \in K
  <2> HIDE DEF K, N
  <2>1. 0 .. N \subseteq K
    BY <1>2, <1>4, <1>5, CountingTo
  <2> QED
    BY <1>2, <2>1
<1>7. L(N) = n - m + 1
  BY <1>2
<1>8. Len(r[N]) = n - m + 1 /\ \A j \in 1 .. n - m + 1 : r[N][j] = h[m + j - 1]
  <2> HIDE DEF L, N
  <2> QED
    BY <1>6, <1>7
<1>9. SubSeq(h, m, n) \in Seq(S) /\ Len(SubSeq(h, m, n)) = n - m + 1 /\ \A j \in 1 .. n - m + 1 : SubSeq(h, m, n)[j] = h[m + j - 1]
  BY SliceIs
<1>10. r[N] \in Seq(S)
  <2> HIDE DEF N
  <2> QED
    BY <1>2, <1>3
<1>11. \A u, v \in Seq(S) : Len(u) = Len(v) /\ (\A j \in 1 .. Len(u) : u[j] = v[j]) => u = v
  OBVIOUS
<1>12. r[N] = SubSeq(h, m, n)
  <2> HIDE DEF N
  <2> QED
    BY <1>8, <1>9, <1>10, <1>11
<1> QED
  BY <1>3, <1>12

(* What is picked is what stands at the places.                            *)
PartOf(p, h, P) == 
    /\ \A j \in 1 .. Len(p) : \E i \in 1 .. Len(h) : i \in P /\ p[j] = h[i]
    /\ \A i \in 1 .. Len(h) : i \in P => \E j \in 1 .. Len(p) : p[j] = h[i]

LEMMA PickedAre ==
    ASSUME NEW S, NEW h \in Seq(S), NEW P, NEW p, p = Picked(h, P)
    PROVE  p \in Seq(S) /\ PartOf(p, h, P) /\ (IsInjective(h) => IsInjective(p))
<1>1. PICK r : Picks(r, S, h, P)
  BY PickedRuns
<1> DEFINE N == Len(h)
           From1(q, k) == \A j \in 1 .. Len(q) : \E i \in 1 .. k : i \in P /\ q[j] = h[i]
           All(q, k) == \A i \in 1 .. k : i \in P => \E j \in 1 .. Len(q) : q[j] = h[i]
           Distinct(q) == \A x, y \in 1 .. Len(q) : q[x] = q[y] => x = y
           K == {k \in 0 .. N : From1(r[k], k) /\ All(r[k], k) /\ (Distinct(h) => Distinct(r[k]))}
<1>2. N \in Nat
  OBVIOUS
<1>3. /\ r \in [0 .. N -> Seq(S)] /\ r[0] = <<>> /\ p = r[N]
      /\ \A k \in 1 .. N : r[k] = IF k \in P THEN Append(r[k - 1], h[k]) ELSE r[k - 1]
  BY <1>1 DEF Picks
<1>4. 0 \in K
  <2>1. From1(<<>>, 0) /\ All(<<>>, 0) /\ Distinct(<<>>) /\ 0 \in 0 .. N
    BY <1>2
  <2> HIDE DEF From1, All, Distinct
  <2> QED
    BY <1>3, <2>1
<1>5. ASSUME NEW k \in 1 .. N, k - 1 \in K PROVE k \in K
  <2> DEFINE q == r[k - 1]
  <2>1. k - 1 \in 0 .. N /\ k \in 0 .. N /\ k \in Nat /\ q \in Seq(S) /\ Len(q) \in Nat
    <3>1. k - 1 \in 0 .. N
      BY <1>2
    <3> QED
      BY <1>2, <1>3, <3>1
  <2>2. From1(q, k - 1) /\ All(q, k - 1) /\ (Distinct(h) => Distinct(q))
    BY <1>5
  <2>3. r[k] = IF k \in P THEN Append(q, h[k]) ELSE q
    BY <1>3
  <2> HIDE DEF q
  <2>4. CASE k \in P
    <3> DEFINE n == Len(q)
    <3>1. /\ Len(r[k]) = n + 1 /\ r[k][n + 1] = h[k] /\ \A j \in 1 .. n : r[k][j] = q[j]
      BY <2>1, <2>3, <2>4
    <3>2. n \in Nat
      BY <2>1
    <3> HIDE DEF n
    <3>3. From1(r[k], k)
      <4> SUFFICES ASSUME NEW j \in 1 .. n + 1 PROVE \E i \in 1 .. k : i \in P /\ r[k][j] = h[i]
        BY <3>1
      <4>1. CASE j = n + 1
        BY <2>1, <2>4, <3>1, <4>1
      <4>2. CASE j # n + 1
        <5>1. j \in 1 .. n
          BY <3>2, <4>2
        <5>2. PICK i \in 1 .. k - 1 : i \in P /\ q[j] = h[i]
          BY <2>2, <5>1 DEF n
        <5>3. i \in 1 .. k
          BY <2>1
        <5> QED
          BY <3>1, <5>1, <5>2, <5>3
      <4> QED
        BY <4>1, <4>2
    <3>4. All(r[k], k)
      <4> SUFFICES ASSUME NEW i \in 1 .. k, i \in P PROVE \E j \in 1 .. n + 1 : r[k][j] = h[i]
        BY <3>1
      <4>1. CASE i = k
        BY <3>1, <3>2, <4>1
      <4>2. CASE i # k
        <5>1. i \in 1 .. k - 1
          BY <2>1, <4>2
        <5>2. PICK j \in 1 .. n : q[j] = h[i]
          BY <2>2, <5>1 DEF n
        <5>3. j \in 1 .. n + 1
          BY <3>2
        <5> QED
          BY <3>1, <5>2, <5>3
      <4> QED
        BY <4>1, <4>2
    <3>5. ASSUME Distinct(h) PROVE Distinct(r[k])
      <4>1. ASSUME NEW j \in 1 .. n PROVE q[j] # h[k]
        <5>1. PICK i \in 1 .. k - 1 : q[j] = h[i]
          BY <2>2, <4>1 DEF n
        <5>2. i \in 1 .. N /\ i # k
          BY <1>2
        <5> QED
          BY <3>5, <5>1, <5>2
      <4>2. \A x \in 1 .. n + 1 : x = n + 1 \/ x \in 1 .. n
        BY <3>2
      <4>3. \A x, y \in 1 .. n : q[x] = q[y] => x = y
        BY <2>2, <3>5 DEF n
      <4> SUFFICES ASSUME NEW x \in 1 .. n + 1, NEW y \in 1 .. n + 1, r[k][x] = r[k][y] PROVE x = y
        BY <3>1
      <4> QED
        BY <3>1, <4>1, <4>2, <4>3
    <3> HIDE DEF From1, All, Distinct
    <3> QED
      BY <2>1, <3>3, <3>4, <3>5
  <2>5. CASE k \notin P
    <3>1. From1(q, k) /\ All(q, k)
      <4>1. \A i \in 1 .. k - 1 : i \in 1 .. k
        BY <2>1
      <4>2. \A i \in 1 .. k : i \in P => i \in 1 .. k - 1
        BY <2>1, <2>5
      <4> QED
        BY <2>2, <4>1, <4>2
    <3> HIDE DEF From1, All, Distinct
    <3> QED
      BY <2>1, <2>2, <2>3, <2>5, <3>1
  <2> QED
    BY <2>4, <2>5
<1>6. N \in K /\ p \in Seq(S)
  <2> HIDE DEF K, N
  <2>1. 0 .. N \subseteq K
    BY <1>2, <1>4, <1>5, CountingTo
  <2> QED
    BY <1>2, <1>3, <2>1
<1>7. DOMAIN h = 1 .. Len(h) /\ DOMAIN p = 1 .. Len(p)
  BY <1>6
<1> QED
  BY <1>3, <1>6, <1>7 DEF IsInjective, PartOf

(* What is picked and what is left make up the list.                       *)
LEMMA PickedParts ==
    ASSUME NEW S, NEW h \in Seq(S), NEW P, NEW Q, \A i \in 1 .. Len(h) : i \in Q <=> i \notin P
    PROVE  Len(Picked(h, P)) + Len(Picked(h, Q)) = Len(h)
<1>1. PICK r : Picks(r, S, h, P)
  BY PickedRuns
<1>2. PICK s : Picks(s, S, h, Q)
  BY PickedRuns
<1> DEFINE N == Len(h)
           K == {k \in 0 .. N : Len(r[k]) + Len(s[k]) = k}
<1>3. N \in Nat
  OBVIOUS
<1>4. /\ r \in [0 .. N -> Seq(S)] /\ r[0] = <<>> /\ Picked(h, P) = r[N]
      /\ \A k \in 1 .. N : r[k] = IF k \in P THEN Append(r[k - 1], h[k]) ELSE r[k - 1]
  BY <1>1 DEF Picks
<1>5. /\ s \in [0 .. N -> Seq(S)] /\ s[0] = <<>> /\ Picked(h, Q) = s[N]
      /\ \A k \in 1 .. N : s[k] = IF k \in P THEN s[k - 1] ELSE Append(s[k - 1], h[k])
  BY <1>2 DEF Picks
<1>6. 0 \in K
  BY <1>3, <1>4, <1>5
<1>7. ASSUME NEW k \in 1 .. N, k - 1 \in K PROVE k \in K
  <2>1. k - 1 \in 0 .. N /\ k \in 0 .. N /\ k \in Nat
    BY <1>3
  <2>2. r[k - 1] \in Seq(S) /\ s[k - 1] \in Seq(S) /\ Len(r[k - 1]) + Len(s[k - 1]) = k - 1
    <3> HIDE DEF N
    <3> QED
      BY <1>4, <1>5, <1>7, <2>1
  <2>3. \A q \in Seq(S) : Len(q) \in Nat /\ Len(Append(q, h[k])) = Len(q) + 1
    OBVIOUS
  <2> DEFINE x == Len(r[k - 1])
             y == Len(s[k - 1])
  <2>4. /\ k \in P => Len(r[k]) = x + 1 /\ Len(s[k]) = y
        /\ k \notin P => Len(s[k]) = y + 1 /\ Len(r[k]) = x
    BY <1>4, <1>5, <2>2, <2>3
  <2>5. x \in Nat /\ y \in Nat /\ x + y = k - 1
    BY <2>2, <2>3
  <2> HIDE DEF x, y
  <2>6. CASE k \in P
    <3>1. Len(r[k]) + Len(s[k]) = (x + 1) + y
      BY <2>4, <2>6
    <3>2. (x + 1) + y = k
      BY <2>1, <2>5
    <3> QED
      BY <2>1, <3>1, <3>2
  <2>7. CASE k \notin P
    <3>1. Len(r[k]) + Len(s[k]) = x + (y + 1)
      BY <2>4, <2>7
    <3>2. x + (y + 1) = k
      BY <2>1, <2>5
    <3> QED
      BY <2>1, <3>1, <3>2
  <2> QED
    BY <2>6, <2>7
<1>8. N \in K
  <2> HIDE DEF K, N
  <2>1. 0 .. N \subseteq K
    BY <1>3, <1>6, <1>7, CountingTo
  <2> QED
    BY <1>3, <2>1
<1> QED
  BY <1>4, <1>5, <1>8

-----------------------------------------------------------------------------
(* What the functions of the code do to a legal list: nothing.              *)
LEMMA SmallestIn ==
    ASSUME NEW s \in SUBSET Nat, s # {}
    PROVE  Min(s) \in s /\ \A y \in s : Min(s) <= y
<1>1. \E x \in s : \A y \in s : x <= y
  <2> SUFFICES ASSUME \A x \in s : \E y \in s : ~(x <= y) PROVE FALSE
    OBVIOUS
  <2> DEFINE S == {n \in Nat : \A m \in 0 .. n : m \notin s}
  <2>1. 0 \in S
    <3>1. 0 \notin s
      OBVIOUS
    <3> QED
      BY <3>1
  <2>2. ASSUME NEW n \in S PROVE n + 1 \in S
    <3>1. n + 1 \notin s
      <4> SUFFICES ASSUME n + 1 \in s PROVE FALSE
        OBVIOUS
      <4>1. PICK y \in s : ~(n + 1 <= y)
        OBVIOUS
      <4>2. y \in 0 .. n
        BY <4>1
      <4> QED
        BY <4>2
    <3>2. \A m \in 0 .. n + 1 : m \in 0 .. n \/ m = n + 1
      OBVIOUS
    <3> QED
      BY <3>1, <3>2
  <2>3. Nat \subseteq S
    <3>1. S \in SUBSET Nat
      OBVIOUS
    <3> HIDE DEF S
    <3> QED
      BY <2>1, <2>2, <3>1, Counting
  <2>4. \A n \in Nat : n \notin s
    BY <2>3
  <2> QED
    BY <2>4
<1> QED
  BY <1>1 DEF Min

LEMMA PickedAll ==
    ASSUME NEW S, NEW h \in Seq(S), NEW P, \A i \in 1 .. Len(h) : i \in P
    PROVE  Picked(h, P) = h
<1>1. 1 \in 1 .. Len(h) + 1 /\ Len(h) \in 1 - 1 .. Len(h) /\ \A i \in 1 .. Len(h) : i \in P <=> i \in 1 .. Len(h)
  OBVIOUS
<1>2. Picked(h, P) = SubSeq(h, 1, Len(h))
  BY <1>1, PickedSlice
<1> QED
  BY <1>2

LEMMA PickedNone ==
    ASSUME NEW S, NEW h \in Seq(S), NEW P, \A i \in 1 .. Len(h) : i \notin P
    PROVE  Picked(h, P) = <<>>
<1>1. 1 \in 1 .. Len(h) + 1 /\ 0 \in 1 - 1 .. Len(h) /\ \A i \in 1 .. Len(h) : i \in P <=> i \in 1 .. 0
  OBVIOUS
<1>2. Picked(h, P) = SubSeq(h, 1, 0)
  BY <1>1, PickedSlice
<1> QED
  BY <1>2

LEMMA RepairLegal ==
    ASSUME NEW M, Talk(M), NEW h \in Seq(M), Legal(h)
    PROVE  Repair(h) = h
<1>1. DOMAIN h = 1 .. Len(h) /\ Len(h) \in Nat
  OBVIOUS
<1>2. DropOrphans(h) = h
  <2>1. Orphans(h) = {}
    BY OrphansAre DEF Legal
  <2>2. \A i \in 1 .. Len(h) : i \in DOMAIN h \ Orphans(h)
    BY <1>1, <2>1
  <2> QED
    BY <2>2, PickedAll DEF DropOrphans
<1> DEFINE owner(i) == {a \in 1 .. i : /\ h[a].role = "assistant"
                                       /\ \A j \in a + 1 .. i : h[j].role = "tool"
                                       /\ i < Len(h) => h[i + 1].role # "tool"}
           missing(a) == LET calls == h[a].calls
                         IN  Picked(calls, {n \in DOMAIN calls : calls[n] \notin Fulfilled(h)})
           synthetic(i) == IF owner(i) = {} THEN <<>>
                           ELSE LET m == missing(Min(owner(i)))
                                IN  [n \in DOMAIN m |-> Tool(m[n], "unavailable")]
<1>3. ASSUME NEW a \in 1 .. Len(h), h[a].role = "assistant" PROVE missing(a) = <<>>
  <2> DEFINE calls == h[a].calls
             P == {n \in DOMAIN calls : calls[n] \notin Fulfilled(h)}
  <2>1. calls \in Seq(ToSet(calls)) /\ Len(calls) \in Nat
    BY <1>3, CallsCounted
  <2>2. \A n \in 1 .. Len(calls) : calls[n] \in ToSet(calls)
    <3> HIDE DEF calls
    <3> QED
      BY <2>1, ListOfItsOwn
  <2>3. \A c \in ToSet(calls) : c \in Fulfilled(h)
    <3>1. Full(h, a)
      BY <1>3 DEF Legal, AllFull
    <3>2. ASSUME NEW c \in ToSet(calls) PROVE \E j \in 1 .. Len(h) : Gives(h, j, c)
      <4>1. PICK j \in a + 1 .. a + Len(calls) : Gives(h, j, c)
        BY <3>1 DEF Full
      <4>2. a + Len(calls) <= Len(h)
        BY <3>1 DEF Full
      <4>3. j \in 1 .. Len(h)
        <5> HIDE DEF calls
        <5> QED
          BY <1>1, <2>1, <4>2
      <4> QED
        BY <4>1, <4>3
    <3> QED
      BY <3>2, WholeList
  <2>4. \A n \in 1 .. Len(calls) : n \notin P
    BY <2>2, <2>3
  <2> HIDE DEF calls, P
  <2>5. Picked(calls, P) = <<>>
    BY <2>1, <2>4, PickedNone
  <2> QED
    BY <2>5 DEF calls, P
<1>4. ASSUME NEW i \in DOMAIN h PROVE synthetic(i) = <<>>
  <2>1. ASSUME owner(i) # {} PROVE missing(Min(owner(i))) = <<>>
    <3>1. owner(i) \in SUBSET Nat /\ \A a \in owner(i) : a \in 1 .. Len(h) /\ h[a].role = "assistant"
      BY <1>1
    <3> DEFINE a == Min(owner(i))
    <3>2. a \in owner(i)
      <4> HIDE DEF owner
      <4> QED
        BY <2>1, <3>1, SmallestIn
    <3> HIDE DEF owner, a
    <3>3. a \in 1 .. Len(h) /\ h[a].role = "assistant"
      BY <3>1, <3>2
    <3> HIDE DEF missing
    <3> QED
      BY <1>3, <3>3 DEF a
  <2> HIDE DEF missing, owner
  <2>2. [n \in DOMAIN <<>> |-> Tool(<<>>[n], "unavailable")] = <<>>
    OBVIOUS
  <2> QED
    BY <2>1, <2>2
<1>5. Backfill(h) = FlattenSeq([i \in DOMAIN h |-> <<h[i]>> \o synthetic(i)])
  BY DEF Backfill
<1>6. Picked(h, DOMAIN h) = FlattenSeq([i \in DOMAIN h |-> IF i \in DOMAIN h THEN <<h[i]>> ELSE <<>>])
  BY DEF Picked
<1>7. [i \in DOMAIN h |-> <<h[i]>> \o synthetic(i)] = [i \in DOMAIN h |-> IF i \in DOMAIN h THEN <<h[i]>> ELSE <<>>]
  <2> HIDE DEF synthetic
  <2>1. \A x : <<x>> \o <<>> = <<x>>
    OBVIOUS
  <2>2. \A i \in DOMAIN h : <<h[i]>> \o synthetic(i) = <<h[i]>>
    BY <1>4, <2>1
  <2> QED
    BY <2>2
<1>8. Picked(h, DOMAIN h) = h
  BY <1>1, PickedAll
<1> HIDE DEF synthetic
<1>9. Backfill(h) = h
  BY <1>5, <1>6, <1>7, <1>8
<1> QED
  BY <1>2, <1>9 DEF Repair

LEMMA StartOfLegal ==
    ASSUME NEW M, NEW h \in Seq(M), Legal(h)
    PROVE  LegalStart(h) = 0 /\ DropHead(h) = h
<1>1. PICK r \in [0 .. Len(h) -> Nat] :
         /\ r[0] = 0 /\ LegalStart(h) = r[Len(h)]
         /\ \A k \in 1 .. Len(h) : r[k] = Moved(h, r[k - 1], k)
  BY LegalStartRuns
<1> DEFINE K == {k \in 0 .. Len(h) : r[k] = 0}
<1>2. Len(h) \in Nat
  OBVIOUS
<1>3. 0 \in K
  BY <1>1, <1>2
<1>4. ASSUME NEW k \in 1 .. Len(h), k - 1 \in K PROVE k \in K
  <2>1. r[k] = Moved(h, 0, k) /\ k \in 0 .. Len(h)
    BY <1>1, <1>2, <1>4
  <2>2. 1 \in 1 .. Len(h) + 1 /\ k - 1 \in 1 - 1 .. Len(h) /\ 0 + 1 = 1
    BY <1>2
  <2>3. h[k].id \in Declared(SubSeq(h, 1, k - 1)) <=> Known(h, k)
    BY <2>2, DeclaredIn DEF Known
  <2>4. h[k].role = "tool" => Known(h, k)
    BY DEF Legal
  <2>5. Moved(h, 0, k) = 0
    BY <2>2, <2>3, <2>4 DEF Moved
  <2> QED
    BY <2>1, <2>5
<1>5. r[Len(h)] = 0
  <2> HIDE DEF K
  <2>1. 0 .. Len(h) \subseteq K
    BY <1>2, <1>3, <1>4, CountingTo
  <2>2. Len(h) \in K
    BY <1>2, <2>1
  <2> QED
    BY <2>2 DEF K
<1>6. LegalStart(h) = 0
  BY <1>1, <1>5
<1>7. SubSeq(h, 0 + 1, Len(h)) = h
  OBVIOUS
<1> QED
  BY <1>6, <1>7 DEF DropHead, From

LEMMA EndOfLegal ==
    ASSUME NEW M, Talk(M), NEW h \in Seq(M), Legal(h)
    PROVE  LegalEnd(h) = Len(h)
<1> DEFINE open == {i \in DOMAIN h : h[i].role = "assistant" /\ ~(ToSet(h[i].calls) \subseteq Fulfilled(From(h, i + 1)))}
<1>1. DOMAIN h = 1 .. Len(h) /\ Len(h) \in Nat
  OBVIOUS
<1>2. ASSUME NEW i \in 1 .. Len(h), h[i].role = "assistant" 
      PROVE  ToSet(h[i].calls) \subseteq Fulfilled(From(h, i + 1))
  <2>1. Full(h, i) /\ Len(h[i].calls) \in Nat
    BY <1>2, CallsCounted DEF Legal, AllFull
  <2> SUFFICES ASSUME NEW c \in ToSet(h[i].calls) PROVE c \in Fulfilled(From(h, i + 1))
    OBVIOUS
  <2>2. PICK j \in i + 1 .. i + Len(h[i].calls) : Gives(h, j, c)
    BY <2>1 DEF Full
  <2>3. i + Len(h[i].calls) <= Len(h)
    BY <2>1 DEF Full
  <2>4. j \in i + 1 .. Len(h) /\ i + 1 \in 1 .. Len(h) + 1 /\ Len(h) \in (i + 1) - 1 .. Len(h)
    BY <1>1, <2>1, <2>3
  <2> QED
    BY <2>2, <2>4, FulfilledIn DEF From
<1>3. open = {}
  BY <1>1, <1>2
<1> QED
  BY <1>3 DEF LegalEnd

(* A legal list may be cut before a user message.                          *)
LEMMA CutAtUser ==
    ASSUME NEW M, Talk(M), NEW h \in Seq(M), Legal(h), NEW k \in 0 .. Len(h), NEW t \in Seq(M), Shows(h, k, t),
           Len(t) > 0, t[1].role = "user"
    PROVE  Legal(t)
<1>1. Whole(h)
  BY DEF Legal, Whole
<1>2. Whole(t)
  BY <1>1, CutTail
<1>3. ASSUME NEW i \in 1 .. Len(t), Bare(t, i) PROVE FALSE
  <2>1. 1 \in 1 .. i
    OBVIOUS
  <2> QED
    BY <1>3, <2>1 DEF Bare
<1> QED
  BY <1>2, <1>3 DEF Whole, Legal

LEMMA SameList ==
    ASSUME NEW S, NEW u \in Seq(S), NEW v \in Seq(S), Len(u) = Len(v), \A j \in 1 .. Len(u) : u[j] = v[j]
    PROVE  u = v
  OBVIOUS

LEMMA FromIs ==
    ASSUME NEW S, NEW h \in Seq(S), NEW a \in 1 .. Len(h) + 1
    PROVE  /\ From(h, a) \in Seq(S) /\ Len(From(h, a)) = Len(h) - a + 1
           /\ \A j \in 1 .. Len(h) - a + 1 : From(h, a)[j] = h[a + j - 1]
           /\ Shows(h, a - 1, From(h, a))
<1>1. Len(h) \in a - 1 .. Len(h) /\ a - 1 \in 0 .. Len(h) /\ (a - 1) + 1 = a
  OBVIOUS
<1>2. Shows(h, a - 1, SubSeq(h, a, Len(h)))
  BY <1>1, TailIs
<1> QED
  BY <1>1, <1>2, SliceIs DEF From

LEMMA TailOfTail ==
    ASSUME NEW S, NEW h \in Seq(S), NEW a \in 1 .. Len(h) + 1, NEW b \in 1 .. Len(h) - a + 2
    PROVE  From(From(h, a), b) = From(h, a + b - 1) /\ a + b - 1 \in 1 .. Len(h) + 1
<1> DEFINE t == From(h, a)
           c == a + b - 1
<1>1. Len(h) \in Nat /\ a \in Nat /\ b \in Nat
  OBVIOUS
<1>2. t \in Seq(S) /\ Len(t) = Len(h) - a + 1 /\ \A j \in 1 .. Len(h) - a + 1 : t[j] = h[a + j - 1]
  BY FromIs
<1> HIDE DEF t
<1>3. b \in 1 .. Len(t) + 1 /\ c \in 1 .. Len(h) + 1
  BY <1>1, <1>2
<1>4. From(t, b) \in Seq(S) /\ Len(From(t, b)) = Len(t) - b + 1 /\ \A j \in 1 .. Len(t) - b + 1 : From(t, b)[j] = t[b + j - 1]
  BY <1>2, <1>3, FromIs
<1>5. From(h, c) \in Seq(S) /\ Len(From(h, c)) = Len(h) - c + 1 /\ \A j \in 1 .. Len(h) - c + 1 : From(h, c)[j] = h[c + j - 1]
  <2> HIDE DEF c
  <2> QED
    BY <1>3, FromIs
<1>6. Len(t) - b + 1 = Len(h) - c + 1
  BY <1>1, <1>2
<1>7. ASSUME NEW j \in 1 .. Len(h) - c + 1 PROVE From(t, b)[j] = From(h, c)[j]
  <2>1. b + j - 1 \in 1 .. Len(h) - a + 1 /\ a + (b + j - 1) - 1 = c + j - 1
    BY <1>1, <1>7
  <2>2. t[b + j - 1] = h[a + (b + j - 1) - 1]
    BY <1>2, <2>1
  <2> HIDE DEF c
  <2> QED
    BY <1>4, <1>5, <1>6, <2>1, <2>2
<1>8. From(t, b) = From(h, c)
  <2> HIDE DEF c
  <2> QED
    BY <1>4, <1>5, <1>6, <1>7, SameList
<1> QED
  BY <1>3, <1>8 DEF t

(* What _snip_history leaves of a legal list whose system messages are in   *)
(* front: those, and the list from a user message on, which is legal again.*)
LEMMA SnipLegal ==
    ASSUME NEW M, Talk(M), NEW h \in Seq(M), Legal(h), NEW p \in 0 .. Len(h), 
           \A i \in 1 .. Len(h) : h[i].role = "system" <=> i <= p,
           NEW u \in 1 .. Len(h), h[u].role = "user", \A i \in 1 .. Len(h) : h[i].role = "user" => i <= u,
           NEW k \in Nat \ {0}
    PROVE  \E v \in p + 1 .. u : Snip(h, k) = Upto(h, p) \o From(h, v) /\ h[v].role = "user"
<1> DEFINE system == Picked(h, Speaking(h, "system"))
           rest == Picked(h, DOMAIN h \ Speaking(h, "system"))
           tail == LastN(rest, k)
           aligned == IF Speaking(tail, "user") # {} THEN From(tail, Min(Speaking(tail, "user")))
                      ELSE IF Speaking(rest, "user") # {} THEN From(rest, Max(Speaking(rest, "user")))
                      ELSE tail
           legal == LET headed == DropHead(aligned) IN Upto(headed, LegalEnd(headed))
<1>1. /\ DOMAIN h = 1 .. Len(h) /\ Len(h) \in Nat /\ p \in Nat /\ u \in p + 1 .. Len(h)
      /\ p + 1 \in 1 .. Len(h) + 1
  <2>1. ~(u <= p)
    OBVIOUS
  <2> QED
    BY <2>1
<1>2. system = Upto(h, p)
  <2>1. 1 \in 1 .. Len(h) + 1 /\ p \in 1 - 1 .. Len(h)
    BY <1>1
  <2>2. \A i \in 1 .. Len(h) : i \in Speaking(h, "system") <=> i \in 1 .. p
    BY <1>1 DEF Speaking
  <2> QED
    BY <2>1, <2>2, PickedSlice DEF Upto
<1>3. rest = From(h, p + 1)
  <2>1. p + 1 \in 1 .. Len(h) + 1 /\ Len(h) \in (p + 1) - 1 .. Len(h)
    BY <1>1
  <2>2. \A i \in 1 .. Len(h) : i \in DOMAIN h \ Speaking(h, "system") <=> i \in p + 1 .. Len(h)
    BY <1>1 DEF Speaking
  <2> QED
    BY <2>1, <2>2, PickedSlice DEF From
<1>4. /\ rest \in Seq(M) /\ Len(rest) = Len(h) - p /\ Len(rest) \in Nat /\ DOMAIN rest = 1 .. Len(rest)
      /\ \A j \in 1 .. Len(h) - p : rest[j] = h[p + j]
  <2>1. Len(h) - (p + 1) + 1 = Len(h) - p /\ Len(h) - p \in Nat /\ \A j \in 1 .. Len(h) - p : (p + 1) + j - 1 = p + j
    BY <1>1
  <2>2. /\ From(h, p + 1) \in Seq(M) /\ Len(From(h, p + 1)) = Len(h) - (p + 1) + 1
        /\ \A j \in 1 .. Len(h) - (p + 1) + 1 : From(h, p + 1)[j] = h[(p + 1) + j - 1]
    BY <1>1, FromIs
  <2> HIDE DEF rest
  <2>3. rest \in Seq(M) /\ Len(rest) = Len(h) - p /\ \A j \in 1 .. Len(h) - p : rest[j] = h[p + j]
    BY <1>3, <2>1, <2>2
  <2> QED
    BY <2>1, <2>3
<1> HIDE DEF system, rest
<1> DEFINE s == IF Len(rest) > k THEN Len(rest) - k ELSE 0
<1>5. /\ tail = From(rest, s + 1) /\ s \in 0 .. Len(rest) /\ s + 1 \in 1 .. Len(rest) + 1
      /\ tail \in Seq(M) /\ Len(tail) = Len(rest) - s /\ \A j \in 1 .. Len(rest) - s : tail[j] = rest[s + j]
  <2>1. s \in 0 .. Len(rest) /\ s + 1 \in 1 .. Len(rest) + 1 /\ Len(rest) - (s + 1) + 1 = Len(rest) - s
    <3>1. \A n \in Nat : LET d == IF n > k THEN n - k ELSE 0
                         IN  d \in 0 .. n /\ d + 1 \in 1 .. n + 1 /\ n - (d + 1) + 1 = n - d
      OBVIOUS
    <3> QED
      BY <1>4, <3>1
  <2>2. tail = From(rest, s + 1)
    <3>1. SubSeq(rest, 0 + 1, Len(rest)) = rest
      BY <1>4
    <3> QED
      BY <3>1 DEF LastN, From
  <2> HIDE DEF s, tail
  <2>3. /\ tail \in Seq(M) /\ Len(tail) = Len(rest) - (s + 1) + 1
        /\ \A j \in 1 .. Len(rest) - (s + 1) + 1 : tail[j] = rest[(s + 1) + j - 1]
    BY <1>4, <2>1, <2>2, FromIs
  <2>4. \A j \in 1 .. Len(rest) - s : (s + 1) + j - 1 = s + j
    BY <1>4, <2>1
  <2> QED
    BY <2>1, <2>2, <2>3, <2>4
<1> HIDE DEF s, tail
<1>6. DOMAIN tail = 1 .. Len(tail) /\ Len(tail) \in Nat
  BY <1>5
<1>7. \E v \in p + 1 .. u : aligned = From(h, v) /\ h[v].role = "user"
  <2>1. CASE Speaking(tail, "user") # {}
    <3> DEFINE b == Min(Speaking(tail, "user"))
    <3>1. b \in 1 .. Len(tail) /\ tail[b].role = "user"
      <4>1. Speaking(tail, "user") \in SUBSET Nat
        BY <1>6 DEF Speaking
      <4>2. b \in Speaking(tail, "user")
        BY <2>1, <4>1, SmallestIn
      <4> HIDE DEF b
      <4> QED
        BY <1>6, <4>2 DEF Speaking
    <3>2. aligned = From(tail, b)
      BY <2>1
    <3> HIDE DEF b, aligned
    <3>3. b \in 1 .. Len(rest) - (s + 1) + 2 /\ s + b \in 1 .. Len(rest) /\ (s + 1) + b - 1 = s + b
      BY <1>4, <1>5, <1>6, <3>1
    <3>4. From(tail, b) = From(rest, s + b)
      BY <1>4, <1>5, <3>3, TailOfTail
    <3>5. s + b \in 1 .. Len(h) - (p + 1) + 2 /\ (p + 1) + (s + b) - 1 = p + (s + b) /\ p + (s + b) \in 1 .. Len(h)
      BY <1>1, <1>4, <3>3
    <3>6. From(rest, s + b) = From(h, p + (s + b))
      BY <1>1, <1>3, <3>5, TailOfTail
    <3>7. h[p + (s + b)].role = "user"
      <4>1. tail[b] = rest[s + b] /\ rest[s + b] = h[p + (s + b)]
        BY <1>1, <1>4, <1>5, <3>1, <3>3, <3>5
      <4> QED
        BY <3>1, <4>1
    <3>8. p + (s + b) \in p + 1 .. u
      <4>1. p + (s + b) <= u
        BY <3>5, <3>7
      <4> QED
        BY <1>1, <3>3, <3>5, <4>1
    <3> QED
      BY <3>2, <3>4, <3>6, <3>7, <3>8
  <2>2. CASE Speaking(tail, "user") = {}
    <3> DEFINE b == Max(Speaking(rest, "user"))
    <3>1. Speaking(rest, "user") \in SUBSET (1 .. Len(rest)) /\ Speaking(rest, "user") # {}
      <4>1. u - p \in 1 .. Len(h) - p /\ p + (u - p) = u
        BY <1>1
      <4>2. rest[u - p] = h[u]
        BY <1>4, <4>1
      <4> QED
        BY <1>4, <4>1, <4>2 DEF Speaking
    <3>2. b \in 1 .. Len(rest) /\ rest[b].role = "user"
      <4>1. b \in Speaking(rest, "user")
        BY <1>4, <3>1, LargestIn
      <4> HIDE DEF b
      <4> QED
        BY <1>4, <4>1 DEF Speaking
    <3>3. aligned = From(rest, b)
      BY <2>2, <3>1
    <3> HIDE DEF b, aligned
    <3>4. b \in 1 .. Len(h) - (p + 1) + 2 /\ (p + 1) + b - 1 = p + b /\ p + b \in 1 .. Len(h) /\ b \in 1 .. Len(h) - p
      BY <1>1, <1>4, <3>2
    <3>5. From(rest, b) = From(h, p + b)
      BY <1>1, <1>3, <3>4, TailOfTail
    <3>6. h[p + b].role = "user"
      BY <1>4, <3>2, <3>4
    <3>7. p + b \in p + 1 .. u
      <4>1. p + b <= u
        BY <3>4, <3>6
      <4> QED
        BY <1>1, <3>4, <4>1
    <3> QED
      BY <3>3, <3>5, <3>6, <3>7
  <2> QED
    BY <2>1, <2>2
<1>8. PICK v \in p + 1 .. u : aligned = From(h, v) /\ h[v].role = "user"
  BY <1>7
<1> HIDE DEF aligned
<1>9. aligned \in Seq(M) /\ Len(aligned) = Len(h) - v + 1 /\ Shows(h, v - 1, aligned) /\ aligned[1] = h[v]
  <2>1. v \in 1 .. Len(h) + 1 /\ 1 \in 1 .. Len(h) - v + 1 /\ v + 1 - 1 = v
    BY <1>1, <1>8
  <2>2. /\ From(h, v) \in Seq(M) /\ Len(From(h, v)) = Len(h) - v + 1 /\ Shows(h, v - 1, From(h, v))
        /\ \A j \in 1 .. Len(h) - v + 1 : From(h, v)[j] = h[v + j - 1]
    BY <2>1, FromIs
  <2>3. From(h, v)[1] = h[v]
    BY <2>1, <2>2
  <2> QED
    BY <1>8, <2>2, <2>3
<1>10. Legal(aligned) /\ Len(aligned) > 0
  <2>1. Len(aligned) > 0 /\ v - 1 \in 0 .. Len(h)
    BY <1>1, <1>8, <1>9
  <2> QED
    BY <1>8, <1>9, <2>1, CutAtUser
<1>11. legal = aligned
  <2>1. DropHead(aligned) = aligned
    BY <1>9, <1>10, StartOfLegal
  <2>2. LegalEnd(aligned) = Len(aligned)
    BY <1>9, <1>10, EndOfLegal
  <2>3. SubSeq(aligned, 1, Len(aligned)) = aligned
    BY <1>9
  <2> QED
    BY <2>1, <2>2, <2>3 DEF Upto
<1>12. legal # <<>>
  BY <1>9, <1>10, <1>11
<1>13. rest # <<>>
  BY <1>1, <1>4
<1>14. Snip(h, k) = IF rest = <<>> THEN h ELSE system \o (IF legal = <<>> THEN DropHead(LastN(rest, 4)) ELSE legal)
  BY DEF Snip, system, rest, tail, aligned
<1> HIDE DEF legal
<1>15. Snip(h, k) = system \o aligned
  BY <1>11, <1>12, <1>13, <1>14
<1> QED
  BY <1>2, <1>8, <1>15

LEMMA ConcatIs ==
    ASSUME NEW S, NEW f \in Seq(S), NEW t \in Seq(S)
    PROVE  /\ f \o t \in Seq(S) /\ Len(f \o t) = Len(f) + Len(t)
           /\ \A j \in 1 .. Len(f) : (f \o t)[j] = f[j]
           /\ \A j \in 1 .. Len(t) : (f \o t)[Len(f) + j] = t[j]
  OBVIOUS

(* What the model is shown of such a list is legal, and holds its first     *)
(* message and the newest of the user.                                     *)
LEMMA BudgetLegal ==
    ASSUME NEW M, Talk(M), NEW h \in Seq(M), Legal(h), NEW p \in 1 .. Len(h), 
           \A i \in 1 .. Len(h) : h[i].role = "system" <=> i <= p,
           NEW u \in 1 .. Len(h), h[u].role = "user", \A i \in 1 .. Len(h) : h[i].role = "user" => i <= u,
           NEW v \in p + 1 .. u, h[v].role = "user",
           NEW w, w = Upto(h, p) \o From(h, v)
    PROVE  w \in Seq(M) /\ Legal(w) /\ h[1] \in ToSet(w) /\ h[u] \in ToSet(w)
<1> DEFINE f == Upto(h, p)
           t == From(h, v)
<1>1. Len(h) \in Nat /\ p \in Nat /\ v \in Nat /\ u \in Nat /\ v <= u /\ u <= Len(h) /\ p < v /\ p <= Len(h) /\ p >= 1
  OBVIOUS
<1>2. f \in Seq(M) /\ Len(f) = p /\ \A j \in 1 .. p : f[j] = h[j]
  <2>1. 1 \in 1 .. Len(h) + 1 /\ p \in 1 - 1 .. Len(h) /\ p - 1 + 1 = p /\ \A j \in 1 .. p : 1 + j - 1 = j
    BY <1>1
  <2>2. /\ SubSeq(h, 1, p) \in Seq(M) /\ Len(SubSeq(h, 1, p)) = p - 1 + 1
        /\ \A j \in 1 .. p - 1 + 1 : SubSeq(h, 1, p)[j] = h[1 + j - 1]
    BY <2>1, SliceIs
  <2> QED
    BY <2>1, <2>2 DEF Upto
<1>3. t \in Seq(M) /\ Len(t) = Len(h) - v + 1 /\ (\A j \in 1 .. Len(h) - v + 1 : t[j] = h[v + j - 1]) /\ Shows(h, v - 1, t)
  <2>1. v \in 1 .. Len(h) + 1
    BY <1>1
  <2> QED
    BY <2>1, FromIs
<1> HIDE DEF f, t
<1>4. Legal(t)
  <2>1. v - 1 \in 0 .. Len(h) /\ Len(t) > 0 /\ 1 \in 1 .. Len(h) - v + 1 /\ v + 1 - 1 = v
    BY <1>1, <1>3
  <2>2. t[1].role = "user"
    BY <1>3, <2>1
  <2> QED
    BY <1>3, <2>1, <2>2, CutAtUser
<1>5. w = f \o t
  BY DEF f, t
<1>6. /\ w \in Seq(M) /\ Len(w) = p + Len(t) /\ \A j \in 1 .. p : w[j] = f[j]
      /\ \A j \in 1 .. Len(t) : w[p + j] = t[j]
  <2>1. f \in Seq(M) /\ t \in Seq(M)
    BY <1>2, <1>3
  <2>2. f \o t \in Seq(M) /\ Len(f \o t) = Len(f) + Len(t)
    BY <2>1, ConcatIs
  <2>3. \A j \in 1 .. Len(f) : (f \o t)[j] = f[j]
    BY <2>1, ConcatIs
  <2>4. \A j \in 1 .. Len(t) : (f \o t)[Len(f) + j] = t[j]
    BY <2>1, ConcatIs
  <2> QED
    BY <1>2, <1>5, <2>2, <2>3, <2>4
<1>7. Shows(w, p, t) /\ p \in 0 .. Len(w)
  <2>1. Len(t) \in Nat
    BY <1>3
  <2> QED
    BY <1>1, <1>6, <2>1 DEF Shows
<1>8. \A i \in 1 .. p : w[i] = h[i] /\ w[i].role = "system"
  BY <1>1, <1>2, <1>6
<1>9. Legal(w)
  <2>1. w \in Seq(M) /\ \A i \in 1 .. p : w[i].role = "system"
    BY <1>6, <1>8
  <2> QED
    BY <1>3, <1>4, <1>7, <2>1, SystemsInFront
<1>10. h[1] \in ToSet(w)
  <2>1. 1 \in 1 .. p /\ 1 \in 1 .. Len(w)
    BY <1>1, <1>7
  <2> QED
    BY <1>6, <1>8, <2>1, ListOfItsOwn
<1>11. h[u] \in ToSet(w)
  <2>1. u - v + 1 \in 1 .. Len(t) /\ v + (u - v + 1) - 1 = u /\ p + (u - v + 1) \in 1 .. Len(w) /\ u - v + 1 \in 1 .. Len(h) - v + 1
    BY <1>1, <1>3, <1>6
  <2>2. t[u - v + 1] = h[u]
    BY <1>3, <2>1
  <2>3. w[p + (u - v + 1)] = h[u]
    BY <1>6, <2>1, <2>2
  <2> QED
    BY <1>6, <2>1, <2>3, ListOfItsOwn
<1> QED
  BY <1>6, <1>9, <1>10, <1>11

LEMMA GovernedLegal ==
    ASSUME NEW M, Talk(M), NEW h \in Seq(M), Legal(h), NEW p \in 1 .. Len(h), 
           \A i \in 1 .. Len(h) : h[i].role = "system" <=> i <= p,
           NEW u \in 1 .. Len(h), h[u].role = "user", \A i \in 1 .. Len(h) : h[i].role = "user" => i <= u,
           NEW w, w = Repair(h) \/ \E k \in 1 .. Len(h) : w = Repair(Snip(Repair(h), k))
    PROVE  w \in Seq(M) /\ Legal(w) /\ h[1] \in ToSet(w) /\ h[u] \in ToSet(w)
<1>1. Repair(h) = h
  BY RepairLegal
<1>2. CASE w = h
  <2>1. 1 \in 1 .. Len(h)
    OBVIOUS
  <2> QED
    BY <1>2, <2>1, ListOfItsOwn
<1>3. ASSUME NEW k \in 1 .. Len(h), w = Repair(Snip(h, k)) PROVE w \in Seq(M) /\ Legal(w) /\ h[1] \in ToSet(w) /\ h[u] \in ToSet(w)
  <2>1. k \in Nat \ {0} /\ p \in 0 .. Len(h)
    OBVIOUS
  <2>2. PICK v \in p + 1 .. u : Snip(h, k) = Upto(h, p) \o From(h, v) /\ h[v].role = "user"
    BY <2>1, SnipLegal
  <2> DEFINE x == Snip(h, k)
  <2>3. x \in Seq(M) /\ Legal(x) /\ h[1] \in ToSet(x) /\ h[u] \in ToSet(x)
    <3> HIDE DEF x
    <3>1. x = Upto(h, p) \o From(h, v)
      BY <2>2 DEF x
    <3> QED
      BY <2>2, <3>1, BudgetLegal
  <2> HIDE DEF x
  <2>4. Repair(x) = x
    BY <2>3, RepairLegal
  <2> QED
    BY <1>3, <2>3, <2>4 DEF x
<1> QED
  BY <1>1, <1>2, <1>3

-----------------------------------------------------------------------------
(* What the runner puts behind a legal list.                               *)
Plain(m) == m.role \in {"user", "system"} \/ (m.role = "assistant" /\ m.calls = <<>>)

LEMMA PlainBehind ==
    ASSUME NEW M, Talk(M), NEW h \in Seq(M), NEW g \in Seq(M), Starts(h, g), Legal(h),
           \A i \in Len(h) + 1 .. Len(g) : Plain(g[i])
    PROVE  Legal(g)
<1>1. /\ Len(h) \in Nat /\ Len(g) \in Nat /\ Len(h) <= Len(g)
      /\ \A i \in 1 .. Len(g) : i \in 1 .. Len(h) \/ Plain(g[i])
  BY DEF Starts
<1>2. \A i \in 1 .. Len(g) : g[i].role = "tool" => i \in 1 .. Len(h) /\ g[i] = h[i]
  BY <1>1, GrownFacts DEF Plain
<1>3. AllFull(g)
  <2> SUFFICES ASSUME NEW i \in 1 .. Len(g), g[i].role = "assistant" PROVE Full(g, i)
    BY DEF AllFull
  <2>1. CASE i \in 1 .. Len(h)
    BY <2>1, GrownFacts DEF Legal, AllFull
  <2>2. CASE i \notin 1 .. Len(h)
    <3>1. g[i].calls = <<>>
      BY <1>1, <2>2 DEF Plain
    <3>2. Len(<<>>) = 0 /\ ToSet(<<>>) = {} /\ i + 0 <= Len(g) /\ i + 1 .. i + 0 = {}
      BY <1>1 DEF ToSet
    <3> QED
      BY <3>1, <3>2 DEF Full
  <2> QED
    BY <2>1, <2>2
<1>4. Once(g)
  BY <1>2 DEF Legal, Once
<1> QED
  BY <1>2, <1>3, <1>4, GrownFacts DEF Legal

LEMMA StartsIs ==
    ASSUME NEW M, NEW f \in Seq(M), NEW g \in Seq(M), Starts(f, g), NEW b, b = Len(f) + 1
    PROVE  /\ Len(f) \in Nat /\ Len(g) \in Nat
           /\ \A i \in 1 .. Len(g) : i \in 1 .. Len(f) \/ i = b \/ i \in b + 1 .. Len(g)
           /\ \A i \in 1 .. Len(f) : g[i] = f[i] /\ i \in 1 .. Len(g)
  BY DEF Starts

(* An answer with its calls, and then exactly their results.               *)
LEMMA AnswerGiven ==
    ASSUME NEW M, Talk(M), NEW f \in Seq(M), Legal(f), NEW g \in Seq(M), Starts(f, g),
           NEW b \in Nat, b = Len(f) + 1, b <= Len(g), g[b].role = "assistant",
           Len(g) = b + Len(g[b].calls),
           \A j \in b + 1 .. Len(g) : g[j].role = "tool" /\ g[j].id \in ToSet(g[b].calls),
           \A c \in ToSet(g[b].calls) : \E j \in b + 1 .. Len(g) : Gives(g, j, c),
           \A i, j \in b + 1 .. Len(g) : g[i].id = g[j].id => i = j,
           \A c \in ToSet(g[b].calls) : \A a \in 1 .. Len(f) : ~Declares(f, a, c)
    PROVE  Legal(g)
<1>1. /\ Len(f) \in Nat /\ Len(g) \in Nat
      /\ \A i \in 1 .. Len(g) : i \in 1 .. Len(f) \/ i = b \/ i \in b + 1 .. Len(g)
      /\ \A i \in 1 .. Len(f) : g[i] = f[i] /\ i \in 1 .. Len(g)
  BY StartsIs
<1>2. AllFull(g)
  <2> SUFFICES ASSUME NEW i \in 1 .. Len(g), g[i].role = "assistant" PROVE Full(g, i)
    BY DEF AllFull
  <2>1. CASE i \in 1 .. Len(f)
    BY <2>1, GrownFacts DEF Legal, AllFull
  <2>2. CASE i = b
    <3> DEFINE n == Len(g[b].calls)
    <3>1. b + n = Len(g) /\ b + n <= Len(g)
      BY <1>1
    <3> HIDE DEF n
    <3> QED
      BY <2>2, <3>1, Zenon DEF Full, n
  <2> QED
    BY <1>1, <2>1, <2>2
<1>3. ASSUME NEW i \in 1 .. Len(f), g[i].role = "tool" PROVE g[i].id \notin ToSet(g[b].calls)
  <2>1. Known(f, i) /\ f[i] = g[i]
    BY <1>1, <1>3 DEF Legal
  <2>2. PICK a \in 1 .. i - 1 : Declares(f, a, g[i].id)
    BY <2>1 DEF Known
  <2>3. a \in 1 .. Len(f)
    BY <1>1
  <2> QED
    BY <2>2, <2>3
<1>4. Once(g)
  <2> SUFFICES ASSUME NEW i \in 1 .. Len(g), NEW j \in 1 .. Len(g),
                      g[i].role = "tool", g[j].role = "tool", g[i].id = g[j].id
               PROVE  i = j
    BY DEF Once
  <2>1. i # b /\ j # b
    OBVIOUS
  <2>2. CASE i \in 1 .. Len(f) /\ j \in 1 .. Len(f)
    BY <1>1, <2>2 DEF Legal, Once
  <2>3. CASE i \in b + 1 .. Len(g) /\ j \in b + 1 .. Len(g)
    BY <2>3
  <2>4. CASE i \in 1 .. Len(f) /\ j \in b + 1 .. Len(g)
    BY <1>3, <2>4
  <2>5. CASE i \in b + 1 .. Len(g) /\ j \in 1 .. Len(f)
    BY <1>3, <2>5
  <2> QED
    BY <1>1, <2>1, <2>2, <2>3, <2>4, <2>5
<1>5. ASSUME NEW i \in 1 .. Len(g), g[i].role = "tool" PROVE Known(g, i)
  <2>1. CASE i \in 1 .. Len(f)
    BY <1>1, <1>5, <2>1, GrownFacts DEF Legal
  <2>2. CASE i \in b + 1 .. Len(g)
    <3>1. b \in 1 .. i - 1
      BY <1>1, <2>2
    <3>2. Declares(g, b, g[i].id)
      BY <2>2 DEF Declares
    <3> QED
      BY <3>1, <3>2 DEF Known
  <2> QED
    BY <1>1, <1>5, <2>1, <2>2
<1> QED
  BY <1>2, <1>4, <1>5 DEF Legal
==============================================================================
