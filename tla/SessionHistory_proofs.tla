------------------------ MODULE SessionHistory_proofs ------------------------
(***************************************************************************)
(* Proofs about SessionHistory and the operators of ChatHistory it is made *)
(* of, for every set of turns and sessions, every increment a run may      *)
(* leave, every cut and every interleaving of turns, commands and crashes. *)
(***************************************************************************)
EXTENDS SessionHistory, ChatHistory_proofs

-----------------------------------------------------------------------------
(* Messages.                                                               *)
LEMMA ToolIsMessage ==
    ASSUME NEW c \in CallId
    PROVE  Tool(c, "cancelled") \in Message
  BY DEF Tool, Message

LEMMA MessagesTalk == Talk(Message)
<1>1. \A m \in Message : m.role = "assistant" => m.calls \in Seq(CallId)
  BY DEF Message
<1> QED
  BY <1>1, ListOfItsOwn DEF Talk

LEMMA CallsAreList ==
    ASSUME NEW h \in Seq(Message), NEW i \in 1 .. Len(h), h[i].role = "assistant"
    PROVE  h[i].calls \in Seq(CallId) /\ Len(h[i].calls) \in Nat
<1>1. h[i] \in Message
  OBVIOUS
<1> QED
  BY <1>1 DEF Message

(* The placeholders of an answer, after each of its calls.                  *)
LEMMA PlaceholdersRun ==
    ASSUME NEW calls \in Seq(CallId), NEW answered
    PROVE  \E r \in [0 .. Len(calls) -> Seq(Message)] :
              /\ r[0] = <<>> /\ Placeholders(calls, answered) = r[Len(calls)]
              /\ \A k \in 1 .. Len(calls) : r[k] = Deferred(r[k - 1], calls[k], answered)
<1> DEFINE G == CHOOSE iter : iter = [s \in SUBSET (DOMAIN calls) |->
                   IF s = {} THEN <<>> 
                   ELSE Deferred(iter[s \ {Max(s)}], calls[Max(s)], answered)]
           F == [p \in (Seq(Message)) \X (1 .. Len(calls)) |-> Deferred(p[1], calls[p[2]], answered)]
           N == Len(calls)
<1>1. N \in Nat /\ DOMAIN calls = 1 .. N /\ \A k \in 1 .. N : calls[k] \in CallId
  OBVIOUS
<1>2. Placeholders(calls, answered) = G[DOMAIN calls]
  BY Zenon DEF Placeholders, FoldLeft, MapThenFoldSet
<1>3. ASSUME NEW v \in Seq(Message), NEW x \in CallId PROVE Deferred(v, x, answered) \in Seq(Message)
  <2>1. Tool(x, "cancelled") \in Message
    BY <1>3, ToolIsMessage
  <2> QED
    BY <1>3, <2>1 DEF Deferred
<1>4. F \in [(Seq(Message)) \X (1 .. N) -> Seq(Message)]
  BY <1>1, <1>3
<1>5. PICK g : Folds(g, Seq(Message), <<>>, N, F)
  <2>1. <<>> \in Seq(Message)
    OBVIOUS
  <2> HIDE DEF F, N
  <2> QED
    BY <1>1, <1>4, <2>1, FoldExists
<1>6. ASSUME NEW s \in SUBSET (1 .. N)
      PROVE  g[s] = IF s = {} THEN <<>> ELSE Deferred(g[s \ {Max(s)}], calls[Max(s)], answered)
  <2>1. s # {} => Max(s) \in 1 .. N
    BY <1>1, LargestIn
  <2>2. s # {} => g[s \ {Max(s)}] \in Seq(Message)
    <3> HIDE DEF N, F
    <3> QED
      BY <1>5 DEF Folds
  <2>3. s # {} => F[<<g[s \ {Max(s)}], Max(s)>>] = Deferred(g[s \ {Max(s)}], calls[Max(s)], answered)
    BY <2>1, <2>2
  <2> HIDE DEF F, N
  <2> QED
    BY <1>5, <2>3 DEF Folds
<1> HIDE DEF F
<1>7. g = [s \in SUBSET (DOMAIN calls) |->
              IF s = {} THEN <<>> ELSE Deferred(g[s \ {Max(s)}], calls[Max(s)], answered)]
  <2>1. g = [s \in SUBSET (DOMAIN calls) |-> g[s]]
    BY <1>1, <1>5 DEF Folds
  <2> HIDE DEF N
  <2> QED
    BY <1>1, <1>6, <2>1
<1>8. G = [s \in SUBSET (DOMAIN calls) |->
              IF s = {} THEN <<>> ELSE Deferred(G[s \ {Max(s)}], calls[Max(s)], answered)]
  BY <1>7
<1> DEFINE r == [k \in 0 .. N |-> G[1 .. k]]
<1> HIDE DEF G
<1>9. \A s \in SUBSET (1 .. N) :
         G[s] = IF s = {} THEN <<>> ELSE Deferred(G[s \ {Max(s)}], calls[Max(s)], answered)
  <2> HIDE DEF N
  <2> QED
    BY <1>1, <1>8
<1>10. r[0] = <<>> /\ Placeholders(calls, answered) = r[N]
  <2>1. r[0] = G[{}] /\ {} \in SUBSET (1 .. N)
    BY <1>1
  <2>2. G[{}] = <<>>
    BY <1>9
  <2> QED
    BY <1>1, <1>2, <2>1, <2>2
<1>11. ASSUME NEW k \in 1 .. N PROVE r[k] = Deferred(r[k - 1], calls[k], answered)
  <2>1. k \in Nat /\ k # 0 /\ 1 .. k \in SUBSET (1 .. N) /\ k - 1 \in 0 .. N /\ k \in 0 .. N
    BY <1>1
  <2>2. G[1 .. k] = Deferred(G[1 .. k - 1], calls[k], answered)
    <3> HIDE DEF N
    <3> QED
      BY <1>9, <2>1, UpToNumber
  <2> QED
    BY <2>1, <2>2
<1>12. \A k \in 0 .. N : r[k] \in Seq(Message)
  <2> DEFINE K == {k \in 0 .. N : r[k] \in Seq(Message)}
  <2> HIDE DEF r
  <2>1. 0 \in K
    <3>1. <<>> \in Seq(Message) /\ 0 \in 0 .. N
      BY <1>1
    <3> HIDE DEF N
    <3> QED
      BY <1>10, <3>1
  <2>2. ASSUME NEW k \in 1 .. N, k - 1 \in K PROVE k \in K
    <3>1. r[k - 1] \in Seq(Message) /\ k \in 0 .. N
      BY <1>1, <2>2
    <3>2. calls[k] \in CallId
      BY <1>1
    <3> HIDE DEF N
    <3>3. Deferred(r[k - 1], calls[k], answered) \in Seq(Message)
      BY <1>3, <3>1, <3>2
    <3> QED
      BY <1>11, <3>1, <3>3
  <2> HIDE DEF K, N
  <2>3. 0 .. N \subseteq K
    BY <1>1, <2>1, <2>2, CountingTo
  <2> QED
    BY <2>3 DEF K
<1>13. r \in [0 .. N -> Seq(Message)]
  <2>1. r = [k \in 0 .. N |-> r[k]]
    OBVIOUS
  <2> HIDE DEF r
  <2> QED
    BY <1>12, <2>1
<1> HIDE DEF r
<1> QED
  BY <1>10, <1>11, <1>13

(* What the ledger writes for one message is messages.                     *)
LEMMA EntryType ==
    ASSUME NEW h \in Seq(Message), NEW m \in Message, NEW inc
    PROVE  Entry(h, m, inc) \in Seq(Message)
<1>1. m.role = "assistant" => m.calls \in Seq(CallId)
  BY DEF Message
<1>2. m.role = "assistant" => Placeholders(m.calls, Fulfilled(h) \cup Fulfilled(inc)) \in Seq(Message)
  <2> DEFINE answered == Fulfilled(h) \cup Fulfilled(inc)
  <2> HIDE DEF answered
  <2>1. ASSUME NEW calls \in Seq(CallId) PROVE Placeholders(calls, answered) \in Seq(Message)
    <3>1. PICK r \in [0 .. Len(calls) -> Seq(Message)] : Placeholders(calls, answered) = r[Len(calls)]
      BY PlaceholdersRun
    <3> QED
      BY <3>1
  <2> QED
    BY <1>1, <2>1 DEF answered
<1> QED
  BY <1>2 DEF Entry

(* The list that SAVE writes, after each message of the increment.          *)
LEMMA PersistRuns ==
    ASSUME NEW h \in Seq(Message), NEW inc \in Seq(Message)
    PROVE  \E r \in [0 .. Len(inc) -> Seq(Message)] :
              /\ r[0] = h /\ Persist(h, inc) = r[Len(inc)]
              /\ \A k \in 1 .. Len(inc) : r[k] = r[k - 1] \o Entry(r[k - 1], inc[k], inc)
<1> DEFINE G == CHOOSE iter : iter = [s \in SUBSET (DOMAIN inc) |->
                   IF s = {} THEN h 
                   ELSE iter[s \ {Max(s)}] \o Entry(iter[s \ {Max(s)}], inc[Max(s)], inc)]
           F == [p \in (Seq(Message)) \X (1 .. Len(inc)) |-> p[1] \o Entry(p[1], inc[p[2]], inc)]
           N == Len(inc)
<1>1. N \in Nat /\ DOMAIN inc = 1 .. N /\ \A k \in 1 .. N : inc[k] \in Message
  OBVIOUS
<1>2. Persist(h, inc) = G[DOMAIN inc]
  BY Zenon DEF Persist, FoldLeft, MapThenFoldSet
<1>3. ASSUME NEW v \in Seq(Message), NEW x \in Message PROVE v \o Entry(v, x, inc) \in Seq(Message)
  <2>1. Entry(v, x, inc) \in Seq(Message)
    BY <1>3, EntryType
  <2> QED
    BY <1>3, <2>1
<1>4. F \in [(Seq(Message)) \X (1 .. N) -> Seq(Message)]
  BY <1>1, <1>3
<1>5. PICK g : Folds(g, Seq(Message), h, N, F)
  <2>1. h \in Seq(Message)
    OBVIOUS
  <2> HIDE DEF F, N
  <2> QED
    BY <1>1, <1>4, <2>1, FoldExists
<1>6. ASSUME NEW s \in SUBSET (1 .. N)
      PROVE  g[s] = IF s = {} THEN h ELSE g[s \ {Max(s)}] \o Entry(g[s \ {Max(s)}], inc[Max(s)], inc)
  <2>1. s # {} => Max(s) \in 1 .. N
    BY <1>1, LargestIn
  <2>2. s # {} => g[s \ {Max(s)}] \in Seq(Message)
    <3> HIDE DEF N, F
    <3> QED
      BY <1>5 DEF Folds
  <2>3. s # {} => F[<<g[s \ {Max(s)}], Max(s)>>] = g[s \ {Max(s)}] \o Entry(g[s \ {Max(s)}], inc[Max(s)], inc)
    BY <2>1, <2>2
  <2> HIDE DEF F, N
  <2> QED
    BY <1>5, <2>3 DEF Folds
<1> HIDE DEF F
<1>7. g = [s \in SUBSET (DOMAIN inc) |->
              IF s = {} THEN h ELSE g[s \ {Max(s)}] \o Entry(g[s \ {Max(s)}], inc[Max(s)], inc)]
  <2>1. g = [s \in SUBSET (DOMAIN inc) |-> g[s]]
    BY <1>1, <1>5 DEF Folds
  <2> HIDE DEF N
  <2> QED
    BY <1>1, <1>6, <2>1
<1>8. G = [s \in SUBSET (DOMAIN inc) |->
              IF s = {} THEN h ELSE G[s \ {Max(s)}] \o Entry(G[s \ {Max(s)}], inc[Max(s)], inc)]
  BY <1>7
<1> DEFINE r == [k \in 0 .. N |-> G[1 .. k]]
<1> HIDE DEF G
<1>9. \A s \in SUBSET (1 .. N) :
         G[s] = IF s = {} THEN h ELSE G[s \ {Max(s)}] \o Entry(G[s \ {Max(s)}], inc[Max(s)], inc)
  <2> HIDE DEF N
  <2> QED
    BY <1>1, <1>8
<1>10. r[0] = h /\ Persist(h, inc) = r[N]
  <2>1. r[0] = G[{}] /\ {} \in SUBSET (1 .. N)
    BY <1>1
  <2>2. G[{}] = h
    BY <1>9
  <2> QED
    BY <1>1, <1>2, <2>1, <2>2
<1>11. ASSUME NEW k \in 1 .. N PROVE r[k] = r[k - 1] \o Entry(r[k - 1], inc[k], inc)
  <2>1. k \in Nat /\ k # 0 /\ 1 .. k \in SUBSET (1 .. N) /\ k - 1 \in 0 .. N /\ k \in 0 .. N
    BY <1>1
  <2>2. G[1 .. k] = G[1 .. k - 1] \o Entry(G[1 .. k - 1], inc[k], inc)
    <3> HIDE DEF N
    <3> QED
      BY <1>9, <2>1, UpToNumber
  <2> QED
    BY <2>1, <2>2
<1>12. \A k \in 0 .. N : r[k] \in Seq(Message)
  <2> DEFINE K == {k \in 0 .. N : r[k] \in Seq(Message)}
  <2> HIDE DEF r
  <2>1. 0 \in K
    <3>1. h \in Seq(Message) /\ 0 \in 0 .. N
      BY <1>1
    <3> HIDE DEF N
    <3> QED
      BY <1>10, <3>1
  <2>2. ASSUME NEW k \in 1 .. N, k - 1 \in K PROVE k \in K
    <3>1. r[k - 1] \in Seq(Message) /\ k \in 0 .. N
      BY <1>1, <2>2
    <3>2. inc[k] \in Message
      BY <1>1
    <3> HIDE DEF N
    <3>3. r[k - 1] \o Entry(r[k - 1], inc[k], inc) \in Seq(Message)
      BY <1>3, <3>1, <3>2
    <3> QED
      BY <1>11, <3>1, <3>3
  <2> HIDE DEF K, N
  <2>3. 0 .. N \subseteq K
    BY <1>1, <2>1, <2>2, CountingTo
  <2> QED
    BY <2>3 DEF K
<1>13. r \in [0 .. N -> Seq(Message)]
  <2>1. r = [k \in 0 .. N |-> r[k]]
    OBVIOUS
  <2> HIDE DEF r
  <2> QED
    BY <1>12, <2>1
<1> HIDE DEF r
<1> QED
  BY <1>10, <1>11, <1>13

-----------------------------------------------------------------------------
(* The placeholders are one result for each call nobody answers.            *)
LEMMA PlaceholdersAre ==
    ASSUME NEW calls \in Seq(CallId), IsInjective(calls), NEW answered,
           NEW p, p = Placeholders(calls, answered)
    PROVE  /\ p \in Seq(Message)
           /\ \A j \in 1 .. Len(p) : p[j].role = "tool" /\ p[j].id \in ToSet(calls) \ answered
           /\ \A c \in ToSet(calls) \ answered : \E j \in 1 .. Len(p) : Gives(p, j, c)
           /\ Once(p)
<1>1. PICK r \in [0 .. Len(calls) -> Seq(Message)] :
         /\ r[0] = <<>> /\ Placeholders(calls, answered) = r[Len(calls)]
         /\ \A k \in 1 .. Len(calls) : r[k] = Deferred(r[k - 1], calls[k], answered)
  BY PlaceholdersRun
<1> DEFINE N == Len(calls)
           Due(q, k) == 
             /\ \A j \in 1 .. Len(q) : q[j].role = "tool" /\ q[j].id \notin answered
                                       /\ \E x \in 1 .. k : q[j].id = calls[x]
             /\ \A x \in 1 .. k : calls[x] \notin answered => \E j \in 1 .. Len(q) : Gives(q, j, calls[x])
             /\ Once(q)
           K == {k \in 0 .. N : Due(r[k], k)}
<1>2. N \in Nat /\ DOMAIN calls = 1 .. N /\ \A x \in 1 .. N : calls[x] \in CallId
  OBVIOUS
<1>3. \A x, y \in 1 .. N : calls[x] = calls[y] => x = y
  BY <1>2 DEF IsInjective
<1> HIDE DEF N
<1>4. 0 \in K
  <2>1. Due(<<>>, 0)
    BY DEF Once
  <2> QED
    BY <1>1, <1>2, <2>1
<1>5. ASSUME NEW k \in 1 .. N, k - 1 \in K PROVE k \in K
  <2> DEFINE q == r[k - 1]
  <2>1. q \in Seq(Message) /\ Due(q, k - 1) /\ r[k] = Deferred(q, calls[k], answered)
    BY <1>1, <1>5 DEF N
  <2> HIDE DEF q
  <2>2. /\ k \in Nat /\ k \in 0 .. N /\ \A x \in 1 .. k : x \in 1 .. k - 1 \/ x = k
        /\ \A x \in 1 .. k - 1 : x \in 1 .. k /\ x \in 1 .. N /\ x # k
    BY <1>2
  <2>3. CASE calls[k] \in answered
    <3>1. r[k] = q
      BY <2>1, <2>3 DEF Deferred
    <3>2. Due(q, k)
      BY <2>1, <2>2, <2>3
    <3> QED
      BY <2>2, <3>1, <3>2
  <2>4. CASE calls[k] \notin answered
    <3> DEFINE m == Tool(calls[k], "cancelled")
               u == Append(q, m)
    <3>1. r[k] = u
      BY <2>1, <2>4 DEF Deferred
    <3>2. m \in Message /\ m.role = "tool" /\ m.id = calls[k]
      BY <1>2, ToolIsMessage DEF Tool
    <3> HIDE DEF m
    <3>3. /\ Len(u) = Len(q) + 1 /\ Len(q) \in Nat /\ u[Len(u)] = m
          /\ \A j \in 1 .. Len(q) : u[j] = q[j] /\ j \in 1 .. Len(u) /\ j # Len(u)
          /\ \A j \in 1 .. Len(u) : j \in 1 .. Len(q) \/ j = Len(u)
      BY <2>1, <3>2
    <3> HIDE DEF u
    <3>4. ASSUME NEW j \in 1 .. Len(u) 
          PROVE  u[j].role = "tool" /\ u[j].id \notin answered /\ \E x \in 1 .. k : u[j].id = calls[x]
      BY <2>1, <2>2, <2>4, <3>2, <3>3
    <3>5. ASSUME NEW x \in 1 .. k, calls[x] \notin answered
          PROVE  \E j \in 1 .. Len(u) : Gives(u, j, calls[x])
      <4>1. CASE x = k
        <5>1. Len(u) \in 1 .. Len(u) /\ Gives(u, Len(u), calls[k])
          BY <3>2, <3>3 DEF Gives
        <5> QED
          BY <4>1, <5>1
      <4>2. CASE x \in 1 .. k - 1
        <5>1. PICK j \in 1 .. Len(q) : Gives(q, j, calls[x])
          BY <2>1, <3>5, <4>2
        <5>2. j \in 1 .. Len(u) /\ Gives(u, j, calls[x])
          BY <3>3, <5>1 DEF Gives
        <5> QED
          BY <5>2
      <4> QED
        BY <2>2, <4>1, <4>2
    <3>6. Once(u)
      <4>1. ASSUME NEW j \in 1 .. Len(q) PROVE u[j].id # calls[k]
        <5>1. PICK x \in 1 .. k - 1 : q[j].id = calls[x]
          BY <2>1
        <5>2. calls[x] # calls[k]
          BY <1>3, <2>2
        <5> QED
          BY <3>3, <5>1, <5>2
      <4> QED
        BY <2>1, <3>2, <3>3, <4>1 DEF Once
    <3> QED
      BY <2>2, <3>1, <3>4, <3>5, <3>6
  <2> QED
    BY <2>3, <2>4
<1>6. N \in K
  <2> HIDE DEF K
  <2>1. 0 .. N \subseteq K
    BY <1>2, <1>4, <1>5, CountingTo
  <2> QED
    BY <1>2, <2>1
<1>7. p \in Seq(Message) /\ Due(p, N)
  BY <1>1, <1>2, <1>6 DEF N
<1>8. \A c : c \in ToSet(calls) <=> \E x \in 1 .. N : calls[x] = c
  BY <1>2 DEF ToSet
<1> QED
  BY <1>7, <1>8

-----------------------------------------------------------------------------
(* The list that SAVE writes, between two messages of the increment.        *)
ToolsOf(h, a, b) == \A q \in a .. b : h[q].role = "tool"
NewIn(h, g) == Len(h) + 1 .. Len(g)

(* Of a turn nothing is stored before it has saved.                         *)
NothingOf(t, h) == 
    \A i \in 1 .. Len(h) : /\ h[i].role = "tool" => h[i].id \notin {t} \X Nat
                           /\ h[i].role = "assistant" => ToSet(h[i].calls) \cap ({t} \X Nat) = {}

(* A result stands behind its call and results, with nothing in between;    *)
(* what no result was written for yet is answered next in the increment.    *)
Growing(h, inc, k, g) == 
    /\ g \in Seq(Message) /\ Starts(h, g) /\ Once(g)
    /\ \A i \in NewIn(h, g) : g[i].role # "tool" => \E b \in 1 .. k : g[i] = inc[b]
    /\ \A j \in NewIn(h, g) : g[j].role = "tool" => 
         \E i \in Len(h) + 1 .. j - 1 : Declares(g, i, g[j].id) /\ ToolsOf(g, i + 1, j)
    /\ \A i, j \in NewIn(h, g) : \A c : Declares(g, i, c) /\ Declares(g, j, c) => i = j
    /\ \A i \in NewIn(h, g) : \A c : Declares(g, i, c) => 
         \/ \E j \in NewIn(h, g) : Gives(g, j, c)
         \/ /\ ToolsOf(g, i + 1, Len(g))
            /\ \E j \in k + 1 .. Len(inc) : Gives(inc, j, c) /\ ToolsOf(inc, k + 1, j)
    /\ \A a \in 1 .. k : inc[a].role = "assistant" /\ ToolsOf(inc, a + 1, k) => 
         \E i \in NewIn(h, g) : g[i] = inc[a] /\ ToolsOf(g, i + 1, Len(g))

(* What the assumption on a run's messages says of each of them.           *)
LEMMA IncrementIs ==
    ASSUME NEW t, NEW inc, Increment(t, inc)
    PROVE  /\ inc \in Seq(Message) /\ Len(inc) \in Nat
           /\ \A i \in 1 .. Len(inc) : inc[i] \in Message /\ inc[i].role \in {"user", "assistant", "tool"}
           /\ \A b \in 1 .. Len(inc) : \A c : Declares(inc, b, c) => c \in {t} \X Nat
           /\ \A a, b \in 1 .. Len(inc) : \A c : Declares(inc, a, c) /\ Declares(inc, b, c) => a = b
           /\ \A b \in 1 .. Len(inc) : inc[b].role = "assistant" => IsInjective(inc[b].calls)
           /\ \A i \in 1 .. Len(inc) : inc[i].role = "tool" => 
                \E a \in 1 .. i - 1 : Declares(inc, a, inc[i].id) /\ ToolsOf(inc, a + 1, i)
<1>1. inc \in Seq(Message) /\ Len(inc) \in Nat /\ DOMAIN inc = 1 .. Len(inc)
  BY DEF Increment
<1>2. \A i \in 1 .. Len(inc) : inc[i] \in Message /\ inc[i].role \in {"user", "assistant", "tool"}
  BY <1>1 DEF Increment
<1>3. \A b \in 1 .. Len(inc) : inc[b].role = "assistant" => 
         /\ IsInjective(inc[b].calls) /\ ToSet(inc[b].calls) \subseteq {t} \X Nat
         /\ \A a \in 1 .. b - 1 : 
              inc[a].role = "assistant" => ToSet(inc[a].calls) \cap ToSet(inc[b].calls) = {}
  BY <1>1 DEF Increment
<1>4. \A b \in 1 .. Len(inc) : \A c : Declares(inc, b, c) => c \in {t} \X Nat
  BY <1>3 DEF Declares
<1>5. ASSUME NEW a \in 1 .. Len(inc), NEW b \in 1 .. Len(inc), NEW c, 
             Declares(inc, a, c), Declares(inc, b, c)
      PROVE  a = b
  <2>1. ASSUME NEW x \in 1 .. Len(inc), NEW y \in 1 .. Len(inc), 
               Declares(inc, x, c), Declares(inc, y, c)
        PROVE  ~(x < y)
    <3>1. x < y => x \in 1 .. y - 1
      BY <1>1
    <3>2. x \in 1 .. y - 1 => ToSet(inc[x].calls) \cap ToSet(inc[y].calls) = {}
      BY <1>3, <2>1 DEF Declares
    <3> QED
      BY <2>1, <3>1, <3>2 DEF Declares
  <2>2. ~(a < b) /\ ~(b < a)
    BY <1>5, <2>1
  <2> QED
    BY <1>1, <2>2
<1>6. \A i \in 1 .. Len(inc) : inc[i].role = "tool" => 
         \E a \in 1 .. i - 1 : Declares(inc, a, inc[i].id) /\ ToolsOf(inc, a + 1, i)
  BY <1>1 DEF Increment, Declares, ToolsOf
<1> QED
  BY <1>1, <1>2, <1>3, <1>4, <1>5, <1>6

(* Messages that are appended move no other.                                *)
Appended(g, e, u) == 
    /\ u \in Seq(Message) /\ Len(u) = Len(g) + Len(e) /\ Len(g) \in Nat /\ Len(e) \in Nat
    /\ Starts(g, u)
    /\ \A i \in 1 .. Len(g) : u[i] = g[i] /\ i \in 1 .. Len(u)
    /\ \A i \in Len(g) + 1 .. Len(u) : i - Len(g) \in 1 .. Len(e) /\ u[i] = e[i - Len(g)]
    /\ \A i \in 1 .. Len(g) : \A c : (Declares(u, i, c) <=> Declares(g, i, c)) /\ (Gives(u, i, c) <=> Gives(g, i, c))

LEMMA AppendedFacts ==
    ASSUME NEW g \in Seq(Message), NEW e \in Seq(Message), NEW u, u = g \o e
    PROVE  Appended(g, e, u)
<1>1. /\ u \in Seq(Message) /\ Len(u) = Len(g) + Len(e) /\ Len(g) \in Nat /\ Len(e) \in Nat
      /\ \A i \in 1 .. Len(g) : u[i] = g[i] /\ i \in 1 .. Len(u)
      /\ \A i \in 1 .. Len(e) : u[Len(g) + i] = e[i]
  OBVIOUS
<1>2. ASSUME NEW i \in Len(g) + 1 .. Len(u) PROVE i - Len(g) \in 1 .. Len(e) /\ u[i] = e[i - Len(g)]
  <2>1. i - Len(g) \in 1 .. Len(e) /\ Len(g) + (i - Len(g)) = i
    BY <1>1
  <2> QED
    BY <1>1, <2>1
<1>3. Starts(g, u)
  BY <1>1 DEF Starts
<1>4. \A i \in 1 .. Len(g) : \A c : (Declares(u, i, c) <=> Declares(g, i, c)) /\ (Gives(u, i, c) <=> Gives(g, i, c))
  BY <1>1 DEF Declares, Gives
<1> QED
  BY <1>1, <1>2, <1>3, <1>4 DEF Appended

(* The calls of the increment are declared and answered in its own part.    *)
LEMMA OwnCalls ==
    ASSUME NEW t, NEW inc, Increment(t, inc), NEW h \in Seq(Message), NothingOf(t, h),
           NEW k \in 0 .. Len(inc), NEW g, Growing(h, inc, k, g)
    PROVE  /\ \A i \in NewIn(h, g) : \A c : Declares(g, i, c) => 
                c \in {t} \X Nat /\ \E b \in 1 .. k : g[i] = inc[b] /\ Declares(inc, b, c)
           /\ \A c \in {t} \X Nat : c \in Fulfilled(g) => \E j \in NewIn(h, g) : Gives(g, j, c)
           /\ \A i \in NewIn(h, g) : i \in 1 .. Len(g) /\ i \in Nat
           /\ Len(g) \in Nat /\ Len(h) \in Nat /\ k \in Nat /\ Len(inc) \in Nat
<1>1. /\ g \in Seq(Message) /\ Starts(h, g) /\ Len(g) \in Nat /\ Len(h) \in Nat
      /\ k \in Nat /\ Len(inc) \in Nat /\ \A b \in 1 .. k : b \in 1 .. Len(inc)
  BY IncrementIs DEF Growing
<1>2. \A i \in NewIn(h, g) : i \in 1 .. Len(g) /\ i \in Nat
  BY <1>1 DEF NewIn
<1>3. ASSUME NEW i \in NewIn(h, g), NEW c, Declares(g, i, c)
      PROVE  c \in {t} \X Nat /\ \E b \in 1 .. k : g[i] = inc[b] /\ Declares(inc, b, c)
  <2>1. PICK b \in 1 .. k : g[i] = inc[b]
    BY <1>3 DEF Growing, Declares
  <2>2. Declares(inc, b, c)
    BY <1>3, <2>1 DEF Declares
  <2> QED
    BY <1>1, <2>1, <2>2, IncrementIs
<1>4. ASSUME NEW c \in {t} \X Nat, c \in Fulfilled(g) PROVE \E j \in NewIn(h, g) : Gives(g, j, c)
  <2>1. PICK j \in 1 .. Len(g) : Gives(g, j, c)
    BY <1>1, <1>4, WholeList
  <2>2. j \notin 1 .. Len(h)
    BY <1>1, <1>4, <2>1 DEF NothingOf, Gives, Starts
  <2>3. j \in NewIn(h, g)
    BY <1>1, <2>2 DEF NewIn
  <2> QED
    BY <2>1, <2>3
<1> QED
  BY <1>1, <1>2, <1>3, <1>4

(* A result that answers nothing, or what was answered before, is dropped.  *)
LEMMA GrowDrop ==
    ASSUME NEW t, NEW inc, Increment(t, inc), NEW h \in Seq(Message), NothingOf(t, h),
           NEW k \in 1 .. Len(inc), NEW g, Growing(h, inc, k - 1, g),
           inc[k].role = "tool", inc[k].id \notin Declared(g) \ Fulfilled(g)
    PROVE  Growing(h, inc, k, g)
<1>1. /\ g \in Seq(Message) /\ Len(inc) \in Nat /\ k \in Nat /\ k - 1 \in 0 .. Len(inc)
      /\ \A b \in 1 .. k - 1 : b \in 1 .. k
      /\ \A a \in 1 .. k : a \in 1 .. k - 1 \/ a = k
  BY IncrementIs DEF Growing
<1>2. ASSUME NEW i \in NewIn(h, g), NEW c, Declares(g, i, c)
      PROVE  \/ \E j \in NewIn(h, g) : Gives(g, j, c)
             \/ /\ ToolsOf(g, i + 1, Len(g))
                /\ \E j \in k + 1 .. Len(inc) : Gives(inc, j, c) /\ ToolsOf(inc, k + 1, j)
  <2>1. \/ \E j \in NewIn(h, g) : Gives(g, j, c)
        \/ /\ ToolsOf(g, i + 1, Len(g))
           /\ \E j \in k .. Len(inc) : Gives(inc, j, c) /\ ToolsOf(inc, k, j)
    <3>1. (k - 1) + 1 = k
      BY <1>1
    <3> QED
      BY <1>2, <3>1 DEF Growing
  <2>2. ASSUME NEW j \in k .. Len(inc), Gives(inc, j, c), ToolsOf(inc, k, j), ToolsOf(g, i + 1, Len(g))
        PROVE  \/ \E x \in NewIn(h, g) : Gives(g, x, c)
               \/ \E x \in k + 1 .. Len(inc) : Gives(inc, x, c) /\ ToolsOf(inc, k + 1, x)
    <3>1. CASE j = k
      <4>1. c \in {t} \X Nat /\ i \in 1 .. Len(g)
        BY <1>1, <1>2, OwnCalls
      <4>2. c \in Declared(g)
        BY <1>1, <1>2, <4>1, WholeList
      <4>3. c \in Fulfilled(g)
        BY <2>2, <3>1, <4>2 DEF Gives
      <4> QED
        BY <1>1, <4>1, <4>3, OwnCalls
    <3>2. CASE j # k
      <4>1. j \in k + 1 .. Len(inc) /\ ToolsOf(inc, k + 1, j)
        BY <1>1, <2>2, <3>2 DEF ToolsOf
      <4> QED
        BY <2>2, <4>1
    <3> QED
      BY <3>1, <3>2
  <2> QED
    BY <2>1, <2>2
<1>3. ASSUME NEW a \in 1 .. k, inc[a].role = "assistant", ToolsOf(inc, a + 1, k) 
      PROVE  \E i \in NewIn(h, g) : g[i] = inc[a] /\ ToolsOf(g, i + 1, Len(g))
  <2>1. a \in 1 .. k - 1 /\ ToolsOf(inc, a + 1, k - 1)
    BY <1>1, <1>3 DEF ToolsOf
  <2> QED
    BY <1>3, <2>1 DEF Growing
<1>4. \A i \in NewIn(h, g) : g[i].role # "tool" => \E b \in 1 .. k : g[i] = inc[b]
  BY <1>1 DEF Growing
<1>5. /\ g \in Seq(Message) /\ Starts(h, g) /\ Once(g)
      /\ \A j \in NewIn(h, g) : g[j].role = "tool" => 
           \E i \in Len(h) + 1 .. j - 1 : Declares(g, i, g[j].id) /\ ToolsOf(g, i + 1, j)
      /\ \A i, j \in NewIn(h, g) : \A c : Declares(g, i, c) /\ Declares(g, j, c) => i = j
  BY DEF Growing
<1> QED
  BY <1>2, <1>3, <1>4, <1>5 DEF Growing

Extended(h, g, e, u) == 
    /\ u \in Seq(Message) /\ Starts(h, u) /\ Len(u) = Len(g) + Len(e)
    /\ Len(h) \in Nat /\ Len(g) \in Nat /\ Len(e) \in Nat /\ Len(h) <= Len(g)
    /\ \A i \in NewIn(h, u) : i \in NewIn(h, g) \/ i \in NewIn(g, u)
    /\ \A i \in NewIn(g, u) : i \in NewIn(h, u) /\ i - Len(g) \in 1 .. Len(e) /\ u[i] = e[i - Len(g)]
    /\ \A i \in NewIn(h, g) : 
         /\ i \in NewIn(h, u) /\ u[i] = g[i] /\ i \in 1 .. Len(g)
         /\ \A c : (Declares(u, i, c) <=> Declares(g, i, c)) /\ (Gives(u, i, c) <=> Gives(g, i, c))
    /\ \A i \in NewIn(h, g), j \in 1 .. Len(g) : ToolsOf(g, i + 1, j) => ToolsOf(u, i + 1, j)
    /\ \A i \in NewIn(h, g) : ToolsOf(g, i + 1, Len(g)) /\ ToolsOf(u, Len(g) + 1, Len(u)) => ToolsOf(u, i + 1, Len(u))

LEMMA GrownBy ==
    ASSUME NEW h \in Seq(Message), NEW g \in Seq(Message), Starts(h, g), NEW e \in Seq(Message), NEW u, u = g \o e
    PROVE  Extended(h, g, e, u)
<1>0. Appended(g, e, u)
  BY AppendedFacts
<1>1. /\ u \in Seq(Message) /\ Len(u) = Len(g) + Len(e) /\ Len(g) \in Nat /\ Len(e) \in Nat
      /\ Starts(g, u)
      /\ \A i \in 1 .. Len(g) : u[i] = g[i] /\ i \in 1 .. Len(u)
      /\ \A i \in Len(g) + 1 .. Len(u) : i - Len(g) \in 1 .. Len(e) /\ u[i] = e[i - Len(g)]
      /\ \A i \in 1 .. Len(g) : \A c : (Declares(u, i, c) <=> Declares(g, i, c)) /\ (Gives(u, i, c) <=> Gives(g, i, c))
  BY <1>0 DEF Appended
<1>2. Len(h) \in Nat /\ Len(h) <= Len(g) /\ \A j \in 1 .. Len(h) : g[j] = h[j]
  BY DEF Starts
<1>3. \A j \in 1 .. Len(h) : j \in 1 .. Len(g)
  BY <1>1, <1>2
<1>4. Starts(h, u)
  BY <1>1, <1>2, <1>3 DEF Starts
<1>5. /\ \A i \in NewIn(h, u) : i \in NewIn(h, g) \/ i \in NewIn(g, u)
      /\ \A i \in NewIn(g, u) : i \in NewIn(h, u)
      /\ \A i \in NewIn(h, g) : i \in NewIn(h, u) /\ i \in 1 .. Len(g)
  BY <1>1, <1>2 DEF NewIn
<1>6. ASSUME NEW i \in NewIn(h, g), NEW j \in 1 .. Len(g), ToolsOf(g, i + 1, j) PROVE ToolsOf(u, i + 1, j)
  <2>1. \A q \in i + 1 .. j : q \in 1 .. Len(g)
    BY <1>1, <1>5
  <2> QED
    BY <1>1, <1>6, <2>1 DEF ToolsOf
<1>7. ASSUME NEW i \in NewIn(h, g), ToolsOf(g, i + 1, Len(g)), ToolsOf(u, Len(g) + 1, Len(u)) 
      PROVE  ToolsOf(u, i + 1, Len(u))
  <2>1. \A q \in i + 1 .. Len(u) : q \in i + 1 .. Len(g) \/ q \in Len(g) + 1 .. Len(u)
    BY <1>1, <1>5
  <2>2. \A q \in i + 1 .. Len(g) : q \in 1 .. Len(g)
    BY <1>1, <1>5
  <2> QED
    BY <1>1, <1>7, <2>1, <2>2 DEF ToolsOf
<1>8. \A i \in NewIn(g, u) : i - Len(g) \in 1 .. Len(e) /\ u[i] = e[i - Len(g)]
  BY <1>1 DEF NewIn
<1> QED
  BY <1>1, <1>2, <1>4, <1>5, <1>6, <1>7, <1>8 DEF Extended

(* What is kept of the invariant by what is appended.                      *)
LEMMA GrownBehind ==
    ASSUME NEW h \in Seq(Message), NEW inc, NEW k, NEW g, Growing(h, inc, k, g), 
           NEW e, NEW u, Extended(h, g, e, u), NEW j \in NewIn(h, g), u[j].role = "tool"
    PROVE  \E i \in Len(h) + 1 .. j - 1 : Declares(u, i, u[j].id) /\ ToolsOf(u, i + 1, j)
<1>1. /\ g \in Seq(Message) /\ Starts(h, g)
      /\ g[j].role = "tool" => \E i \in Len(h) + 1 .. j - 1 : Declares(g, i, g[j].id) /\ ToolsOf(g, i + 1, j)
  BY DEF Growing
<1>2. j \in 1 .. Len(g) /\ u[j] = g[j] /\ Len(g) \in Nat /\ Len(h) \in Nat
  BY DEF Extended
<1>3. PICK i \in Len(h) + 1 .. j - 1 : Declares(g, i, g[j].id) /\ ToolsOf(g, i + 1, j)
  BY <1>1, <1>2
<1>4. i \in NewIn(h, g)
  BY <1>2, <1>3 DEF NewIn
<1>5. Declares(u, i, u[j].id) /\ ToolsOf(u, i + 1, j)
  <2>1. \A c : Declares(u, i, c) <=> Declares(g, i, c)
    BY <1>4 DEF Extended
  <2>2. ToolsOf(u, i + 1, j)
    BY <1>2, <1>3, <1>4 DEF Extended
  <2> QED
    BY <1>2, <1>3, <2>1, <2>2
<1> QED
  BY <1>3, <1>5

(* A message that is neither call nor result comes when nothing is due.     *)
LEMMA GrowPlain ==
    ASSUME NEW t, NEW inc, Increment(t, inc), NEW h \in Seq(Message),
           NEW k \in 1 .. Len(inc), NEW g, Growing(h, inc, k - 1, g),
           inc[k].role = "user", NEW u, u = g \o <<inc[k]>>
    PROVE  Growing(h, inc, k, u)
<1> DEFINE e == <<inc[k]>>
<1>1. /\ Len(inc) \in Nat /\ k \in Nat /\ (k - 1) + 1 = k
      /\ \A b \in 1 .. k - 1 : b \in 1 .. k
      /\ \A a \in 1 .. k : a \in 1 .. k - 1 \/ a = k
      /\ \A j \in k .. Len(inc) : k \in k .. j
      /\ k \in 1 .. k /\ inc[k] \in Message /\ \A x \in 1 .. 1 : x = 1
  BY IncrementIs
<1>2. g \in Seq(Message) /\ Starts(h, g) /\ e \in Seq(Message) /\ Len(e) = 1 /\ e[1] = inc[k]
  BY <1>1 DEF Growing
<1>3. Extended(h, g, e, u)
  BY <1>2, GrownBy
<1> HIDE DEF e
<1>4. ASSUME NEW i \in NewIn(h, u), u[i].role # "user" PROVE i \in NewIn(h, g)
  <2>1. i \in NewIn(g, u) => u[i] = inc[k]
    <3>1. ASSUME i \in NewIn(g, u) PROVE i - Len(g) \in 1 .. 1 /\ u[i] = e[i - Len(g)]
      BY <1>2, <1>3, <3>1 DEF Extended
    <3> QED
      BY <1>1, <1>2, <3>1
  <2> QED
    BY <1>3, <1>4, <2>1 DEF Extended
<1>5. Once(u)
  <2> SUFFICES ASSUME NEW i \in 1 .. Len(u), NEW j \in 1 .. Len(u),
                      u[i].role = "tool", u[j].role = "tool", u[i].id = u[j].id
               PROVE  i = j
    BY DEF Once
  <2>1. ASSUME NEW x \in 1 .. Len(u), u[x].role = "tool" PROVE x \in 1 .. Len(g) /\ u[x] = g[x]
    <3>1. x \in 1 .. Len(h) \/ x \in NewIn(h, u)
      BY <1>3 DEF Extended, NewIn
    <3>2. CASE x \in NewIn(h, u)
      BY <1>3, <1>4, <2>1, <3>2 DEF Extended
    <3>3. CASE x \in 1 .. Len(h)
      BY <1>2, <1>3, <3>3 DEF Extended, Starts
    <3> QED
      BY <3>1, <3>2, <3>3
  <2> QED
    BY <2>1 DEF Growing, Once
<1>6. ASSUME NEW i \in NewIn(h, u), u[i].role # "tool" PROVE \E b \in 1 .. k : u[i] = inc[b]
  <2>1. CASE i \in NewIn(h, g)
    BY <1>1, <1>3, <1>6, <2>1 DEF Growing, Extended
  <2>2. CASE i \in NewIn(g, u)
    <3>1. i - Len(g) \in 1 .. 1 /\ u[i] = e[i - Len(g)]
      BY <1>2, <1>3, <2>2 DEF Extended
    <3> QED
      BY <1>1, <1>2, <3>1
  <2> QED
    BY <1>3, <2>1, <2>2 DEF Extended
<1>7. ASSUME NEW j \in NewIn(h, u), u[j].role = "tool" 
      PROVE  \E i \in Len(h) + 1 .. j - 1 : Declares(u, i, u[j].id) /\ ToolsOf(u, i + 1, j)
  <2>1. j \in NewIn(h, g)
    BY <1>4, <1>7
  <2> QED
    BY <1>3, <1>7, <2>1, GrownBehind
<1>8. ASSUME NEW i \in NewIn(h, u), NEW c, Declares(u, i, c)
      PROVE  i \in NewIn(h, g) /\ Declares(g, i, c)
  BY <1>3, <1>4, <1>8 DEF Extended, Declares
<1>9. ASSUME NEW i \in NewIn(h, u), NEW c, Declares(u, i, c)
      PROVE  \E j \in NewIn(h, u) : Gives(u, j, c)
  <2>1. i \in NewIn(h, g) /\ Declares(g, i, c)
    BY <1>8, <1>9
  <2>2. \/ \E j \in NewIn(h, g) : Gives(g, j, c)
        \/ \E j \in k .. Len(inc) : ToolsOf(inc, k, j)
    <3>1. \/ \E j \in NewIn(h, g) : Gives(g, j, c)
          \/ /\ ToolsOf(g, i + 1, Len(g))
             /\ \E j \in (k - 1) + 1 .. Len(inc) : Gives(inc, j, c) /\ ToolsOf(inc, (k - 1) + 1, j)
      BY <2>1 DEF Growing
    <3> QED
      BY <1>1, <3>1
  <2>3. ~ \E j \in k .. Len(inc) : ToolsOf(inc, k, j)
    BY <1>1 DEF ToolsOf
  <2> QED
    BY <1>3, <2>2, <2>3 DEF Extended
<1>10. ASSUME NEW a \in 1 .. k, inc[a].role = "assistant", ToolsOf(inc, a + 1, k) PROVE FALSE
  <2>1. a # k
    BY <1>10
  <2>2. k \in a + 1 .. k
    BY <1>1, <2>1
  <2> QED
    BY <1>10, <2>2 DEF ToolsOf
<1>11. \A i, j \in NewIn(h, u) : \A c : Declares(u, i, c) /\ Declares(u, j, c) => i = j
  BY <1>8 DEF Growing
<1>12. u \in Seq(Message) /\ Starts(h, u)
  BY <1>3 DEF Extended
<1> QED
  BY <1>5, <1>6, <1>7, <1>9, <1>10, <1>11, <1>12 DEF Growing

(* A result that answers a call is put behind it.                           *)
LEMMA GrowTool ==
    ASSUME NEW t, NEW inc, Increment(t, inc), NEW h \in Seq(Message),
           NEW k \in 1 .. Len(inc), NEW g, Growing(h, inc, k - 1, g),
           inc[k].role = "tool", inc[k].id \in Declared(g) \ Fulfilled(g), NEW u, u = g \o <<inc[k]>>
    PROVE  Growing(h, inc, k, u)
<1> DEFINE e == <<inc[k]>>
           L == Len(g) + 1
<1>1. /\ Len(inc) \in Nat /\ k \in Nat /\ (k - 1) + 1 = k
      /\ \A b \in 1 .. k - 1 : b \in 1 .. k
      /\ \A a \in 1 .. k : a \in 1 .. k - 1 \/ a = k
      /\ \A j \in k .. Len(inc) : j = k \/ j \in k + 1 .. Len(inc)
      /\ k \in 1 .. k /\ inc[k] \in Message /\ \A x \in 1 .. 1 : x = 1
  BY IncrementIs
<1>2. g \in Seq(Message) /\ Starts(h, g) /\ e \in Seq(Message) /\ Len(e) = 1 /\ e[1] = inc[k]
  BY <1>1 DEF Growing
<1>3. Extended(h, g, e, u) /\ Appended(g, e, u)
  BY <1>2, GrownBy, AppendedFacts
<1>4. /\ L \in NewIn(h, u) /\ L \in NewIn(g, u) /\ Len(u) = L /\ L \in Nat /\ Len(g) \in Nat /\ Len(h) \in Nat
      /\ \A i \in NewIn(g, u) : i = L 
      /\ \A i \in 1 .. Len(u) : i \in 1 .. Len(g) \/ i = L
      /\ \A i \in NewIn(h, u) : i \in NewIn(h, g) \/ i = L
  BY <1>2, <1>3 DEF Extended, NewIn
<1>5. u[L] = inc[k]
  <2>1. L - Len(g) = 1
    BY <1>4
  <2> QED
    BY <1>2, <1>3, <1>4, <2>1 DEF Extended
<1> HIDE DEF e, L
<1>6. Once(u)
  <2>1. ASSUME NEW x \in 1 .. Len(g), u[x].role = "tool" PROVE u[x].id # inc[k].id
    <3>1. u[x] = g[x]
      BY <1>3 DEF Appended
    <3>2. u[x].id \in Fulfilled(g)
      BY <1>2, <2>1, <3>1, WholeList DEF Gives
    <3> QED
      BY <3>2
  <2> SUFFICES ASSUME NEW i \in 1 .. Len(u), NEW j \in 1 .. Len(u),
                      u[i].role = "tool", u[j].role = "tool", u[i].id = u[j].id
               PROVE  i = j
    BY DEF Once
  <2>2. CASE i = L \/ j = L
    BY <1>4, <1>5, <2>1, <2>2
  <2>3. CASE i \in 1 .. Len(g) /\ j \in 1 .. Len(g)
    <3>1. u[i] = g[i] /\ u[j] = g[j]
      BY <1>3, <2>3 DEF Appended
    <3> QED
      BY <2>3, <3>1 DEF Growing, Once
  <2> QED
    BY <1>4, <2>2, <2>3
<1>7. ASSUME NEW i \in NewIn(h, u), u[i].role # "tool" PROVE \E b \in 1 .. k : u[i] = inc[b]
  <2>1. i \in NewIn(h, g) /\ u[i] = g[i]
    BY <1>3, <1>4, <1>5, <1>7 DEF Extended
  <2>2. PICK b \in 1 .. k - 1 : g[i] = inc[b]
    BY <1>7, <2>1 DEF Growing
  <2> QED
    BY <1>1, <2>1, <2>2
<1>8. ASSUME NEW a \in 1 .. k, inc[a].role = "assistant", ToolsOf(inc, a + 1, k) 
      PROVE  \E i \in NewIn(h, g) : g[i] = inc[a] /\ u[i] = inc[a] /\ ToolsOf(u, i + 1, Len(u))
  <2>1. a \in 1 .. k - 1 /\ ToolsOf(inc, a + 1, k - 1)
    BY <1>1, <1>8 DEF ToolsOf
  <2>2. PICK i \in NewIn(h, g) : g[i] = inc[a] /\ ToolsOf(g, i + 1, Len(g))
    BY <1>8, <2>1 DEF Growing
  <2>3. ToolsOf(u, Len(g) + 1, Len(u))
    BY <1>4, <1>5 DEF ToolsOf, L
  <2> QED
    BY <1>3, <2>2, <2>3 DEF Extended
<1>9. ASSUME NEW j \in NewIn(h, u), u[j].role = "tool" 
      PROVE  \E i \in Len(h) + 1 .. j - 1 : Declares(u, i, u[j].id) /\ ToolsOf(u, i + 1, j)
  <2>1. CASE j \in NewIn(h, g)
    BY <1>3, <1>9, <2>1, GrownBehind
  <2>2. CASE j = L
    <3>1. PICK a \in 1 .. k - 1 : Declares(inc, a, inc[k].id) /\ ToolsOf(inc, a + 1, k)
      BY IncrementIs
    <3>2. a \in 1 .. k /\ inc[a].role = "assistant"
      BY <1>1, <3>1 DEF Declares
    <3>3. PICK i \in NewIn(h, g) : u[i] = inc[a] /\ ToolsOf(u, i + 1, Len(u))
      BY <1>8, <3>1, <3>2
    <3>4. Declares(u, i, u[j].id)
      BY <1>5, <2>2, <3>1, <3>3 DEF Declares
    <3>5. i \in Len(h) + 1 .. j - 1
      BY <1>4, <2>2 DEF NewIn, L
    <3> QED
      BY <1>4, <2>2, <3>3, <3>4, <3>5
  <2> QED
    BY <1>4, <2>1, <2>2
<1>10. ASSUME NEW i \in NewIn(h, u), NEW c, Declares(u, i, c)
       PROVE  i \in NewIn(h, g) /\ Declares(g, i, c)
  <2>1. i # L
    BY <1>5, <1>10 DEF Declares
  <2> QED
    BY <1>3, <1>4, <1>10, <2>1 DEF Extended
<1>11. ASSUME NEW i \in NewIn(h, u), NEW c, Declares(u, i, c)
       PROVE  \/ \E j \in NewIn(h, u) : Gives(u, j, c)
              \/ /\ ToolsOf(u, i + 1, Len(u))
                 /\ \E j \in k + 1 .. Len(inc) : Gives(inc, j, c) /\ ToolsOf(inc, k + 1, j)
  <2>1. i \in NewIn(h, g) /\ Declares(g, i, c)
    BY <1>10, <1>11
  <2>2. \/ \E j \in NewIn(h, g) : Gives(g, j, c)
        \/ /\ ToolsOf(g, i + 1, Len(g))
           /\ \E j \in (k - 1) + 1 .. Len(inc) : Gives(inc, j, c) /\ ToolsOf(inc, (k - 1) + 1, j)
    BY <2>1 DEF Growing
  <2>3. CASE \E j \in NewIn(h, g) : Gives(g, j, c)
    BY <1>3, <2>3 DEF Extended
  <2>4. ASSUME ToolsOf(g, i + 1, Len(g)), NEW j \in k .. Len(inc), Gives(inc, j, c), ToolsOf(inc, k, j)
        PROVE  \/ Gives(u, L, c)
               \/ /\ ToolsOf(u, i + 1, Len(u))
                  /\ \E x \in k + 1 .. Len(inc) : Gives(inc, x, c) /\ ToolsOf(inc, k + 1, x)
    <3>1. CASE j = k
      BY <1>5, <2>4, <3>1 DEF Gives
    <3>2. CASE j \in k + 1 .. Len(inc)
      <4>1. ToolsOf(inc, k + 1, j)
        BY <1>1, <2>4, <3>2 DEF ToolsOf
      <4>2. ToolsOf(u, Len(g) + 1, Len(u))
        BY <1>4, <1>5 DEF ToolsOf, L
      <4>3. ToolsOf(u, i + 1, Len(u))
        BY <1>3, <2>1, <2>4, <4>2 DEF Extended
      <4> QED
        BY <2>4, <3>2, <4>1, <4>3
    <3> QED
      BY <1>1, <3>1, <3>2
  <2> QED
    BY <1>1, <1>4, <2>2, <2>3, <2>4
<1>12. \A i, j \in NewIn(h, u) : \A c : Declares(u, i, c) /\ Declares(u, j, c) => i = j
  BY <1>10 DEF Growing
<1>13. ASSUME NEW a \in 1 .. k, inc[a].role = "assistant", ToolsOf(inc, a + 1, k) 
       PROVE  \E i \in NewIn(h, u) : u[i] = inc[a] /\ ToolsOf(u, i + 1, Len(u))
  BY <1>3, <1>8, <1>13 DEF Extended
<1>14. u \in Seq(Message) /\ Starts(h, u)
  BY <1>3 DEF Extended
<1> QED
  BY <1>6, <1>7, <1>9, <1>11, <1>12, <1>13, <1>14 DEF Growing

(* An answer is put together with the results no run has left for it.       *)
Fills(p, calls, answered) == 
    /\ p \in Seq(Message)
    /\ \A j \in 1 .. Len(p) : p[j].role = "tool" /\ p[j].id \in ToSet(calls) \ answered
    /\ \A c \in ToSet(calls) \ answered : \E j \in 1 .. Len(p) : Gives(p, j, c)
    /\ Once(p)
Heads(e, m, p) == 
    /\ e \in Seq(Message) /\ Len(p) \in Nat /\ Len(e) = Len(p) + 1 /\ e[1] = m
    /\ \A x \in 2 .. Len(e) : x - 1 \in 1 .. Len(p) /\ e[x] = p[x - 1]

(* An answer is written with a placeholder for each call without a result. *)
LEMMA GrowAnswer ==
    ASSUME NEW t, NEW inc, Increment(t, inc), NEW h \in Seq(Message), NothingOf(t, h),
           NEW k \in 1 .. Len(inc), NEW g, Growing(h, inc, k - 1, g), inc[k].role = "assistant",
           NEW p, Fills(p, inc[k].calls, Fulfilled(g) \cup Fulfilled(inc)),
           NEW e, Heads(e, inc[k], p), NEW u, Extended(h, g, e, u), Appended(g, e, u)
    PROVE  Growing(h, inc, k, u)
<1> DEFINE answered == Fulfilled(g) \cup Fulfilled(inc)
           L == Len(g) + 1
<1>1. /\ Len(inc) \in Nat /\ k \in Nat /\ (k - 1) + 1 = k /\ k - 1 \in 0 .. Len(inc)
      /\ \A b \in 1 .. k - 1 : b \in 1 .. k /\ b \in 1 .. Len(inc) /\ b # k
      /\ \A j \in k .. Len(inc) : k \in k .. j
      /\ k \in 1 .. k /\ inc[k] \in Message
      /\ \A a \in 1 .. k : a # k => k \in a + 1 .. k
  BY IncrementIs
<1>2. g \in Seq(Message) /\ Starts(h, g) /\ Len(g) \in Nat /\ Len(h) \in Nat
  BY DEF Growing, Starts
<1>3. Fills(p, inc[k].calls, answered) /\ p \in Seq(Message) /\ Once(p)
  BY DEF Fills
<1>4. Heads(e, inc[k], p) /\ Len(p) \in Nat /\ Len(e) = Len(p) + 1 /\ e[1] = inc[k]
  BY DEF Heads
<1>5. Extended(h, g, e, u) /\ Appended(g, e, u)
  OBVIOUS
<1>20. L \in Nat /\ L > Len(g) /\ Len(u) \in Nat /\ Len(u) = L + Len(p) /\ Len(p) \in Nat
  BY <1>2, <1>4, <1>5 DEF Extended
<1>21. Len(h) <= Len(g)
  BY <1>2 DEF Starts
<1>6. /\ L \in NewIn(h, u) /\ L \in NewIn(g, u)
      /\ \A i \in NewIn(h, u) : i \in NewIn(h, g) \/ i = L \/ i \in L + 1 .. Len(u)
      /\ \A i \in 1 .. Len(u) : i \in 1 .. Len(g) \/ i = L \/ i \in L + 1 .. Len(u)
      /\ \A i \in L + 1 .. Len(u) : i \in NewIn(g, u)
      /\ \A i \in NewIn(h, g) : i < L
  <2>1. L = Len(g) + 1
    OBVIOUS
  <2> HIDE DEF L
  <2>2. L \in NewIn(h, u) /\ L \in NewIn(g, u)
    BY <1>2, <1>20, <1>21, <2>1 DEF NewIn
  <2>3. ASSUME NEW i \in NewIn(h, u) PROVE i \in NewIn(h, g) \/ i = L \/ i \in L + 1 .. Len(u)
    BY <1>2, <1>20, <1>21, <2>1 DEF NewIn
  <2>4. ASSUME NEW i \in 1 .. Len(u) PROVE i \in 1 .. Len(g) \/ i = L \/ i \in L + 1 .. Len(u)
    BY <1>2, <1>20, <1>21, <2>1
  <2>5. ASSUME NEW i \in L + 1 .. Len(u) PROVE i \in NewIn(g, u)
    BY <1>2, <1>20, <1>21, <2>1 DEF NewIn
  <2>6. ASSUME NEW i \in NewIn(h, g) PROVE i < L
    BY <1>2, <1>20, <1>21, <2>1 DEF NewIn
  <2> QED
    BY <2>2, <2>3, <2>4, <2>5, <2>6
<1>7. u[L] = inc[k]
  <2>1. L - Len(g) = 1
    BY <1>2
  <2> QED
    BY <1>4, <1>5, <1>6, <2>1 DEF Extended
<1>8. ASSUME NEW i \in L + 1 .. Len(u)
      PROVE  /\ i - L \in 1 .. Len(p) /\ u[i] = p[i - L] /\ u[i].role = "tool"
             /\ u[i].id \in ToSet(inc[k].calls) /\ u[i].id \notin answered
  <2>1. i - Len(g) \in 2 .. Len(e) /\ (i - Len(g)) - 1 = i - L
    BY <1>2, <1>4, <1>20
  <2>2. u[i] = e[i - Len(g)]
    BY <1>5, <1>6 DEF Extended
  <2>3. i - L \in 1 .. Len(p) /\ u[i] = p[i - L]
    BY <2>1, <2>2 DEF Heads
  <2> QED
    BY <2>3 DEF Fills
<1>9. ASSUME NEW c \in ToSet(inc[k].calls) \ answered PROVE \E j \in NewIn(h, u) : Gives(u, j, c)
  <2>1. PICK j \in 1 .. Len(p) : Gives(p, j, c)
    BY DEF Fills
  <2>2. L + j \in L + 1 .. Len(u) /\ (L + j) - L = j
    BY <1>20
  <2>3. Gives(u, L + j, c) /\ L + j \in NewIn(h, u)
    BY <1>5, <1>6, <1>8, <2>1, <2>2 DEF Gives, Extended
  <2> QED
    BY <2>3
<1> HIDE DEF L
<1>10. Once(u)
  <2>1. ASSUME NEW x \in 1 .. Len(g), u[x].role = "tool", NEW y \in L + 1 .. Len(u) PROVE u[x].id # u[y].id
    <3>1. u[x] = g[x]
      BY <1>5 DEF Appended
    <3>2. u[x].id \in Fulfilled(g)
      BY <1>2, <2>1, <3>1, WholeList DEF Gives
    <3> QED
      BY <1>8, <3>2 
  <2> SUFFICES ASSUME NEW i \in 1 .. Len(u), NEW j \in 1 .. Len(u),
                      u[i].role = "tool", u[j].role = "tool", u[i].id = u[j].id
               PROVE  i = j
    BY DEF Once
  <2>2. i # L /\ j # L
    BY <1>7
  <2>3. CASE i \in 1 .. Len(g) /\ j \in 1 .. Len(g)
    <3>1. u[i] = g[i] /\ u[j] = g[j]
      BY <1>5, <2>3 DEF Appended
    <3> QED
      BY <2>3, <3>1 DEF Growing, Once
  <2>4. CASE i \in L + 1 .. Len(u) /\ j \in L + 1 .. Len(u)
    <3>1. i - L = j - L
      BY <1>3, <1>8, <2>4 DEF Once
    <3> QED
      BY <1>20, <2>4, <3>1
  <2> QED
    BY <1>6, <2>1, <2>2, <2>3, <2>4
<1>11. ASSUME NEW i \in NewIn(h, u), u[i].role # "tool" PROVE \E b \in 1 .. k : u[i] = inc[b]
  <2>1. CASE i \in NewIn(h, g)
    <3>1. u[i] = g[i]
      BY <1>5, <2>1 DEF Extended
    <3>2. PICK b \in 1 .. k - 1 : g[i] = inc[b]
      BY <1>11, <2>1, <3>1 DEF Growing
    <3> QED
      BY <1>1, <3>1, <3>2
  <2>2. CASE i = L
    BY <1>1, <1>7, <2>2
  <2> QED
    BY <1>6, <1>8, <1>11, <2>1, <2>2
<1>12. ASSUME NEW j \in NewIn(h, u), u[j].role = "tool" 
       PROVE  \E i \in Len(h) + 1 .. j - 1 : Declares(u, i, u[j].id) /\ ToolsOf(u, i + 1, j)
  <2>1. CASE j \in NewIn(h, g)
    BY <1>5, <1>12, <2>1, GrownBehind
  <2>2. CASE j \in L + 1 .. Len(u)
    <3>1. Declares(u, L, u[j].id)
      BY <1>7, <1>8, <2>2 DEF Declares
    <3>2. ToolsOf(u, L + 1, j)
      <4>1. \A q \in L + 1 .. j : q \in L + 1 .. Len(u)
        BY <1>20, <2>2
      <4> QED
        BY <1>8, <4>1 DEF ToolsOf
    <3>3. L \in Len(h) + 1 .. j - 1
      BY <1>2, <1>20, <1>21, <2>2
    <3> QED
      BY <3>1, <3>2, <3>3
  <2>3. j # L
    BY <1>7, <1>12
  <2> QED
    BY <1>6, <2>1, <2>2, <2>3
<1>13. ASSUME NEW i \in NewIn(h, u), NEW c, Declares(u, i, c)
       PROVE  \/ i \in NewIn(h, g) /\ Declares(g, i, c) /\ c \notin ToSet(inc[k].calls)
              \/ i = L /\ c \in ToSet(inc[k].calls)
  <2>1. CASE i \in NewIn(h, g)
    <3>1. Declares(g, i, c)
      BY <1>5, <1>13, <2>1 DEF Extended
    <3>2. PICK b \in 1 .. k - 1 : Declares(inc, b, c)
      BY <1>1, <2>1, <3>1, OwnCalls
    <3>3. c \notin ToSet(inc[k].calls)
      BY <1>1, <3>2, IncrementIs DEF Declares
    <3> QED
      BY <2>1, <3>1, <3>3
  <2>2. CASE i = L
    BY <1>7, <1>13, <2>2 DEF Declares
  <2>3. i \notin L + 1 .. Len(u)
    BY <1>8, <1>13 DEF Declares
  <2> QED
    BY <1>6, <2>1, <2>2, <2>3
<1>14. ASSUME NEW i \in NewIn(h, u), NEW j \in NewIn(h, u), NEW c, Declares(u, i, c), Declares(u, j, c)
       PROVE  i = j
  <2>1. CASE i \in NewIn(h, g) /\ j \in NewIn(h, g)
    BY <1>5, <1>14, <2>1 DEF Extended, Growing
  <2>2. ASSUME NEW x \in NewIn(h, u), Declares(u, x, c)
        PROVE  \/ x \in NewIn(h, g) /\ c \notin ToSet(inc[k].calls) 
               \/ x = L /\ c \in ToSet(inc[k].calls)
    BY <1>13, <2>2
  <2> QED
    BY <1>14, <2>1, <2>2
<1>15. ASSUME NEW i \in NewIn(h, u), NEW c, Declares(u, i, c)
       PROVE  \/ \E j \in NewIn(h, u) : Gives(u, j, c)
              \/ /\ ToolsOf(u, i + 1, Len(u))
                 /\ \E j \in k + 1 .. Len(inc) : Gives(inc, j, c) /\ ToolsOf(inc, k + 1, j)
  <2>1. CASE i \in NewIn(h, g) /\ Declares(g, i, c)
    <3>1. \/ \E j \in NewIn(h, g) : Gives(g, j, c)
          \/ /\ ToolsOf(g, i + 1, Len(g))
             /\ \E j \in (k - 1) + 1 .. Len(inc) : Gives(inc, j, c) /\ ToolsOf(inc, (k - 1) + 1, j)
      BY <2>1 DEF Growing
    <3>2. ~ \E j \in k .. Len(inc) : ToolsOf(inc, k, j)
      BY <1>1 DEF ToolsOf
    <3>3. \E j \in NewIn(h, g) : Gives(g, j, c)
      BY <1>1, <3>1, <3>2
    <3> QED
      BY <1>5, <3>3 DEF Extended
  <2>2. CASE i = L /\ c \in ToSet(inc[k].calls)
    <3>1. CASE c \notin answered
      BY <1>9, <2>2, <3>1
    <3>2. CASE c \in Fulfilled(g)
      <4>1. c \in {t} \X Nat
        BY <2>2, IncrementIs DEF Declares
      <4>2. \E j \in NewIn(h, g) : Gives(g, j, c)
        BY <1>1, <3>2, <4>1, OwnCalls
      <4> QED
        BY <1>5, <4>2 DEF Extended
    <3>3. CASE c \in Fulfilled(inc)
      <4>1. PICK j \in 1 .. Len(inc) : Gives(inc, j, c)
        BY <3>3, IncrementIs, WholeList
      <4>2. PICK a \in 1 .. j - 1 : Declares(inc, a, c) /\ ToolsOf(inc, a + 1, j)
        BY <4>1, IncrementIs DEF Gives
      <4>3. a = k
        <5>1. a \in 1 .. Len(inc) /\ Declares(inc, k, c)
          BY <1>1, <2>2, <4>1, <4>2 DEF Declares
        <5> QED
          BY <4>2, <5>1, IncrementIs
      <4>4. j \in k + 1 .. Len(inc)
        BY <1>1, <4>1, <4>2, <4>3
      <4>5. ToolsOf(u, i + 1, Len(u))
        BY <1>8, <2>2 DEF ToolsOf
      <4> QED
        BY <4>1, <4>2, <4>3, <4>4, <4>5
    <3> QED
      BY <3>1, <3>2, <3>3
  <2> QED
    BY <1>13, <1>15, <2>1, <2>2
<1>16. ASSUME NEW a \in 1 .. k, inc[a].role = "assistant", ToolsOf(inc, a + 1, k) 
       PROVE  \E i \in NewIn(h, u) : u[i] = inc[a] /\ ToolsOf(u, i + 1, Len(u))
  <2>1. a = k
    BY <1>1, <1>16 DEF ToolsOf
  <2>2. ToolsOf(u, L + 1, Len(u))
    BY <1>8 DEF ToolsOf
  <2> QED
    BY <1>6, <1>7, <2>1, <2>2
<1>17. u \in Seq(Message) /\ Starts(h, u)
  BY <1>5 DEF Extended
<1> QED
  BY <1>10, <1>11, <1>12, <1>14, <1>15, <1>16, <1>17 DEF Growing

(* What SAVE writes has this form after every message of the increment.     *)
LEMMA PersistGrows ==
    ASSUME NEW t, NEW inc, Increment(t, inc), NEW h \in Seq(Message), Once(h), NothingOf(t, h)
    PROVE  Growing(h, inc, Len(inc), Persist(h, inc))
<1>1. inc \in Seq(Message) /\ Len(inc) \in Nat
  BY IncrementIs
<1>2. PICK r \in [0 .. Len(inc) -> Seq(Message)] :
         /\ r[0] = h /\ Persist(h, inc) = r[Len(inc)]
         /\ \A k \in 1 .. Len(inc) : r[k] = r[k - 1] \o Entry(r[k - 1], inc[k], inc)
  BY <1>1, PersistRuns
<1> DEFINE K == {k \in 0 .. Len(inc) : Growing(h, inc, k, r[k])}
<1>3. 0 \in K
  <2>1. Len(h) \in Nat /\ NewIn(h, h) = {} /\ Starts(h, h) /\ 1 .. 0 = {}
    BY DEF NewIn, Starts
  <2>2. Growing(h, inc, 0, h)
    BY <2>1 DEF Growing
  <2> QED
    BY <1>1, <1>2, <2>2
<1>4. ASSUME NEW k \in 1 .. Len(inc), k - 1 \in K PROVE k \in K
  <2> DEFINE g == r[k - 1]
             u == r[k]
             m == inc[k]
  <2>1. k \in 0 .. Len(inc) /\ k - 1 \in 0 .. Len(inc) /\ Growing(h, inc, k - 1, g)
    BY <1>1, <1>4
  <2>2. u = g \o Entry(g, m, inc) /\ g \in Seq(Message)
    BY <1>2, <2>1
  <2>3. m \in Message /\ m.role \in {"user", "assistant", "tool"}
    BY IncrementIs
  <2> HIDE DEF g, u
  <2>4. CASE m.role = "user"
    <3>1. Entry(g, m, inc) = <<m>>
      BY <2>4 DEF Entry
    <3> QED
      BY <2>1, <2>2, <2>4, <3>1, GrowPlain DEF u
  <2>5. CASE m.role = "tool"
    <3>1. CASE m.id \in Declared(g) \ Fulfilled(g)
      <4>1. Entry(g, m, inc) = <<m>>
        BY <2>5, <3>1 DEF Entry
      <4> QED
        BY <2>1, <2>2, <2>5, <3>1, <4>1, GrowTool DEF u
    <3>2. CASE m.id \notin Declared(g) \ Fulfilled(g)
      <4>1. Entry(g, m, inc) = <<>>
        BY <2>5, <3>2 DEF Entry
      <4>2. u = g
        BY <2>2, <4>1
      <4> QED
        BY <2>1, <2>5, <3>2, <4>2, GrowDrop DEF u
    <3> QED
      BY <3>1, <3>2
  <2>6. CASE m.role = "assistant"
    <3> DEFINE answered == Fulfilled(g) \cup Fulfilled(inc)
               calls == m.calls
               p == Placeholders(calls, answered)
               e == <<m>> \o p
    <3>1. Entry(g, m, inc) = e
      BY <2>6 DEF Entry
    <3>2. calls \in Seq(CallId) /\ IsInjective(calls)
      BY <1>1, <2>6, IncrementIs, CallsAreList
    <3> HIDE DEF answered, calls
    <3>3. Fills(p, calls, answered)
      <4>1. p = Placeholders(calls, answered)
        OBVIOUS
      <4> HIDE DEF p
      <4> QED
        BY <3>2, <4>1, PlaceholdersAre DEF Fills
    <3>4. p \in Seq(Message)
      BY <3>3 DEF Fills
    <3> HIDE DEF p
    <3>5. Heads(e, m, p)
      <4>1. e \in Seq(Message) /\ Len(p) \in Nat /\ Len(e) = Len(p) + 1 /\ e[1] = m
        BY <2>3, <3>4
      <4>2. ASSUME NEW x \in 2 .. Len(e) PROVE x - 1 \in 1 .. Len(p) /\ e[x] = p[x - 1]
        BY <2>3, <3>4, <4>1
      <4> QED
        BY <4>1, <4>2 DEF Heads
    <3>6. e \in Seq(Message) /\ u = g \o e
      BY <2>2, <3>1, <3>5 DEF Heads
    <3> HIDE DEF e, m
    <3>7. Extended(h, g, e, u) /\ Appended(g, e, u)
      <4>1. Starts(h, g)
        BY <2>1 DEF Growing
      <4> QED
        BY <2>2, <3>6, <4>1, GrownBy, AppendedFacts
    <3>8. Growing(h, inc, k, u)
      BY <2>1, <2>6, <3>3, <3>5, <3>7, GrowAnswer DEF m, calls, answered
    <3> QED
      BY <2>1, <3>8 DEF u
  <2> QED
    BY <2>3, <2>4, <2>5, <2>6
<1>5. Len(inc) \in K
  <2> HIDE DEF K
  <2>1. 0 .. Len(inc) \subseteq K
    BY <1>1, <1>3, <1>4, CountingTo
  <2> QED
    BY <1>1, <2>1
<1> QED
  BY <1>2, <1>5

(* The results behind an answer are as many as its calls.                   *)
LEMMA AsManyResults ==
    ASSUME NEW calls \in Seq(CallId), IsInjective(calls), NEW n \in Nat,
           NEW F \in [1 .. n -> ToSet(calls)], IsInjective(F), 
           \A c \in ToSet(calls) : \E x \in 1 .. n : F[x] = c
    PROVE  Len(calls) = n
<1> DEFINE S == ToSet(calls)
<1>1. Len(calls) \in Nat /\ DOMAIN calls = 1 .. Len(calls) /\ calls \in [1 .. Len(calls) -> S]
  BY DEF ToSet
<1>2. calls \in Bijection(1 .. Len(calls), S)
  BY <1>1 DEF Bijection, Injection, Surjection, ToSet
<1> HIDE DEF S
<1>3. F \in Bijection(1 .. n, S)
  BY DEF Bijection, Injection, Surjection, S
<1>4. Cardinality(S) = Len(calls)
  BY <1>1, <1>2, FS_CountingElements DEF ExistsBijection
<1>5. Cardinality(S) = n
  BY <1>3, FS_CountingElements DEF ExistsBijection
<1> QED
  BY <1>4, <1>5

(* In the end an answer stands before exactly its results: they are behind  *)
(* it without a gap, and no call has two.                                  *)
LEMMA AnswersAreFull ==
    ASSUME NEW t, NEW inc, Increment(t, inc), NEW h \in Seq(Message), NothingOf(t, h),
           NEW g, Growing(h, inc, Len(inc), g), NEW i \in NewIn(h, g), g[i].role = "assistant"
    PROVE  Full(g, i)
<1> DEFINE calls == g[i].calls
           Mine(j) == j \in i + 1 .. Len(g) /\ g[j].role = "tool" /\ g[j].id \in ToSet(calls) /\ ToolsOf(g, i + 1, j)
           P == {j \in 1 .. Len(g) : Mine(j)}
           M == IF P = {} THEN i ELSE Max(P)
           n == M - i
<1>1. /\ Len(inc) \in Nat /\ Len(g) \in Nat /\ Len(h) \in Nat
      /\ \A j \in NewIn(h, g) : j \in 1 .. Len(g) /\ j \in Nat
  BY IncrementIs, OwnCalls
<1>2. g \in Seq(Message) /\ i \in 1 .. Len(g) /\ i \in Nat
  BY <1>1 DEF Growing
<1>3. calls \in Seq(CallId) /\ IsInjective(calls) /\ Len(calls) \in Nat
  <2>1. PICK b \in 1 .. Len(inc) : g[i] = inc[b]
    BY DEF Growing
  <2> QED
    BY <1>2, <2>1, IncrementIs, CallsAreList
<1>4. ASSUME NEW j \in NewIn(h, g), g[j].role = "tool", j > i, ToolsOf(g, i + 1, j) PROVE Mine(j)
  <2>1. PICK a \in Len(h) + 1 .. j - 1 : Declares(g, a, g[j].id) /\ ToolsOf(g, a + 1, j)
    BY <1>4 DEF Growing
  <2>2. a \in Nat /\ j \in Nat /\ j \in i + 1 .. Len(g)
    BY <1>1, <1>2, <1>4, <2>1
  <2>3. ~(a < i)
    <3>1. a < i => i \in a + 1 .. j
      BY <1>2, <1>4, <2>2
    <3> QED
      BY <2>1, <3>1 DEF ToolsOf
  <2>4. ~(i < a)
    <3>1. i < a => a \in i + 1 .. j
      BY <1>2, <2>1, <2>2
    <3> QED
      BY <1>4, <2>1, <3>1 DEF ToolsOf, Declares
  <2>5. a = i
    BY <1>2, <2>2, <2>3, <2>4
  <2> QED
    BY <1>4, <2>1, <2>2, <2>5 DEF Declares
<1>5. ASSUME NEW c \in ToSet(calls) PROVE \E j \in 1 .. Len(g) : Mine(j) /\ g[j].id = c
  <2>1. Declares(g, i, c)
    BY DEF Declares
  <2>2. PICK j \in NewIn(h, g) : Gives(g, j, c)
    <3>1. Len(inc) + 1 .. Len(inc) = {}
      BY <1>1
    <3> QED
      BY <2>1, <3>1 DEF Growing
  <2>3. PICK a \in Len(h) + 1 .. j - 1 : Declares(g, a, c) /\ ToolsOf(g, a + 1, j)
    BY <2>2 DEF Growing, Gives
  <2>4. a \in NewIn(h, g) /\ j \in 1 .. Len(g) /\ j > a
    BY <1>1, <2>3 DEF NewIn
  <2>5. a = i
    BY <2>1, <2>3, <2>4 DEF Growing
  <2> QED
    BY <1>4, <2>2, <2>3, <2>4, <2>5 DEF Gives
<1> HIDE DEF calls
<1>6. ASSUME NEW j \in P, NEW q \in i + 1 .. j PROVE q \in P
  <2>1. q \in NewIn(h, g) /\ q > i /\ q \in 1 .. Len(g)
    BY <1>1, <1>2 DEF NewIn
  <2>2. g[q].role = "tool" /\ ToolsOf(g, i + 1, q)
    <3>1. \A x \in i + 1 .. q : x \in i + 1 .. j
      BY <1>2
    <3>2. ToolsOf(g, i + 1, j)
      OBVIOUS
    <3> QED
      BY <3>1, <3>2 DEF ToolsOf
  <2> HIDE DEF Mine
  <2> QED
    BY <1>4, <2>1, <2>2
<1>7. /\ M \in i .. Len(g) /\ \A j \in P : j \in i + 1 .. M
      /\ \A q \in i + 1 .. M : q \in P
  <2>1. \A j \in P : j \in i + 1 .. Len(g)
    OBVIOUS
  <2>2. P \in SUBSET (1 .. Len(g))
    OBVIOUS
  <2> HIDE DEF P
  <2>3. CASE P = {}
    BY <1>2, <2>3
  <2>4. CASE P # {}
    <3>1. Max(P) \in P /\ \A j \in P : Max(P) >= j
      BY <1>1, <2>2, <2>4, LargestIn
    <3>2. M = Max(P)
      BY <2>4
    <3> HIDE DEF M
    <3>3. M \in i + 1 .. Len(g) /\ \A j \in P : j \in i + 1 .. Len(g) /\ j <= M
      BY <1>2, <2>1, <3>1, <3>2
    <3>4. \A q \in i + 1 .. M : q \in P
      BY <1>6, <3>1, <3>2
    <3> QED
      BY <1>1, <1>2, <3>3, <3>4
  <2> QED
    BY <2>3, <2>4
<1> HIDE DEF M
<1>8. n \in Nat /\ i + n = M /\ i + n <= Len(g)
  BY <1>1, <1>2, <1>7
<1> HIDE DEF n
<1>9. ASSUME NEW q \in i + 1 .. i + n PROVE q \in 1 .. Len(g) /\ g[q].role = "tool" /\ g[q].id \in ToSet(calls)
  BY <1>7, <1>8
<1>10. ASSUME NEW c \in ToSet(calls) PROVE \E q \in i + 1 .. i + n : Gives(g, q, c)
  <2>1. PICK q \in 1 .. Len(g) : Mine(q) /\ g[q].id = c
    BY <1>5
  <2>2. q \in P /\ g[q].role = "tool"
    BY <2>1
  <2> QED
    BY <1>7, <1>8, <2>1, <2>2 DEF Gives
<1> HIDE DEF P
<1>11. Len(calls) = n
  <2> DEFINE F == [x \in 1 .. n |-> g[i + x].id]
  <2>1. ASSUME NEW x \in 1 .. n PROVE i + x \in i + 1 .. i + n /\ F[x] = g[i + x].id
    BY <1>2, <1>8
  <2>2. F \in [1 .. n -> ToSet(calls)]
    BY <1>9, <2>1
  <2>3. ASSUME NEW c \in ToSet(calls) PROVE \E x \in 1 .. n : F[x] = c
    <3>1. PICK q \in i + 1 .. i + n : Gives(g, q, c)
      BY <1>10
    <3>2. q - i \in 1 .. n /\ i + (q - i) = q
      BY <1>2, <1>8
    <3> QED
      BY <3>1, <3>2 DEF Gives
  <2>4. ASSUME NEW x \in 1 .. n, NEW y \in 1 .. n, F[x] = F[y] PROVE x = y
    <3>1. i + x = i + y
      BY <1>9, <2>1, <2>4 DEF Growing, Once
    <3> QED
      BY <1>2, <3>1
  <2>5. IsInjective(F)
    BY <2>4 DEF IsInjective
  <2> HIDE DEF F
  <2> QED
    BY <1>3, <1>8, <2>2, <2>3, <2>5, AsManyResults
<1> QED
  BY <1>8, <1>9, <1>10, <1>11 DEF Full, calls

(* SAVE keeps a list whole, as it was, and adds messages of the turn alone. *)
LEMMA PersistWhole ==
    ASSUME NEW t, NEW inc, Increment(t, inc), NEW h \in Seq(Message), Whole(h), NothingOf(t, h),
           NEW g, g = Persist(h, inc)
    PROVE  /\ g \in Seq(Message) /\ Starts(h, g) /\ Whole(g)
           /\ \A i \in NewIn(h, g) : 
                \/ g[i].role = "tool" /\ g[i].id \in {t} \X Nat
                \/ \E b \in 1 .. Len(inc) : g[i] = inc[b]
<1>1. Growing(h, inc, Len(inc), g)
  BY PersistGrows DEF Whole
<1>2. g \in Seq(Message) /\ Starts(h, g) /\ Once(g)
  BY <1>1 DEF Growing
<1>3. /\ Len(h) \in Nat /\ Len(g) \in Nat /\ Len(inc) \in 0 .. Len(inc)
      /\ \A i \in 1 .. Len(g) : i \in 1 .. Len(h) \/ i \in NewIn(h, g)
  BY <1>2, IncrementIs DEF NewIn
<1>4. ASSUME NEW i \in 1 .. Len(g), g[i].role = "assistant" PROVE Full(g, i)
  <2>1. CASE i \in 1 .. Len(h)
    <3>1. h[i] = g[i]
      BY <1>2, <2>1, GrownFacts, MessagesTalk
    <3> QED
      BY <1>2, <1>4, <2>1, <3>1, GrownFacts, MessagesTalk DEF Whole, AllFull
  <2>2. CASE i \in NewIn(h, g)
    BY <1>1, <1>4, <2>2, AnswersAreFull
  <2> QED
    BY <1>3, <2>1, <2>2
<1>5. ASSUME NEW i \in NewIn(h, g), g[i].role = "tool" 
      PROVE  Known(g, i) /\ g[i].id \in {t} \X Nat
  <2>1. PICK a \in Len(h) + 1 .. i - 1 : Declares(g, a, g[i].id)
    BY <1>1, <1>5 DEF Growing
  <2>2. a \in NewIn(h, g) /\ a \in 1 .. i - 1
    BY <1>3, <2>1 DEF NewIn
  <2>3. g[i].id \in {t} \X Nat
    BY <1>1, <1>3, <2>1, <2>2, OwnCalls
  <2> QED
    BY <2>1, <2>2, <2>3 DEF Known
<1>6. ASSUME NEW i \in 1 .. Len(g), g[i].role = "tool" PROVE Known(g, i) \/ Bare(g, i)
  <2>1. CASE i \in 1 .. Len(h)
    <3>1. h[i] = g[i]
      BY <1>2, <2>1, GrownFacts, MessagesTalk
    <3> QED
      BY <1>2, <1>6, <2>1, <3>1, GrownFacts, MessagesTalk DEF Whole
  <2> QED
    BY <1>3, <1>5, <1>6, <2>1
<1>7. \A i \in NewIn(h, g) : g[i].role # "tool" => \E b \in 1 .. Len(inc) : g[i] = inc[b]
  BY <1>1 DEF Growing
<1> QED
  BY <1>2, <1>4, <1>5, <1>6, <1>7 DEF Whole, AllFull

-----------------------------------------------------------------------------
(* The inductive invariant.  D holds the turns that have reached SAVE.      *)
Done == {t \in Turn : step[t] \in {"saving", "over"}}

(* A message stands where it belongs: a summary in a chat, the others in    *)
(* the session of their turn, and those of a run not before SAVE.           *)
Placed(s, m, D) == 
    /\ m.role = "system" => s \in Chat
    /\ m.role = "user" => m.text \in Result \/ SidOf(m.text) = s
    /\ m.role = "assistant" => 
         SidOf(m.text) = s /\ m.text \in D /\ ToSet(m.calls) \subseteq {m.text} \X Nat
    /\ m.role = "tool" => SidOf(m.id[1]) = s /\ m.id[1] \in D

Sound(s, h, D) == h \in Seq(Message) /\ Whole(h) /\ \A m \in ToSet(h) : Placed(s, m, D)

TypeInv == 
    /\ step \in [Turn -> Steps] /\ active \in Turn \cup {None}
    /\ cache \in [Sid -> Seq(Message) \cup {None}] /\ disk \in [Sid -> Seq(Message) \cup {None}]
    /\ archive \in [Chat -> Seq(0 .. MaxArchives - 1)]
    /\ results \in Seq(Result)
    /\ held \in [Turn -> Seq(Message)] /\ window \in [Turn -> Seq(Message)]
    /\ summary \in [Chat -> 0 .. MaxArchives - 1 \cup {None}]
    /\ before \subseteq Turn /\ alone \in BOOLEAN
    /\ blank \subseteq Trigger /\ crashes \in 0 .. MaxCrashes
    /\ \A t, u \in Locked : t = u

FilesSound == 
    \A s \in Sid : /\ cache[s] # None => Sound(s, cache[s], Done)
                   /\ disk[s] # None => Sound(s, disk[s], Done)
ShownSound == 
    \A t \in Turn : /\ Sound(SidOf(t), held[t], Done) /\ Legal(held[t])
                    /\ Sound(SidOf(t), window[t], Done) /\ Legal(window[t])

(* Of the turns that /new has met, whose messages never overlapped, nothing *)
(* is left to run, and nothing is stored.                                   *)
CleanOf(c, h, B) == \A m \in ToSet(h) : m.role = "system" \/ Speaker(m) \notin {t \in B : chat[t] = c}
AloneClean == 
    alone => /\ Live \subseteq {active} /\ \A t \in before : step[t] = "over"
             /\ \A c \in Chat : /\ cache[c] # None => CleanOf(c, cache[c], before)
                                /\ disk[c] # None => CleanOf(c, disk[c], before)

IInv == TypeInv /\ FilesSound /\ ShownSound /\ DiskHasAll /\ AloneClean

(* The cuts keep a list sound, and what is newest in it.                    *)
LEMMA SoundTail ==
    ASSUME NEW s, NEW D, NEW h, Sound(s, h, D), NEW k \in 0 .. Len(h), NEW t \in Seq(Message), Shows(h, k, t)
    PROVE  /\ Sound(s, t, D) /\ ToSet(t) \subseteq ToSet(h)
           /\ k < Len(h) => t # <<>> /\ Last(t) = Last(h) /\ Last(h) \in ToSet(t)
<1>1. h \in Seq(Message) /\ Whole(h) /\ \A m \in ToSet(h) : Placed(s, m, D)
  BY DEF Sound
<1>2. /\ Len(t) = Len(h) - k /\ Len(h) \in Nat /\ k \in Nat /\ DOMAIN t = 1 .. Len(t) /\ DOMAIN h = 1 .. Len(h)
      /\ \A j \in 1 .. Len(t) : t[j] = h[k + j]
  BY <1>1 DEF Shows
<1>3. ToSet(t) \subseteq ToSet(h)
  <2>1. \A j \in 1 .. Len(t) : k + j \in 1 .. Len(h)
    BY <1>2
  <2> QED
    BY <1>2, <2>1 DEF ToSet
<1>4. Whole(t)
  BY <1>1, CutTail, MessagesTalk
<1>5. ASSUME k < Len(h) PROVE t # <<>> /\ Last(t) = Last(h) /\ Last(h) \in ToSet(t)
  <2>1. Len(t) \in 1 .. Len(t) /\ k + Len(t) = Len(h)
    BY <1>2, <1>5
  <2>2. t[Len(t)] = h[Len(h)]
    BY <1>2, <2>1
  <2>3. t # <<>>
    BY <2>1
  <2> QED
    BY <1>2, <2>1, <2>2, <2>3 DEF Last, ToSet
<1> QED
  BY <1>1, <1>3, <1>4, <1>5 DEF Sound

(* The cuts and repairs of the code leave a sound list sound.              *)
LEMMA SoundLastN ==
    ASSUME NEW s, NEW D, NEW h, Sound(s, h, D), NEW n \in Nat \ {0}, NEW t, t = LastN(h, n)
    PROVE  /\ Sound(s, t, D) /\ ToSet(t) \subseteq ToSet(h)
           /\ h # <<>> => t # <<>> /\ Last(t) = Last(h) /\ Last(h) \in ToSet(t)
<1>1. h \in Seq(Message) /\ Len(h) \in Nat /\ DOMAIN h = 1 .. Len(h)
  BY DEF Sound
<1>2. CASE Len(h) > n
  <2> DEFINE k == Len(h) - n
  <2>1. k \in 0 .. Len(h) /\ k < Len(h) /\ t = SubSeq(h, k + 1, Len(h))
    BY <1>1, <1>2 DEF LastN, From
  <2> HIDE DEF k
  <2>2. t \in Seq(Message) /\ Shows(h, k, t)
    BY <1>1, <2>1, TailIs
  <2> QED
    BY <2>1, <2>2, SoundTail
<1>3. CASE ~(Len(h) > n)
  <2>1. t = h
    BY <1>3 DEF LastN
  <2>2. h # <<>> => Len(h) \in 1 .. Len(h)
    BY <1>1
  <2> QED
    BY <1>1, <2>1, <2>2 DEF Last, ToSet
<1> QED
  BY <1>2, <1>3

LEMMA SoundDropHead ==
    ASSUME NEW s, NEW D, NEW h, Sound(s, h, D), NEW t, t = DropHead(h)
    PROVE  /\ Sound(s, t, D) /\ Legal(t) /\ ToSet(t) \subseteq ToSet(h)
           /\ h # <<>> /\ Last(h).role # "tool" => Last(h) \in ToSet(t)
<1> DEFINE k == LegalStart(h)
<1>1. h \in Seq(Message) /\ Whole(h) /\ Len(h) \in Nat
  BY DEF Sound
<1>2. t \in Seq(Message) /\ k \in 0 .. Len(h) /\ Shows(h, k, t) /\ Legal(t)
  BY <1>1, DropHeadLegal, MessagesTalk
<1>3. k # 0 => h[k].role = "tool"
  BY <1>1, LegalStartStops
<1> HIDE DEF k
<1>4. h # <<>> /\ Last(h).role # "tool" => k < Len(h)
  BY <1>1, <1>2, <1>3 DEF Last
<1> QED
  BY <1>2, <1>4, SoundTail

(* What is sound stays so when messages are put behind it ...              *)
UsersOf(s, e) == 
    /\ e \in Seq(Message)
    /\ \A i \in 1 .. Len(e) : e[i].role = "user" /\ (e[i].text \in Result \/ SidOf(e[i].text) = s)
Joined(s, h, e, D, g) == 
    /\ Sound(s, g, D) /\ (Legal(h) => Legal(g))
    /\ ToSet(g) = ToSet(h) \cup ToSet(e)

LEMMA SoundUsers ==
    ASSUME NEW s, NEW D, NEW h, Sound(s, h, D), NEW e, UsersOf(s, e), NEW g, g = h \o e
    PROVE  Joined(s, h, e, D, g)
<1>7. /\ e \in Seq(Message)
      /\ \A i \in 1 .. Len(e) : e[i].role = "user" /\ (e[i].text \in Result \/ SidOf(e[i].text) = s)
  BY DEF UsersOf
<1>1. h \in Seq(Message) /\ Whole(h) /\ \A m \in ToSet(h) : Placed(s, m, D)
  BY DEF Sound
<1>2. Appended(h, e, g)
  BY <1>1, <1>7, AppendedFacts
<1>3. g \in Seq(Message) /\ Starts(h, g) /\ \A i \in Len(h) + 1 .. Len(g) : g[i].role = "user"
  BY <1>2, <1>7 DEF Appended
<1>4. Whole(g) /\ (Legal(h) => Legal(g))
  BY <1>1, <1>3, UsersBehind, MessagesTalk
<1>5. ToSet(g) = ToSet(h) \cup ToSet(e)
  <2>1. Range(h \o e) = Range(h) \cup Range(e)
    BY <1>1, <1>7, RangeConcatenation
  <2> QED
    BY <2>1 DEF Range, ToSet
<1>6. ASSUME NEW m \in ToSet(e) PROVE Placed(s, m, D)
  <2>1. PICK i \in 1 .. Len(e) : m = e[i]
    BY <1>7 DEF ToSet
  <2> QED
    BY <1>7, <2>1 DEF Placed
<1> QED
  BY <1>1, <1>3, <1>4, <1>5, <1>6 DEF Sound, Joined

(* ... or a summary before it ...                                          *)
LEMMA SoundSummary ==
    ASSUME NEW s \in Chat, NEW D, NEW h, Sound(s, h, D), NEW n \in Nat
    PROVE  /\ Sound(s, <<Summary(n)>> \o h, D) 
           /\ ToSet(<<Summary(n)>> \o h) = ToSet(h) \cup {Summary(n)}
<1> DEFINE g == <<Summary(n)>> \o h
<1>1. h \in Seq(Message) /\ Whole(h) /\ \A m \in ToSet(h) : Placed(s, m, D)
  BY DEF Sound
<1>2. Summary(n) \in Message /\ Summary(n).role = "system"
  BY DEF Summary, System, Message
<1>3. g \in Seq(Message)
  BY <1>1, <1>2
<1>4. Whole(g)
  <2>1. Shows(g, 1, h) /\ 1 \in 0 .. Len(g) /\ \A i \in 1 .. 1 : g[i].role = "system"
    BY <1>1, <1>2 DEF Shows
  <2> HIDE DEF g
  <2> QED
    BY <1>1, <1>3, <2>1, SystemsInFront, MessagesTalk
<1>5. ToSet(g) = ToSet(h) \cup {Summary(n)}
  <2> DEFINE first == <<Summary(n)>>
  <2>1. first \in Seq(Message) /\ ToSet(first) = {Summary(n)} /\ g = first \o h
    BY <1>2 DEF ToSet
  <2> HIDE DEF first, g
  <2>2. Range(first \o h) = Range(first) \cup Range(h)
    BY <1>1, <2>1, RangeConcatenation
  <2> QED
    BY <2>1, <2>2 DEF Range, ToSet
<1>6. Placed(s, Summary(n), D)
  BY <1>2 DEF Placed
<1> QED
  BY <1>1, <1>3, <1>4, <1>5, <1>6 DEF Sound

(* ... or when SAVE puts the messages of the turn behind it.                *)
LEMMA SoundSaved ==
    ASSUME NEW t \in Turn, NEW inc \in Trace[t], NEW D, t \notin D, NEW h, Sound(SidOf(t), h, D), 
           NEW g, g = Persist(h, inc)
    PROVE  /\ Sound(SidOf(t), g, D \cup {t}) 
           /\ ToSet(h) \subseteq ToSet(g)
           /\ \A m \in ToSet(g) : m \in ToSet(h) \/ Speaker(m) = t \/ Speaker(m) \in Result
<1> DEFINE s == SidOf(t)
<1>1. h \in Seq(Message) /\ Whole(h) /\ \A m \in ToSet(h) : Placed(s, m, D)
  BY DEF Sound
<1>14. Increment(t, inc)
  BY TraceAssumption
<1>2. inc \in Seq(Message) /\ DOMAIN inc = 1 .. Len(inc)
  BY <1>14 DEF Increment
<1>3. DOMAIN h = 1 .. Len(h) /\ \A i \in 1 .. Len(h) : h[i] \in ToSet(h) /\ h[i] \in Message
  BY <1>1 DEF ToSet
<1>4. NothingOf(t, h)
  <2>1. ASSUME NEW i \in 1 .. Len(h), h[i].role = "tool" PROVE h[i].id \notin {t} \X Nat
    <3>1. h[i].id[1] \in D
      BY <1>1, <1>3, <2>1 DEF Placed
    <3> QED
      BY <3>1
  <2>2. ASSUME NEW i \in 1 .. Len(h), h[i].role = "assistant" 
        PROVE  ToSet(h[i].calls) \cap ({t} \X Nat) = {}
    <3>1. h[i].text \in D /\ ToSet(h[i].calls) \subseteq {h[i].text} \X Nat
      BY <1>1, <1>3, <2>2 DEF Placed
    <3> QED
      BY <3>1
  <2> QED
    BY <2>1, <2>2 DEF NothingOf
<1>5. /\ g \in Seq(Message) /\ Starts(h, g) /\ Whole(g)
      /\ \A i \in NewIn(h, g) : \/ g[i].role = "tool" /\ g[i].id \in {t} \X Nat
                                \/ \E b \in 1 .. Len(inc) : g[i] = inc[b]
  BY <1>1, <1>4, <1>14, PersistWhole
<1>6. /\ DOMAIN g = 1 .. Len(g) /\ Len(g) \in Nat /\ Len(h) \in Nat
      /\ \A i \in 1 .. Len(g) : (i \in 1 .. Len(h) /\ g[i] = h[i]) \/ i \in NewIn(h, g)
      /\ \A i \in 1 .. Len(h) : i \in 1 .. Len(g) /\ g[i] = h[i]
  BY <1>1, <1>5 DEF Starts, NewIn
<1>7. ASSUME NEW b \in 1 .. Len(inc) 
      PROVE  /\ Placed(s, inc[b], D \cup {t})
             /\ Speaker(inc[b]) = t \/ Speaker(inc[b]) \in Result
  <2>1. \/ inc[b].role = "user" /\ inc[b].text \in {t} \cup Result
        \/ inc[b].role \in {"assistant", "tool"} /\ Speaker(inc[b]) = t
    BY <1>2, <1>14 DEF Increment
  <2>2. inc[b].role = "assistant" => ToSet(inc[b].calls) \subseteq {t} \X Nat
    BY <1>2, <1>14 DEF Increment
  <2> QED
    BY <2>1, <2>2 DEF Placed, Speaker
<1>8. ASSUME NEW i \in NewIn(h, g) 
      PROVE  /\ Placed(s, g[i], D \cup {t})
             /\ Speaker(g[i]) = t \/ Speaker(g[i]) \in Result
  <2>1. CASE g[i].role = "tool" /\ g[i].id \in {t} \X Nat
    <3>1. g[i].id[1] = t
      BY <2>1
    <3> QED
      BY <2>1, <3>1 DEF Placed, Speaker
  <2> QED
    BY <1>5, <1>7, <2>1
<1>9. ASSUME NEW m \in ToSet(h) PROVE Placed(s, m, D \cup {t})
  BY <1>1 DEF Placed
<1>10. ToSet(h) \subseteq ToSet(g)
  BY <1>3, <1>6 DEF ToSet
<1>11. ASSUME NEW m \in ToSet(g) PROVE m \in ToSet(h) \/ \E i \in NewIn(h, g) : m = g[i]
  BY <1>3, <1>6 DEF ToSet
<1>12. \A m \in ToSet(g) : Placed(s, m, D \cup {t})
  BY <1>8, <1>9, <1>11
<1>13. Sound(s, g, D \cup {t})
  BY <1>5, <1>12 DEF Sound
<1> QED
  BY <1>8, <1>10, <1>11, <1>13

-----------------------------------------------------------------------------
(* What a step does to the files of a session.                              *)
NewList(s, h) == 
    /\ Sound(s, h, Done')
    /\ \A m \in ToSet(h) : m \in ToSet(Messages(s)) \/ m.role = "system" \/ Speaker(m) \in Result \cup Locked
    /\ Messages(s) # <<>> /\ Last(Messages(s)).role # "tool" => Last(Messages(s)) \in ToSet(h)
Same(s) == cache'[s] = cache[s] /\ disk'[s] = disk[s]
Saves(s) == NewList(s, cache'[s]) /\ disk'[s] = cache'[s]
Touches(s) == 
    /\ NewList(s, cache'[s]) /\ disk'[s] = disk[s]
    /\ \A m \in ToSet(cache'[s]) : m \in ToSet(Messages(s)) \/ Speaker(m) \in Result
Flushes(s) == cache'[s] = None /\ disk'[s] = IF cache[s] # None THEN cache[s] ELSE disk[s]
Drops(s) == crashes' = crashes + 1 /\ cache'[s] = None /\ disk'[s] = disk[s]
Deletes(s) == s \in Fresh /\ cache'[s] = None /\ disk'[s] = None
Empties(s) == New(s) /\ cache'[s] = None /\ disk'[s] = <<>>
FileStep(s) == Same(s) \/ Saves(s) \/ Touches(s) \/ Flushes(s) \/ Drops(s) \/ Deletes(s) \/ Empties(s)

ListStep(t, h, g) == g \in {<<>>, h} \/ (Sound(SidOf(t), g, Done') /\ Legal(g))
ShownStep(t) == ListStep(t, held[t], held'[t]) /\ ListStep(t, window[t], window'[t])

AloneStep == 
    alone' => /\ alone /\ Live' \subseteq {active'} /\ \A t \in before' : step'[t] = "over"
              /\ \A t \in before' : t \in before \/ Empties(chat[t])

LegalStep == 
    /\ TypeInv' /\ Done \subseteq Done'
    /\ \A s \in Sid : FileStep(s)
    /\ \A t \in Turn : ShownStep(t)
    /\ AloneStep

(* Consequences of soundness and of what a step does to a file.            *)
LEMMA EmptyIsSound ==
    ASSUME NEW s, NEW D
    PROVE  Sound(s, <<>>, D) /\ Legal(<<>>)
<1>1. <<>> \in Seq(Message) /\ ToSet(<<>>) = {} /\ 1 .. Len(<<>>) = {}
  BY DEF ToSet
<1> QED
  BY <1>1 DEF Sound, Whole, AllFull, Once, Legal

LEMMA SoundLater ==
    ASSUME NEW s, NEW h, NEW D, NEW E, Sound(s, h, D), D \subseteq E
    PROVE  Sound(s, h, E)
<1>1. ASSUME NEW m \in ToSet(h) PROVE Placed(s, m, E)
  <2>1. Placed(s, m, D)
    BY DEF Sound
  <2> QED
    BY <2>1 DEF Placed
<1> QED
  BY <1>1 DEF Sound

LEMMA MessagesSound ==
    ASSUME FilesSound, NEW s \in Sid
    PROVE  /\ Sound(s, Messages(s), Done) /\ Messages(s) \in Seq(Message) 
           /\ None \notin Seq(Message)
<1>1. Sound(s, Messages(s), Done)
  BY EmptyIsSound DEF FilesSound, Messages
<1> QED
  BY <1>1, TraceAssumption DEF Sound

(* Whatever of the seven things a step does to a session, its lists stay sound.*)
LEMMA FilesKept ==
    ASSUME IInv, NEW s \in Sid, Done \subseteq Done', FileStep(s)
    PROVE  /\ cache'[s] # None => Sound(s, cache'[s], Done')
           /\ disk'[s] # None => Sound(s, disk'[s], Done')
           /\ cache'[s] # None => \A m \in ToSet(cache'[s]) : Speaker(m) \in Result \/ m \in ToSet(Stored(s)')
<1>1. /\ cache[s] # None => Sound(s, cache[s], Done')
      /\ disk[s] # None => Sound(s, disk[s], Done')
      /\ Sound(s, <<>>, Done')
  BY SoundLater, EmptyIsSound DEF IInv, FilesSound
<1>2. None \notin Seq(Message)
  BY TraceAssumption
<1>3. /\ cache[s] # None => \A m \in ToSet(cache[s]) : Speaker(m) \in Result \/ m \in ToSet(Stored(s))
      /\ cache[s] = None => Messages(s) = Stored(s)
      /\ cache[s] # None => Messages(s) = cache[s]
      /\ Stored(s)' = IF disk'[s] = None THEN <<>> ELSE disk'[s]
  BY DEF IInv, DiskHasAll, Messages, Stored
<1>4. CASE Same(s)
  BY <1>1, <1>3, <1>4 DEF Same, Stored
<1>5. CASE Saves(s)
  BY <1>2, <1>3, <1>5 DEF Saves, NewList, Sound
<1>6. CASE Touches(s)
  <2>1. Stored(s)' = Stored(s)
    BY <1>3, <1>6 DEF Touches, Stored
  <2> QED
    BY <1>1, <1>2, <1>3, <1>6, <2>1 DEF Touches, NewList, Sound
<1>7. CASE Flushes(s) \/ Drops(s) \/ Deletes(s) \/ Empties(s)
  BY <1>1, <1>7 DEF Flushes, Drops, Deletes, Empties
<1> QED
  BY <1>4, <1>5, <1>6, <1>7 DEF FileStep

(* The newest message of a chat survives what a step does to its file.     *)
LEMMA LatestKept ==
    ASSUME IInv, NEW c \in Chat, FileStep(c), ~New(c), Messages(c) # <<>>, Last(Messages(c)).role # "tool",
           Speaker(Last(Messages(c))) \in Result => UNCHANGED crashes
    PROVE  Last(Messages(c)) \in ToSet(Messages(c)')
<1> DEFINE m == Last(Messages(c))
<1>1. c \in Sid /\ c \notin Fresh
  BY HistoryAssumption DEF Sid
<1>2. Messages(c) \in Seq(Message) /\ None \notin Seq(Message)
  BY <1>1, MessagesSound DEF IInv
<1>3. m \in ToSet(Messages(c))
  <2>1. Len(Messages(c)) \in 1 .. Len(Messages(c)) /\ DOMAIN Messages(c) = 1 .. Len(Messages(c))
    BY <1>2
  <2> QED
    BY <2>1 DEF Last, ToSet
<1>4. Messages(c)' = IF cache'[c] # None THEN cache'[c] ELSE IF disk'[c] # None THEN disk'[c] ELSE <<>>
  BY DEF Messages
<1>5. CASE Same(c)
  BY <1>3, <1>4, <1>5 DEF Same, Messages
<1>6. CASE NewList(c, cache'[c])
  <2>1. m \in ToSet(cache'[c]) /\ cache'[c] # None
    BY <1>2, <1>6 DEF NewList, Sound
  <2> QED
    BY <1>4, <2>1
<1>7. CASE Flushes(c)
  BY <1>3, <1>4, <1>7 DEF Flushes, Messages
<1>8. CASE Drops(c)
  <2>1. crashes' # crashes
    BY <1>8 DEF Drops, IInv, TypeInv
  <2>2. Speaker(m) \notin Result
    BY <2>1
  <2>3. CASE cache[c] # None
    <3>1. m \in ToSet(Stored(c))
      BY <1>1, <1>3, <2>2, <2>3 DEF IInv, DiskHasAll, Messages
    <3>2. ToSet(<<>>) = {}
      BY DEF ToSet
    <3> QED
      BY <1>4, <1>8, <3>1, <3>2 DEF Drops, Stored
  <2>4. CASE cache[c] = None
    BY <1>3, <1>4, <1>8, <2>4 DEF Drops, Messages
  <2> QED
    BY <2>3, <2>4
<1> QED
  BY <1>1, <1>5, <1>6, <1>7, <1>8 DEF FileStep, Saves, Touches, Deletes, Empties

(* A legal step keeps the invariant.                                       *)
LEMMA ShownKept ==
    ASSUME IInv, LegalStep, NEW t \in Turn
    PROVE  /\ Sound(SidOf(t), held'[t], Done') /\ Legal(held'[t])
           /\ Sound(SidOf(t), window'[t], Done') /\ Legal(window'[t])
<1>1. ASSUME NEW h, NEW g, Sound(SidOf(t), h, Done), Legal(h), ListStep(t, h, g)
      PROVE  Sound(SidOf(t), g, Done') /\ Legal(g)
  <2>1. Sound(SidOf(t), h, Done')
    BY <1>1, SoundLater DEF LegalStep
  <2> QED
    BY <1>1, <2>1, EmptyIsSound DEF ListStep
<1> QED
  BY <1>1 DEF IInv, ShownSound, LegalStep, ShownStep

(* What was clean of the turns before /new stays so.                       *)
LEMMA CleanKept ==
    ASSUME IInv, AloneStep, NEW c \in Chat, FileStep(c), alone'
    PROVE  /\ cache'[c] # None => CleanOf(c, cache'[c], before')
           /\ disk'[c] # None => CleanOf(c, disk'[c], before')
<1> DEFINE Clean0(m) == m.role = "system" \/ Speaker(m) \notin {t \in before : chat[t] = c}
           Clean1(m) == m.role = "system" \/ Speaker(m) \notin {t \in before' : chat[t] = c}
<1>1. c \in Sid /\ c \notin Fresh /\ chat \in [Turn -> Chat]
  BY HistoryAssumption DEF Sid
<1>2. /\ alone /\ before \subseteq Turn /\ \A t \in before : step[t] = "over"
      /\ cache[c] # None => \A m \in ToSet(cache[c]) : Clean0(m)
      /\ disk[c] # None => \A m \in ToSet(disk[c]) : Clean0(m)
  BY DEF AloneStep, IInv, AloneClean, CleanOf, TypeInv
<1>3. ToSet(<<>>) = {}
  BY DEF ToSet
<1>4. \A m \in ToSet(Messages(c)) : Clean0(m)
  BY <1>2, <1>3 DEF Messages
<1>5. (\A m \in ToSet(cache'[c]) : Clean1(m)) => CleanOf(c, cache'[c], before')
  BY DEF CleanOf
<1>6. (\A m \in ToSet(disk'[c]) : Clean1(m)) => CleanOf(c, disk'[c], before')
  BY DEF CleanOf
<1>7. CASE Empties(c)
  BY <1>3, <1>6, <1>7 DEF Empties
<1>8. CASE ~Empties(c)
  <2>1. {t \in before' : chat[t] = c} \subseteq {t \in before : chat[t] = c}
    BY <1>8 DEF AloneStep
  <2>2. \A m : Clean0(m) => Clean1(m)
    BY <2>1
  <2>3. ASSUME NewList(c, cache'[c]) PROVE \A m \in ToSet(cache'[c]) : Clean1(m)
    <3>1. before \cap (Result \cup Locked) = {}
      BY <1>2, HistoryAssumption DEF Locked
    <3> SUFFICES ASSUME NEW m \in ToSet(cache'[c]) PROVE Clean0(m)
      BY <2>2
    <3>2. m \in ToSet(Messages(c)) \/ m.role = "system" \/ Speaker(m) \in Result \cup Locked
      BY <2>3 DEF NewList
    <3> QED
      BY <1>4, <3>1, <3>2
  <2>4. Same(c) \/ NewList(c, cache'[c]) \/ Flushes(c) \/ Drops(c)
    BY <1>1, <1>8 DEF FileStep, Saves, Touches, Deletes
  <2>5. CASE NewList(c, cache'[c])
    <3>1. disk'[c] = cache'[c] \/ disk'[c] = disk[c] \/ cache'[c] = None
      BY <1>1, <1>8, <2>5 DEF FileStep, Same, Saves, Touches, Flushes, Drops, Deletes
    <3>2. cache'[c] # None
      BY <2>5, TraceAssumption DEF NewList, Sound
    <3> HIDE DEF Clean0, Clean1
    <3> QED
      BY <1>2, <1>5, <1>6, <2>2, <2>3, <2>5, <3>1, <3>2
  <2>6. CASE Same(c) \/ Flushes(c) \/ Drops(c)
    <3> HIDE DEF Clean0, Clean1
    <3> QED
      BY <1>2, <1>5, <1>6, <2>2, <2>6 DEF Same, Flushes, Drops
  <2> QED
    BY <2>4, <2>5, <2>6
<1> QED
  BY <1>7, <1>8

(* Hence a legal step keeps the invariant ...                              *)
LEMMA LegalStepKeeps ==
    ASSUME IInv, LegalStep
    PROVE  IInv'
<1>1. TypeInv'
  BY DEF LegalStep
<1>2. FilesSound' /\ DiskHasAll'
  BY FilesKept DEF LegalStep, FilesSound, DiskHasAll
<1>3. ShownSound'
  BY ShownKept DEF ShownSound
<1>4. AloneClean'
  <2> SUFFICES ASSUME alone' 
               PROVE  /\ Live' \subseteq {active'} /\ \A t \in before' : step'[t] = "over"
                      /\ \A c \in Chat : /\ cache'[c] # None => CleanOf(c, cache'[c], before')
                                         /\ disk'[c] # None => CleanOf(c, disk'[c], before')
    BY DEF AloneClean
  <2>1. Live' \subseteq {active'} /\ \A t \in before' : step'[t] = "over"
    BY DEF LegalStep, AloneStep
  <2>2. ASSUME NEW c \in Chat PROVE /\ cache'[c] # None => CleanOf(c, cache'[c], before')
                                    /\ disk'[c] # None => CleanOf(c, disk'[c], before')
    <3>1. AloneStep /\ FileStep(c)
      BY DEF LegalStep, Sid
    <3> QED
      BY <3>1, CleanKept
  <2> QED
    BY <2>1, <2>2
<1> QED
  BY <1>1, <1>2, <1>3, <1>4 DEF IInv

(* ... and what was stored.                                                *)
LEMMA LegalStepSaves ==
    ASSUME IInv, LegalStep
    PROVE  DiskHasAll' /\ LatestSurvives
<1>1. DiskHasAll'
  BY LegalStepKeeps DEF IInv
<1>2. \A c \in Chat : c \in Sid
  BY DEF Sid
<1>3. LatestSurvives
  <2> SUFFICES ASSUME NEW c \in Chat, ~New(c), Messages(c) # <<>>, Last(Messages(c)).role # "tool",
                      Speaker(Last(Messages(c))) \in Result => UNCHANGED crashes
               PROVE  Last(Messages(c)) \in ToSet(Messages(c)')
    BY DEF LatestSurvives
  <2>1. FileStep(c)
    BY <1>2 DEF LegalStep
  <2> QED
    BY <2>1, LatestKept
<1> QED
  BY <1>1, <1>3

-----------------------------------------------------------------------------
(* The steps.                                                              *)
LEMMA SessionIds ==
    ASSUME NEW t \in Turn
    PROVE  /\ SidOf(t) \in Sid /\ chat[t] \in Chat /\ chat[t] \in Sid /\ chat[t] \notin Fresh /\ t # None
           /\ \A c \in Chat : SidOf(t) = c => chat[t] = c
           /\ t \in Fresh => SidOf(t) = t /\ t \in Sid
  BY HistoryAssumption DEF SidOf, Sid

LEMMA QuietTurns ==
    ASSUME IInv, UNCHANGED <<turnVars, before, alone>>
    PROVE  Done' = Done /\ Locked' = Locked /\ AloneStep /\ \A t \in Turn : ShownStep(t)
<1>1. Done' = Done /\ Locked' = Locked /\ Live' = Live
  BY DEF turnVars, Done, Locked, Live
<1>2. AloneStep
  BY <1>1 DEF turnVars, AloneStep, IInv, AloneClean
<1>3. \A t \in Turn : ShownStep(t)
  BY DEF turnVars, ShownStep, ListStep
<1> QED
  BY <1>1, <1>2, <1>3

LEMMA QuietFiles ==
    ASSUME UNCHANGED <<cache, disk>>
    PROVE  \A s \in Sid : FileStep(s)
  BY DEF FileStep, Same

LEMMA NothingHappens ==
    ASSUME IInv, UNCHANGED vars
    PROVE  LegalStep
<1>1. UNCHANGED <<turnVars, cache, disk, archive, results, summary, before, blank, alone, crashes>>
  BY DEF vars, files
<1>2. TypeInv'
  BY <1>1, QuietTurns DEF TypeInv, IInv, turnVars
<1> QED
  BY <1>1, <1>2, QuietTurns, QuietFiles DEF LegalStep

LEMMA ArriveIsLegal ==
    ASSUME IInv, NEW t \in Turn, Arrive(t)
    PROVE  LegalStep
<1>1. /\ step[t] = "idle" /\ step' = [step EXCEPT ![t] = "waiting"] /\ active' = t
      /\ alone' = (alone /\ Live = {})
      /\ UNCHANGED <<held, window, cache, disk, archive, results, summary, before, blank, crashes>>
  BY DEF Arrive, files
<1>2. TypeInv /\ step \in [Turn -> Steps]
  BY DEF IInv, TypeInv
<1>3. Done' = Done /\ Locked' = Locked /\ Live' = Live \cup {t}
  BY <1>1, <1>2 DEF Done, Locked, Live
<1>4. TypeInv'
  BY <1>1, <1>2, <1>3 DEF TypeInv, Steps
<1>5. AloneStep
  <2>1. before \subseteq Turn /\ (alone => \A u \in before : step[u] = "over")
    BY <1>2 DEF TypeInv, IInv, AloneClean
  <2>2. ASSUME alone, NEW u \in before PROVE step'[u] = "over"
    <3>1. u \in Turn /\ step[u] = "over" /\ u # t
      BY <1>1, <2>1, <2>2
    <3> QED
      BY <1>1, <1>2, <3>1
  <2> QED
    BY <1>1, <1>3, <2>2 DEF AloneStep
<1>6. \A u \in Turn : ShownStep(u)
  BY <1>1 DEF ShownStep, ListStep
<1> QED
  BY <1>1, <1>3, <1>4, <1>5, <1>6, QuietFiles DEF LegalStep

LEMMA AnnounceIsLegal ==
    ASSUME IInv, NEW r \in Result, Announce(r)
    PROVE  LegalStep
<1>1. /\ UNCHANGED <<turnVars, cache, disk, archive, summary, before, blank, alone, crashes>>
      /\ results' = Append(results, r)
  BY DEF Announce, files
<1>2. results' \in Seq(Result)
  BY <1>1 DEF IInv, TypeInv
<1>3. TypeInv'
  BY <1>1, <1>2, QuietTurns DEF TypeInv, IInv, turnVars
<1> QED
  BY <1>1, <1>3, QuietTurns, QuietFiles DEF LegalStep

(* Saves and touches of a sound list are legal for the session.            *)
LEMMA SaveIsLegal ==
    ASSUME IInv, NEW s \in Sid, NEW h, NewList(s, h), Save(s, h)
    PROVE  /\ \A x \in Sid : FileStep(x)
           /\ cache' \in [Sid -> Seq(Message) \cup {None}] /\ disk' \in [Sid -> Seq(Message) \cup {None}]
<1>1. h \in Seq(Message)
  BY DEF NewList, Sound
<1>2. cache \in [Sid -> Seq(Message) \cup {None}] /\ disk \in [Sid -> Seq(Message) \cup {None}]
  BY DEF IInv, TypeInv
<1>3. /\ cache' = [cache EXCEPT ![s] = h] /\ disk' = [disk EXCEPT ![s] = h]
  BY DEF Save
<1>4. cache'[s] = h /\ disk'[s] = h /\ \A x \in Sid \ {s} : Same(x)
  BY <1>2, <1>3 DEF Same
<1>5. Saves(s)
  BY <1>4 DEF Saves
<1> QED
  BY <1>1, <1>2, <1>3, <1>4, <1>5 DEF FileStep

LEMMA TouchIsLegal ==
    ASSUME IInv, NEW s \in Sid, NEW h, NewList(s, h), Touch(s, h),
           \A m \in ToSet(h) : m \in ToSet(Messages(s)) \/ Speaker(m) \in Result
    PROVE  /\ \A x \in Sid : FileStep(x)
           /\ cache' \in [Sid -> Seq(Message) \cup {None}] /\ disk' \in [Sid -> Seq(Message) \cup {None}]
<1>1. h \in Seq(Message)
  BY DEF NewList, Sound
<1>2. cache \in [Sid -> Seq(Message) \cup {None}] /\ disk \in [Sid -> Seq(Message) \cup {None}]
  BY DEF IInv, TypeInv
<1>3. cache' = [cache EXCEPT ![s] = h] /\ disk' = disk
  BY DEF Touch
<1>4. cache'[s] = h /\ disk'[s] = disk[s] /\ \A x \in Sid \ {s} : Same(x)
  BY <1>2, <1>3 DEF Same
<1>5. Touches(s)
  BY <1>4 DEF Touches
<1> QED
  BY <1>1, <1>2, <1>3, <1>4, <1>5 DEF FileStep

(* What is left of a list after a cut may be saved in its place.           *)
LEMMA CutIsNewList ==
    ASSUME IInv, NEW s \in Sid, NEW n \in Nat \ {0}, Done' = Done
    PROVE  NewList(s, LastN(Messages(s), n))
<1> DEFINE h == Messages(s)
           t == LastN(h, n)
<1>1. Sound(s, h, Done)
  BY MessagesSound DEF IInv
<1> HIDE DEF h
<1>2. /\ Sound(s, t, Done) /\ ToSet(t) \subseteq ToSet(h)
      /\ h # <<>> => Last(h) \in ToSet(t)
  BY <1>1, SoundLastN
<1> HIDE DEF t
<1>3. Sound(s, t, Done')
  BY <1>2, Zenon
<1> QED
  BY <1>2, <1>3 DEF NewList, h, t

LEMMA TrimIsLegal ==
    ASSUME IInv, NEW t \in Turn, NEW n \in Keep, TrimHistory(t, n)
    PROVE  LegalStep
<1>1. /\ UNCHANGED <<turnVars, archive, results, summary, before, blank, alone, crashes>>
      /\ Save(chat[t], LastN(Messages(chat[t]), n))
  BY DEF TrimHistory, ToolSession
<1>2. Done' = Done /\ Locked' = Locked /\ AloneStep /\ \A u \in Turn : ShownStep(u)
  BY <1>1, QuietTurns
<1>3. n \in Nat \ {0} /\ chat[t] \in Sid
  BY SessionIds, HistoryAssumption
<1>4. /\ \A x \in Sid : FileStep(x)
      /\ cache' \in [Sid -> Seq(Message) \cup {None}] /\ disk' \in [Sid -> Seq(Message) \cup {None}]
  BY <1>1, <1>2, <1>3, CutIsNewList, SaveIsLegal
<1>5. TypeInv'
  BY <1>1, <1>2, <1>4 DEF TypeInv, IInv, turnVars
<1> QED
  BY <1>2, <1>4, <1>5 DEF LegalStep

LEMMA ArchiveGrows ==
    ASSUME IInv, NEW c \in Chat, Len(archive[c]) < MaxArchives,
           archive' = [archive EXCEPT ![c] = Append(@, ArchiveIndex(c))]
    PROVE  /\ archive' \in [Chat -> Seq(0 .. MaxArchives - 1)] 
           /\ ArchiveIndex(c) \in 0 .. MaxArchives - 1
<1>1. archive \in [Chat -> Seq(0 .. MaxArchives - 1)] /\ MaxArchives \in Nat
  BY HistoryAssumption DEF IInv, TypeInv
<1>2. archive[c] \in Seq(0 .. MaxArchives - 1) /\ Len(archive[c]) \in Nat
  BY <1>1
<1>3. ArchiveIndex(c) \in 0 .. MaxArchives - 1
  BY <1>1, <1>2 DEF ArchiveIndex
<1>4. Append(archive[c], ArchiveIndex(c)) \in Seq(0 .. MaxArchives - 1)
  BY <1>2, <1>3
<1> QED
  BY <1>1, <1>3, <1>4

LEMMA ConsolidateIsLegal ==
    ASSUME IInv, NEW t \in Turn, NEW n \in Keep, ConsolidateHistory(t, n)
    PROVE  LegalStep
<1> DEFINE c == chat[t]
           h == Messages(c)
           i == ArchiveIndex(c)
           g == <<Summary(i)>> \o LastN(h, n)
<1>1. /\ UNCHANGED <<turnVars, results, before, blank, alone, crashes>>
      /\ Len(archive[c]) < MaxArchives
      /\ archive' = [archive EXCEPT ![c] = Append(@, i)]
      /\ Save(c, g) /\ summary' = [summary EXCEPT ![c] = i]
  BY DEF ConsolidateHistory, Consolidate, ToolSession
<1>2. Done' = Done /\ Locked' = Locked /\ AloneStep /\ \A u \in Turn : ShownStep(u)
  BY <1>1, QuietTurns
<1>3. n \in Nat \ {0} /\ c \in Sid /\ c \in Chat
  BY SessionIds, HistoryAssumption
<1>4. archive' \in [Chat -> Seq(0 .. MaxArchives - 1)] /\ i \in 0 .. MaxArchives - 1 /\ i \in Nat
  <2>1. archive' \in [Chat -> Seq(0 .. MaxArchives - 1)] /\ i \in 0 .. MaxArchives - 1
    BY <1>1, <1>3, ArchiveGrows
  <2> QED
    BY <2>1
<1> HIDE DEF c, i
<1>5. NewList(c, LastN(h, n))
  BY <1>2, <1>3, CutIsNewList
<1> DEFINE k == LastN(h, n)
<1>6. NewList(c, g)
  <2>1. Sound(c, k, Done')
    BY <1>5 DEF NewList
  <2>2. Sound(c, g, Done') /\ ToSet(g) = ToSet(k) \cup {Summary(i)}
    <3> HIDE DEF k
    <3>1. /\ Sound(c, <<Summary(i)>> \o k, Done') 
          /\ ToSet(<<Summary(i)>> \o k) = ToSet(k) \cup {Summary(i)}
      <4>1. c \in Chat /\ i \in Nat
        BY <1>3, <1>4
      <4>2. ASSUME NEW D, NEW x, Sound(c, x, D) PROVE Sound(c, <<Summary(i)>> \o x, D)
        BY <4>1, <4>2, SoundSummary
      <4>3. ASSUME NEW D, NEW x, Sound(c, x, D) PROVE ToSet(<<Summary(i)>> \o x) = ToSet(x) \cup {Summary(i)}
        BY <4>1, <4>3, SoundSummary
      <4> QED
        BY <2>1, <4>2, <4>3
    <3> QED
      BY <3>1 DEF k
  <2>3. Summary(i).role = "system"
    BY DEF Summary, System
  <2> HIDE DEF g, k, h
  <2> QED
    BY <1>5, <2>2, <2>3 DEF NewList, k, h
<1> HIDE DEF g
<1>7. /\ \A x \in Sid : FileStep(x)
      /\ cache' \in [Sid -> Seq(Message) \cup {None}] /\ disk' \in [Sid -> Seq(Message) \cup {None}]
  BY <1>1, <1>3, <1>6, SaveIsLegal
<1>8. TypeInv'
  BY <1>1, <1>2, <1>3, <1>4, <1>7 DEF TypeInv, IInv, turnVars
<1> QED
  BY <1>2, <1>7, <1>8 DEF LegalStep

(* A turn that goes on leaves the others, and what alone says, as they are. *)
LEMMA TurnGoesOn ==
    ASSUME IInv, NEW t \in Turn, NEW to \in {"building", "running", "saving"},
           step[t] \in {"waiting", "building", "running"}, step' = [step EXCEPT ![t] = to],
           UNCHANGED <<active, before, alone>>, step[t] = "waiting" => LockFree
    PROVE  /\ step' \in [Turn -> Steps] /\ Done \subseteq Done' /\ AloneStep
           /\ \A u, v \in Locked' : u = v
           /\ to # "saving" => Done' = Done
           /\ to = "saving" => Done' = Done \cup {t}
<1>1. step \in [Turn -> Steps] /\ \A u, v \in Locked : u = v
  BY DEF IInv, TypeInv
<1>2. step' \in [Turn -> Steps]
  BY <1>1 DEF Steps
<1>3. Live' = Live /\ t \in Locked' /\ Locked' \subseteq Locked \cup {t}
  BY <1>1 DEF Live, Locked
<1>4. \A u, v \in Locked' : u = v
  BY <1>1, <1>3 DEF LockFree, Locked
<1>5. /\ to # "saving" => Done' = Done
      /\ to = "saving" => Done' = Done \cup {t}
  BY <1>1 DEF Done
<1>6. AloneStep
  <2>1. before \subseteq Turn /\ (alone => \A u \in before : step[u] = "over")
    BY DEF TypeInv, IInv, AloneClean
  <2>2. ASSUME alone, NEW u \in before PROVE step'[u] = "over"
    <3>1. u \in Turn /\ step[u] = "over" /\ u # t
      BY <2>1, <2>2
    <3> QED
      BY <1>1, <3>1
  <2> QED
    BY <1>3, <2>2 DEF AloneStep, IInv, AloneClean
<1> QED
  BY <1>2, <1>4, <1>5, <1>6

(* The results of subagents, as the messages BUILD puts behind the list.    *)
LEMMA ResultMessages ==
    ASSUME NEW rs \in Seq(Result), NEW e, e = [i \in DOMAIN rs |-> User(rs[i])]
    PROVE  /\ e \in Seq(Message)
           /\ \A i \in 1 .. Len(e) : e[i].role = "user" /\ e[i].text \in Result
           /\ \A m \in ToSet(e) : Speaker(m) \in Result
<1>1. DOMAIN rs = 1 .. Len(rs) /\ Len(rs) \in Nat
  OBVIOUS
<1>2. \A i \in 1 .. Len(rs) : User(rs[i]) \in Message /\ rs[i] \in Result
  BY DEF User, Message
<1>3. e \in Seq(Message) /\ Len(e) = Len(rs) /\ DOMAIN e = 1 .. Len(e)
  BY <1>1, <1>2
<1>4. \A i \in 1 .. Len(e) : e[i].role = "user" /\ e[i].text \in Result
  BY <1>1, <1>2, <1>3 DEF User
<1>5. \A m \in ToSet(e) : Speaker(m) \in Result
  BY <1>3, <1>4 DEF ToSet, Speaker
<1> QED
  BY <1>3, <1>4, <1>5

(* What BUILD takes from a session is sound, legal and has its newest part. *)
LEMMA BuiltList ==
    ASSUME IInv, NEW s \in Sid, NEW list, Done' = Done,
           list = Repaired(LastN(Messages(s), MaxMessages)) \o [i \in DOMAIN results |-> User(results[i])]
    PROVE  /\ NewList(s, list) /\ Legal(list)
           /\ \A m \in ToSet(list) : m \in ToSet(Messages(s)) \/ Speaker(m) \in Result
<1> DEFINE h == Messages(s)
           l == LastN(h, MaxMessages)
           d == DropHead(l)
           e == [i \in DOMAIN results |-> User(results[i])]
<1>1. Sound(s, h, Done) /\ h \in Seq(Message)
  BY MessagesSound DEF IInv
<1>2. results \in Seq(Result) /\ MaxMessages \in Nat \ {0}
  BY HistoryAssumption DEF IInv, TypeInv
<1>3. list = d \o e
  BY DEF Repaired
<1>4. /\ e \in Seq(Message)
      /\ \A i \in 1 .. Len(e) : e[i].role = "user" /\ e[i].text \in Result
      /\ \A m \in ToSet(e) : Speaker(m) \in Result
  <2>1. e = [i \in DOMAIN results |-> User(results[i])]
    OBVIOUS
  <2> HIDE DEF e
  <2> QED
    BY <1>2, <2>1, ResultMessages
<1> HIDE DEF e, h
<1>5. /\ Sound(s, l, Done) /\ ToSet(l) \subseteq ToSet(h)
      /\ h # <<>> => l # <<>> /\ Last(l) = Last(h)
  BY <1>1, <1>2, SoundLastN
<1> HIDE DEF l
<1>6. /\ Sound(s, d, Done) /\ Legal(d) /\ ToSet(d) \subseteq ToSet(l)
      /\ l # <<>> /\ Last(l).role # "tool" => Last(l) \in ToSet(d)
  BY <1>5, SoundDropHead
<1> HIDE DEF d
<1>7. Sound(s, list, Done) /\ Legal(list) /\ ToSet(list) = ToSet(d) \cup ToSet(e)
  <2>1. UsersOf(s, e)
    BY <1>4 DEF UsersOf
  <2>2. Joined(s, d, e, Done, list)
    BY <1>3, <1>6, <2>1, SoundUsers
  <2> QED
    BY <1>6, <2>2 DEF Joined
<1>8. Sound(s, list, Done')
  BY <1>7, Zenon
<1> QED
  BY <1>4, <1>5, <1>6, <1>7, <1>8 DEF NewList, h

LEMMA BuildStartIsLegal ==
    ASSUME IInv, NEW t \in Turn, BuildStart(t)
    PROVE  LegalStep
<1> DEFINE s == SidOf(t)
           list == Repaired(LastN(Messages(s), MaxMessages)) \o [i \in DOMAIN results |-> User(results[i])]
<1>1. /\ step[t] = "waiting" /\ LockFree /\ step' = [step EXCEPT ![t] = "building"]
      /\ Touch(s, list) /\ held' = [held EXCEPT ![t] = list] /\ results' = <<>>
      /\ UNCHANGED <<active, window, archive, summary, before, blank, alone, crashes>>
  BY DEF BuildStart
<1>2. /\ step' \in [Turn -> Steps] /\ Done \subseteq Done' /\ AloneStep
      /\ \A u, v \in Locked' : u = v
      /\ Done' = Done
  BY <1>1, TurnGoesOn
<1>3. s \in Sid
  BY SessionIds
<1>4. /\ NewList(s, list) /\ Legal(list)
      /\ \A m \in ToSet(list) : m \in ToSet(Messages(s)) \/ Speaker(m) \in Result
  BY <1>2, <1>3, BuiltList
<1> HIDE DEF list
<1>5. /\ \A x \in Sid : FileStep(x)
      /\ cache' \in [Sid -> Seq(Message) \cup {None}] /\ disk' \in [Sid -> Seq(Message) \cup {None}]
  BY <1>1, <1>3, <1>4, TouchIsLegal
<1>6. Sound(s, list, Done') /\ list \in Seq(Message)
  BY <1>4 DEF NewList, Sound
<1>7. held \in [Turn -> Seq(Message)]
  BY DEF IInv, TypeInv
<1>8. ASSUME NEW u \in Turn PROVE ShownStep(u)
  BY <1>1, <1>4, <1>6, <1>7 DEF ShownStep, ListStep
<1>9. TypeInv'
  <2>1. results' \in Seq(Result) /\ held' \in [Turn -> Seq(Message)]
    BY <1>1, <1>6, <1>7
  <2> QED
    BY <1>1, <1>2, <1>5, <2>1 DEF TypeInv, IInv
<1> QED
  BY <1>2, <1>5, <1>8, <1>9 DEF LegalStep

(* The message that starts a turn, behind a list of its session.            *)
LEMMA OwnMessage ==
    ASSUME NEW t \in Turn, NEW D, NEW h, Sound(SidOf(t), h, D), NEW g, g = h \o <<User(t)>>
    PROVE  /\ Sound(SidOf(t), g, D) /\ (Legal(h) => Legal(g))
           /\ ToSet(g) = ToSet(h) \cup {User(t)} /\ Speaker(User(t)) = t
<1> DEFINE e == <<User(t)>>
<1>1. User(t) \in Message /\ User(t).role = "user" /\ User(t).text = t
  BY DEF User, Message
<1>2. /\ e \in Seq(Message) /\ ToSet(e) = {User(t)}
      /\ \A i \in 1 .. Len(e) : e[i].role = "user" /\ SidOf(e[i].text) = SidOf(t)
  BY <1>1 DEF ToSet
<1>3. g = h \o e
  OBVIOUS
<1> HIDE DEF e
<1>4. UsersOf(SidOf(t), e)
  BY <1>2 DEF UsersOf
<1>5. Joined(SidOf(t), h, e, D, g)
  BY <1>3, <1>4, SoundUsers
<1> QED
  BY <1>1, <1>2, <1>5 DEF Speaker, Joined

LEMMA BuildEndIsLegal ==
    ASSUME IInv, NEW t \in Turn, BuildEnd(t)
    PROVE  LegalStep
<1> DEFINE s == SidOf(t)
           shown == held[t] \o (IF t \in blank THEN <<>> ELSE <<User(t)>>)
           list == Append(Messages(s), User(t))
<1>1. /\ step[t] = "building" /\ step' = [step EXCEPT ![t] = "running"]
      /\ window' = [window EXCEPT ![t] = shown] /\ held' = [held EXCEPT ![t] = <<>>]
      /\ IF t \in blank THEN UNCHANGED <<cache, disk>> ELSE Save(s, list)
      /\ UNCHANGED <<active, archive, results, summary, before, blank, alone, crashes>>
  BY DEF BuildEnd
<1>2. /\ step' \in [Turn -> Steps] /\ Done \subseteq Done' /\ AloneStep
      /\ \A u, v \in Locked' : u = v
      /\ Done' = Done
  BY <1>1, TurnGoesOn
<1>3. s \in Sid /\ t \in Locked
  BY <1>1, SessionIds DEF Locked
<1>4. Sound(s, shown, Done') /\ Legal(shown) /\ shown \in Seq(Message)
  <2>1. Sound(s, held[t], Done') /\ Legal(held[t]) /\ held[t] \in Seq(Message)
    BY <1>2, SoundLater DEF IInv, ShownSound, TypeInv
  <2>2. CASE t \in blank
    <3>1. shown = held[t]
      BY <2>1, <2>2
    <3> QED
      BY <2>1, <3>1
  <2>3. CASE t \notin blank
    <3> DEFINE h == held[t]
    <3>1. shown = h \o <<User(t)>> /\ Sound(SidOf(t), h, Done') /\ Legal(h)
      BY <2>1, <2>3
    <3> HIDE DEF shown, h
    <3>2. Sound(SidOf(t), shown, Done') /\ Legal(shown)
      BY <3>1, OwnMessage
    <3>3. shown \in Seq(Message)
      BY <3>2 DEF Sound
    <3> QED
      BY <3>2, <3>3
  <2> QED
    BY <2>2, <2>3
<1> HIDE DEF shown
<1>5. /\ \A x \in Sid : FileStep(x)
      /\ cache' \in [Sid -> Seq(Message) \cup {None}] /\ disk' \in [Sid -> Seq(Message) \cup {None}]
  <2>1. CASE t \in blank
    BY <1>1, <2>1, QuietFiles DEF IInv, TypeInv
  <2>2. CASE t \notin blank
    <3> DEFINE h == Messages(s)
    <3>1. Sound(s, h, Done') /\ h \in Seq(Message)
      BY <1>2, <1>3, MessagesSound, SoundLater DEF IInv
    <3>2. list = h \o <<User(t)>>
      BY <3>1
    <3>3. h # <<>> => Last(h) \in ToSet(h)
      <4>1. h # <<>> => Len(h) \in 1 .. Len(h) /\ DOMAIN h = 1 .. Len(h)
        BY <3>1
      <4> QED
        BY <4>1 DEF Last, ToSet
    <3> HIDE DEF list, h
    <3>4. /\ Sound(s, list, Done')
          /\ ToSet(list) = ToSet(h) \cup {User(t)} /\ Speaker(User(t)) = t
      BY <3>1, <3>2, OwnMessage
    <3>5. NewList(s, list)
      BY <1>3, <3>3, <3>4 DEF NewList, h
    <3> QED
      BY <1>1, <1>3, <2>2, <3>5, SaveIsLegal
  <2> QED
    BY <2>1, <2>2
<1> HIDE DEF list
<1>6. held \in [Turn -> Seq(Message)] /\ window \in [Turn -> Seq(Message)]
  BY DEF IInv, TypeInv
<1>7. ASSUME NEW u \in Turn PROVE ShownStep(u)
  BY <1>1, <1>4, <1>6 DEF ShownStep, ListStep
<1>8. TypeInv'
  <2>1. <<>> \in Seq(Message)
    OBVIOUS
  <2>2. held' \in [Turn -> Seq(Message)] /\ window' \in [Turn -> Seq(Message)]
    BY <1>1, <1>4, <1>6, <2>1
  <2> QED
    BY <1>1, <1>2, <1>5, <2>2 DEF TypeInv, IInv
<1> QED
  BY <1>2, <1>5, <1>7, <1>8 DEF LegalStep

LEMMA SaveStartIsLegal ==
    ASSUME IInv, NEW t \in Turn, SaveStart(t)
    PROVE  LegalStep
<1> DEFINE s == SidOf(t)
           h == Messages(s)
<1>1. /\ step[t] = "running" /\ step' = [step EXCEPT ![t] = "saving"]
      /\ \E inc \in Trace[t] : IF inc = <<>> THEN Touch(s, h) ELSE Save(s, Persist(h, inc))
      /\ UNCHANGED <<active, held, window, archive, results, summary, before, blank, alone, crashes>>
  BY DEF SaveStart, Saved
<1>2. /\ step' \in [Turn -> Steps] /\ Done \subseteq Done' /\ AloneStep
      /\ \A u, v \in Locked' : u = v
      /\ Done' = Done \cup {t}
  BY <1>1, TurnGoesOn
<1>3. s \in Sid /\ t \in Locked /\ t \notin Done
  BY <1>1, SessionIds DEF Locked, Done
<1>4. Sound(s, h, Done) /\ Sound(s, h, Done') /\ h \in Seq(Message)
  BY <1>2, <1>3, MessagesSound, SoundLater DEF IInv
<1>5. h # <<>> => Last(h) \in ToSet(h)
  <2>1. h # <<>> => Len(h) \in 1 .. Len(h) /\ DOMAIN h = 1 .. Len(h)
    BY <1>4
  <2> QED
    BY <2>1 DEF Last, ToSet
<1>6. /\ \A x \in Sid : FileStep(x)
      /\ cache' \in [Sid -> Seq(Message) \cup {None}] /\ disk' \in [Sid -> Seq(Message) \cup {None}]
  <2>1. PICK inc \in Trace[t] : IF inc = <<>> THEN Touch(s, h) ELSE Save(s, Persist(h, inc))
    BY <1>1
  <2>2. CASE inc = <<>>
    <3>1. NewList(s, h)
      BY <1>4, <1>5 DEF NewList
    <3> QED
      BY <1>3, <2>1, <2>2, <3>1, TouchIsLegal
  <2>3. CASE inc # <<>>
    <3> DEFINE g == Persist(h, inc)
    <3>1. /\ Sound(s, g, Done \cup {t}) 
          /\ ToSet(h) \subseteq ToSet(g)
          /\ \A m \in ToSet(g) : m \in ToSet(h) \/ Speaker(m) = t \/ Speaker(m) \in Result
      <4>1. g = Persist(h, inc)
        OBVIOUS
      <4> HIDE DEF g, h
      <4> QED
        BY <1>3, <1>4, <4>1, SoundSaved
    <3>2. Save(s, g)
      BY <2>1, <2>3
    <3> HIDE DEF g
    <3>3. NewList(s, g)
      BY <1>2, <1>3, <1>5, <3>1 DEF NewList
    <3> QED
      BY <1>3, <3>2, <3>3, SaveIsLegal
  <2> QED
    BY <2>2, <2>3
<1>7. ASSUME NEW u \in Turn PROVE ShownStep(u)
  BY <1>1 DEF ShownStep, ListStep
<1>8. TypeInv'
  BY <1>1, <1>2, <1>6 DEF TypeInv, IInv
<1> QED
  BY <1>2, <1>6, <1>7, <1>8 DEF LegalStep

LEMMA LeaveIsLegal ==
    ASSUME IInv, NEW t \in Turn, step[t] \in {"waiting", "building", "running", "saving"}, Leave(t),
           UNCHANGED <<archive, results, summary, before, blank, alone, crashes>>
    PROVE  LegalStep
<1>1. /\ step' = [step EXCEPT ![t] = "over"] /\ active' = None
      /\ held' = [held EXCEPT ![t] = <<>>] /\ window' = [window EXCEPT ![t] = <<>>]
      /\ IF t \in Fresh /\ step[t] = "saving" THEN Delete(t) ELSE UNCHANGED <<cache, disk>>
  BY DEF Leave
<1>2. TypeInv /\ step \in [Turn -> Steps]
  BY DEF IInv, TypeInv
<1>3. Done' = Done \cup {t} /\ Locked' \subseteq Locked /\ Live' = Live \ {t} /\ t \in Live
  BY <1>1, <1>2 DEF Done, Locked, Live
<1>4. AloneStep
  <2>1. before \subseteq Turn /\ (alone => Live \subseteq {active} /\ \A u \in before : step[u] = "over")
    BY <1>2 DEF TypeInv, IInv, AloneClean
  <2>2. ASSUME alone, NEW u \in before PROVE step'[u] = "over"
    BY <1>1, <1>2, <2>1, <2>2
  <2>3. alone => Live' = {}
    BY <1>3, <2>1
  <2> QED
    BY <2>2, <2>3 DEF AloneStep
<1>5. /\ \A x \in Sid : FileStep(x)
      /\ cache' \in [Sid -> Seq(Message) \cup {None}] /\ disk' \in [Sid -> Seq(Message) \cup {None}]
  <2>1. cache \in [Sid -> Seq(Message) \cup {None}] /\ disk \in [Sid -> Seq(Message) \cup {None}]
    BY <1>2 DEF TypeInv
  <2>2. CASE t \in Fresh /\ step[t] = "saving"
    <3>1. cache' = [cache EXCEPT ![t] = None] /\ disk' = [disk EXCEPT ![t] = None] /\ t \in Sid
      BY <1>1, <2>2 DEF Delete, Sid
    <3>2. ASSUME NEW x \in Sid PROVE Deletes(x) \/ Same(x)
      BY <2>1, <2>2, <3>1 DEF Deletes, Same
    <3> QED
      BY <2>1, <3>1, <3>2 DEF FileStep
  <2>3. CASE ~(t \in Fresh /\ step[t] = "saving")
    BY <1>1, <2>1, <2>3, QuietFiles
  <2> QED
    BY <2>2, <2>3
<1>6. held \in [Turn -> Seq(Message)] /\ window \in [Turn -> Seq(Message)] /\ <<>> \in Seq(Message)
  BY <1>2 DEF TypeInv
<1>7. ASSUME NEW u \in Turn PROVE ShownStep(u)
  BY <1>1, <1>6 DEF ShownStep, ListStep
<1>8. TypeInv'
  <2>1. held' \in [Turn -> Seq(Message)] /\ window' \in [Turn -> Seq(Message)]
    BY <1>1, <1>6
  <2>2. step' \in [Turn -> Steps]
    BY <1>1, <1>2 DEF Steps
  <2> QED
    BY <1>1, <1>2, <1>3, <1>5, <2>1, <2>2 DEF TypeInv
<1> QED
  BY <1>3, <1>4, <1>5, <1>7, <1>8 DEF LegalStep

LEMMA EndsAreLegal ==
    ASSUME IInv, NEW t \in Turn, SaveEnd(t) \/ Fail(t) \/ Stop(t)
    PROVE  LegalStep
<1>1. step[t] \in {"waiting", "building", "running", "saving"}
  BY DEF SaveEnd, Fail, Stop
<1>2. Leave(t) /\ UNCHANGED <<archive, results, summary, before, blank, alone, crashes>>
  BY DEF SaveEnd, Fail, Stop
<1> QED
  BY <1>1, <1>2, LeaveIsLegal

LEMMA FlushIsLegal ==
    ASSUME IInv, Flush
    PROVE  LegalStep
<1>1. /\ disk' = [s \in Sid |-> IF cache[s] # None THEN cache[s] ELSE disk[s]]
      /\ cache' = [s \in Sid |-> None]
      /\ UNCHANGED <<turnVars, archive, results, summary, before, blank, alone, crashes>>
  BY DEF Flush
<1>2. \A s \in Sid : FileStep(s)
  BY <1>1 DEF FileStep, Flushes
<1>3. TypeInv'
  BY <1>1, QuietTurns DEF TypeInv, IInv, turnVars
<1> QED
  BY <1>1, <1>2, <1>3, QuietTurns DEF LegalStep

LEMMA LostIsLegal ==
    ASSUME IInv, Lost, archive' \in [Chat -> Seq(0 .. MaxArchives - 1)]
    PROVE  LegalStep
<1>1. /\ crashes < MaxCrashes /\ crashes' = crashes + 1 /\ active' = None /\ results' = <<>>
      /\ step' = [t \in Turn |-> IF t \in Live THEN "over" ELSE step[t]]
      /\ cache' = [s \in Sid |-> None]
      /\ held' = [t \in Turn |-> <<>>] /\ window' = [t \in Turn |-> <<>>]
      /\ UNCHANGED <<disk, summary, before, blank, alone>>
  BY DEF Lost
<1>2. TypeInv /\ step \in [Turn -> Steps] /\ before \subseteq Turn
  BY DEF IInv, TypeInv
<1>3. Locked' = {} /\ Live' = {} /\ Done \subseteq Done' /\ step' \in [Turn -> Steps]
  BY <1>1, <1>2 DEF Locked, Live, Done, Steps
<1>4. AloneStep
  BY <1>1, <1>2, <1>3 DEF AloneStep, IInv, AloneClean
<1>5. \A s \in Sid : FileStep(s)
  BY <1>1 DEF FileStep, Drops
<1>6. \A t \in Turn : ShownStep(t)
  BY <1>1 DEF ShownStep, ListStep
<1>7. TypeInv'
  <2>1. crashes' \in 0 .. MaxCrashes /\ results' \in Seq(Result)
    BY <1>1, <1>2, HistoryAssumption DEF TypeInv
  <2>2. held' \in [Turn -> Seq(Message)] /\ window' \in [Turn -> Seq(Message)]
    BY <1>1
  <2> QED
    BY <1>1, <1>2, <1>3, <2>1, <2>2 DEF TypeInv
<1> QED
  BY <1>3, <1>4, <1>5, <1>6, <1>7 DEF LegalStep

LEMMA CrashesAreLegal ==
    ASSUME IInv, Crash \/ \E t \in Turn, n \in Keep : CrashInConsolidate(t, n)
    PROVE  LegalStep
<1>1. CASE Crash
  BY <1>1, LostIsLegal DEF Crash, IInv, TypeInv
<1>2. ASSUME NEW t \in Turn, NEW n \in Keep, CrashInConsolidate(t, n) PROVE LegalStep
  <2>1. /\ Lost /\ Len(archive[chat[t]]) < MaxArchives /\ chat[t] \in Chat
        /\ archive' = [archive EXCEPT ![chat[t]] = Append(@, ArchiveIndex(chat[t]))]
    BY <1>2, SessionIds DEF CrashInConsolidate
  <2> QED
    BY <2>1, ArchiveGrows, LostIsLegal
<1> QED
  BY <1>1, <1>2

(* /new cancels at most the active turn; for a user whose messages never   *)
(* overlapped that is every live turn.                                     *)
LEMMA NewIsLegal ==
    ASSUME IInv, NEW c \in Chat, New(c)
    PROVE  LegalStep
<1> DEFINE gone == {s \in ToCancel \cap Fresh : step[s] = "saving"}
           met == {t \in Turn : step[t] \notin {"idle", "waiting"} /\ chat[t] = c}
<1>1. /\ step' = [t \in Turn |-> IF t \in ToCancel THEN "over" ELSE step[t]]
      /\ active' = IF ToCancel = {} THEN active ELSE None
      /\ window' = [t \in Turn |-> IF t \in ToCancel THEN <<>> ELSE window[t]]
      /\ UNCHANGED <<archive, results, blank, alone, crashes>>
  BY DEF New
<1>2. TypeInv /\ step \in [Turn -> Steps] /\ before \subseteq Turn /\ ToCancel = {t \in Live : active = t}
  BY DEF IInv, TypeInv, ToCancel
<1>3. /\ step' \in [Turn -> Steps] /\ Done \subseteq Done' /\ Locked' \subseteq Locked
      /\ Live' = Live \ ToCancel
  BY <1>1, <1>2 DEF Done, Locked, Live, Steps
<1>4. c \in Sid /\ c \notin gone /\ gone \subseteq Fresh /\ c \notin Fresh
  BY HistoryAssumption DEF Sid
<1>5. CASE RawIsKey
  <2>1. /\ cache' = [s \in Sid |-> IF s \in gone \cup {c} THEN None ELSE cache[s]]
        /\ disk' = [s \in Sid |-> IF s \in gone THEN None ELSE IF s = c THEN <<>> ELSE disk[s]]
        /\ held' = [t \in Turn |-> IF t \in ToCancel \/ (SidOf(t) = c /\ cache[c] # None)
                                     THEN <<>> ELSE held[t]]
        /\ summary' = [summary EXCEPT ![c] = None]
        /\ before' = before \cup met
    BY <1>5 DEF New
  <2>2. Empties(c)
    BY <1>4, <2>1 DEF Empties
  <2>3. ASSUME NEW s \in Sid PROVE FileStep(s)
    <3>1. CASE s \in gone
      BY <1>4, <2>1, <3>1 DEF FileStep, Deletes
    <3>2. CASE s = c
      BY <2>2, <3>2 DEF FileStep
    <3>3. CASE s \notin gone /\ s # c
      BY <2>1, <3>3 DEF FileStep, Same
    <3> QED
      BY <3>1, <3>2, <3>3
  <2>4. AloneStep
    <3>1. ASSUME alone PROVE Live' = {} /\ \A t \in before' : step'[t] = "over"
      <4>1. Live \subseteq {active} /\ \A t \in before : step[t] = "over"
        BY <3>1 DEF IInv, AloneClean
      <4>2. ToCancel = Live
        BY <1>2, <4>1
      <4>3. ASSUME NEW t \in met PROVE t \in Live \/ step[t] = "over"
        BY <1>2 DEF Live, Locked, Steps
      <4> QED
        BY <1>1, <1>2, <1>3, <2>1, <4>1, <4>2, <4>3
    <3>2. \A t \in before' : t \in before \/ Empties(chat[t])
      BY <2>1, <2>2
    <3> QED
      BY <1>1, <3>1, <3>2 DEF AloneStep
  <2>5. \A t \in Turn : ShownStep(t)
    BY <1>1, <2>1 DEF ShownStep, ListStep
  <2>6. TypeInv'
    <3>1. <<>> \in Seq(Message)
      OBVIOUS
    <3>2. cache' \in [Sid -> Seq(Message) \cup {None}] /\ disk' \in [Sid -> Seq(Message) \cup {None}]
      BY <1>2, <2>1, <3>1 DEF TypeInv
    <3>3. held' \in [Turn -> Seq(Message)] /\ window' \in [Turn -> Seq(Message)]
      BY <1>1, <1>2, <2>1, <3>1 DEF TypeInv
    <3>4. summary' \in [Chat -> 0 .. MaxArchives - 1 \cup {None}] /\ before' \subseteq Turn
      BY <1>2, <2>1 DEF TypeInv
    <3> QED
      BY <1>1, <1>2, <1>3, <3>2, <3>3, <3>4 DEF TypeInv
  <2> QED
    BY <1>3, <2>3, <2>4, <2>5, <2>6 DEF LegalStep
<1>6. CASE ~RawIsKey
  <2>1. /\ cache' = [s \in Sid |-> IF s \in gone THEN None ELSE cache[s]]
        /\ disk' = [s \in Sid |-> IF s \in gone THEN None ELSE disk[s]]
        /\ held' = [t \in Turn |-> IF t \in ToCancel THEN <<>> ELSE held[t]]
        /\ UNCHANGED <<summary, before>>
    BY <1>6 DEF New
  <2>2. ASSUME NEW s \in Sid PROVE FileStep(s)
    BY <1>4, <2>1 DEF FileStep, Deletes, Same
  <2>3. AloneStep
    <3>1. ASSUME alone PROVE Live' = {} /\ \A t \in before' : step'[t] = "over"
      <4>1. Live \subseteq {active} /\ \A t \in before : step[t] = "over"
        BY <3>1 DEF IInv, AloneClean
      <4> QED
        BY <1>1, <1>2, <1>3, <2>1, <4>1
    <3> QED
      BY <1>1, <2>1, <3>1 DEF AloneStep
  <2>4. \A t \in Turn : ShownStep(t)
    BY <1>1, <2>1 DEF ShownStep, ListStep
  <2>5. TypeInv'
    <3>1. <<>> \in Seq(Message)
      OBVIOUS
    <3>2. cache' \in [Sid -> Seq(Message) \cup {None}] /\ disk' \in [Sid -> Seq(Message) \cup {None}]
      BY <1>2, <2>1 DEF TypeInv
    <3>3. held' \in [Turn -> Seq(Message)] /\ window' \in [Turn -> Seq(Message)]
      BY <1>1, <1>2, <2>1, <3>1 DEF TypeInv
    <3> QED
      BY <1>1, <1>2, <1>3, <2>1, <3>2, <3>3 DEF TypeInv
  <2> QED
    BY <1>3, <2>2, <2>3, <2>4, <2>5 DEF LegalStep
<1> QED
  BY <1>5, <1>6

(* At the start nothing is stored.                                         *)
LEMMA InitInv == Init => IInv
<1> SUFFICES ASSUME Init PROVE IInv
  OBVIOUS
<1>1. Locked = {} /\ Live = {}
  BY DEF Init, Locked, Live
<1>2. TypeInv
  <2>1. <<>> \in Seq(Message) /\ <<>> \in Seq(Result) /\ <<>> \in Seq(0 .. MaxArchives - 1)
    OBVIOUS
  <2> QED
    BY <1>1, <2>1, HistoryAssumption DEF Init, TypeInv, Steps
<1>3. FilesSound /\ DiskHasAll
  BY DEF Init, FilesSound, DiskHasAll
<1>4. ShownSound
  BY EmptyIsSound DEF Init, ShownSound
<1>5. AloneClean
  BY <1>1 DEF Init, AloneClean, Sid
<1> QED
  BY <1>2, <1>3, <1>4, <1>5 DEF IInv

(* Every action is a legal step.                                           *)
LEMMA StepIsLegal == IInv /\ [Next]_vars => LegalStep
<1> SUFFICES ASSUME IInv, [Next]_vars PROVE LegalStep
  OBVIOUS
<1>1. ASSUME NEW t \in Turn, Arrive(t) PROVE LegalStep
  BY <1>1, ArriveIsLegal
<1>2. ASSUME NEW t \in Turn, BuildStart(t) PROVE LegalStep
  BY <1>2, BuildStartIsLegal
<1>3. ASSUME NEW t \in Turn, BuildEnd(t) PROVE LegalStep
  BY <1>3, BuildEndIsLegal
<1>4. ASSUME NEW t \in Turn, SaveStart(t) PROVE LegalStep
  BY <1>4, SaveStartIsLegal
<1>5. ASSUME NEW t \in Turn, SaveEnd(t) \/ Fail(t) \/ Stop(t) PROVE LegalStep
  BY <1>5, EndsAreLegal
<1>6. ASSUME NEW t \in Turn, NEW n \in Keep, TrimHistory(t, n) PROVE LegalStep
  BY <1>6, TrimIsLegal
<1>7. ASSUME NEW t \in Turn, NEW n \in Keep, ConsolidateHistory(t, n) PROVE LegalStep
  BY <1>7, ConsolidateIsLegal
<1>8. ASSUME NEW r \in Result, Announce(r) PROVE LegalStep
  BY <1>8, AnnounceIsLegal
<1>9. ASSUME NEW c \in Chat, New(c) PROVE LegalStep
  BY <1>9, NewIsLegal
<1>10. CASE Flush
  BY <1>10, FlushIsLegal
<1>11. CASE Crash \/ \E t \in Turn, n \in Keep : CrashInConsolidate(t, n)
  BY <1>11, CrashesAreLegal
<1>12. CASE UNCHANGED vars
  BY <1>12, NothingHappens
<1> QED
  BY <1>1, <1>2, <1>3, <1>4, <1>5, <1>6, <1>7, <1>8, <1>9, <1>10, <1>11, <1>12 DEF Next

(* Every stored list is sound, in all reachable states: each answer of the  *)
(* model has its calls and their results, wherever a step may cut next.     *)
THEOREM HistorySound == Spec => []IInv
<1>1. IInv /\ [Next]_vars => IInv'
  BY StepIsLegal, LegalStepKeeps
<1> QED
  BY <1>1, InitInv, PTL DEF Spec

-----------------------------------------------------------------------------
(* What the invariant says of the properties of the runs.                   *)
LEMMA SpeakerIs ==
    ASSUME NEW m \in Message
    PROVE  /\ m.role \in {"user", "system", "assistant", "tool"}
           /\ m.role = "user" => Speaker(m) = m.text /\ m.text \in Turn \cup Result
           /\ m.role = "assistant" => Speaker(m) = m.text /\ m.text \in Turn
           /\ m.role = "tool" => Speaker(m) = m.id[1] /\ m.id[1] \in Turn
<1>1. ASSUME m.role = "tool" PROVE m.id \in CallId
  BY <1>1 DEF Message
<1>2. \A c \in CallId : c[1] \in Turn
  BY DEF CallId
<1> QED
  BY <1>1, <1>2 DEF Message, Speaker

(* A message of a session that is not a summary is of a turn of that        *)
(* session, or the result of a subagent.                                   *)
LEMMA SpeakerPlaced ==
    ASSUME NEW s, NEW D, NEW h, Sound(s, h, D), NEW m \in ToSet(h)
    PROVE  /\ m.role = "system" => s \in Chat
           /\ m.role # "system" => Speaker(m) \in Result \/ (Speaker(m) \in Turn /\ SidOf(Speaker(m)) = s)
<1>1. m \in Message /\ Placed(s, m, D)
  BY DEF Sound, ToSet
<1> QED
  BY <1>1, SpeakerIs DEF Placed

(* The lock is held by one turn at most.                                   *)
LEMMA OneHolder ==
    ASSUME \A t, u \in Locked : t = u
    PROVE  Cardinality(Locked) <= 1
<1>1. CASE Locked = {}
  BY <1>1, FS_EmptySet
<1>2. CASE Locked # {}
  <2>1. PICK t \in Locked : Locked = {t}
    BY <1>2
  <2>2. Cardinality({t}) = 1
    BY FS_Singleton
  <2>3. Cardinality(Locked) = 1
    BY <2>1, <2>2
  <2> QED
    BY <2>3
<1> QED
  BY <1>1, <1>2

LEMMA TypesHold == IInv => TypeOK
<1> SUFFICES ASSUME IInv PROVE TypeOK
  OBVIOUS
<1>1. TypeInv
  BY DEF IInv
<1>2. \A s \in Sid : \A m \in ToSet(Messages(s)) : m.role = "system" \/ Speaker(m) \in Turn \cup Result
  BY MessagesSound, SpeakerPlaced DEF IInv
<1>3. ASSUME NEW S, NEW q \in Seq(S) PROVE ToSet(q) \subseteq S
  BY DEF ToSet
<1>4. \A c \in Chat : ToSet(archive[c]) \subseteq 0 .. MaxArchives - 1
  BY <1>1, <1>3 DEF TypeInv
<1>5. ToSet(results) \subseteq Result
  BY <1>1, <1>3 DEF TypeInv
<1>6. Cardinality(Locked) <= 1
  BY <1>1, OneHolder DEF TypeInv
<1> QED
  BY <1>1, <1>2, <1>4, <1>5, <1>6 DEF TypeInv, TypeOK

(* The audit of a sound list finds at most what a cut left at its head.     *)
LEMMA AuditIs ==
    ASSUME NEW h \in Seq(Message), Whole(h)
    PROVE  /\ Dangling(h) = {} /\ Repeats(h) = {}
           /\ \A i \in Orphans(h) : \A j \in 1 .. i : h[j].role \in {"system", "tool"}
           /\ Legal(h) => Orphans(h) = {}
<1>1. DOMAIN h = 1 .. Len(h) /\ Len(h) \in Nat
  OBVIOUS
<1>2. ASSUME NEW i \in 1 .. Len(h), h[i].role = "assistant"
      PROVE  ToSet(h[i].calls) \subseteq Fulfilled(From(h, i + 1))
  <2>1. Full(h, i) /\ Len(h[i].calls) \in Nat
    BY <1>2, CallsAreList DEF Whole, AllFull
  <2>2. i + 1 \in 1 .. Len(h) + 1 /\ Len(h) \in (i + 1) - 1 .. Len(h)
    BY <1>1
  <2>3. \A c : c \in Fulfilled(From(h, i + 1)) <=> \E j \in i + 1 .. Len(h) : Gives(h, j, c)
    BY <2>2, FulfilledIn DEF From
  <2>4. i + 1 .. i + Len(h[i].calls) \subseteq i + 1 .. Len(h)
    BY <1>1, <2>1 DEF Full
  <2> QED
    BY <2>1, <2>3, <2>4 DEF Full
<1>3. Dangling(h) = {}
  BY <1>1, <1>2 DEF Dangling
<1>4. ASSUME NEW i \in 1 .. Len(h), h[i].role = "tool", h[i].id \in Fulfilled(Upto(h, i - 1))
      PROVE  FALSE
  <2>1. 1 \in 1 .. Len(h) + 1 /\ i - 1 \in 1 - 1 .. Len(h)
    BY <1>1
  <2>2. PICK j \in 1 .. i - 1 : Gives(h, j, h[i].id)
    BY <1>4, <2>1, FulfilledIn DEF Upto
  <2> QED
    BY <1>1, <1>4, <2>2 DEF Whole, Once, Gives
<1>5. Repeats(h) = {}
  BY <1>1, <1>4 DEF Repeats
<1>6. \A i \in Orphans(h) : \A j \in 1 .. i : h[j].role \in {"system", "tool"}
  BY OrphansAre DEF Whole, Bare
<1>7. Legal(h) => Orphans(h) = {}
  BY OrphansAre DEF Legal
<1> QED
  BY <1>3, <1>5, <1>6, <1>7

(* The audit of a stored list.                                             *)
LEMMA FilesAudited == IInv => FileAudited
<1> SUFFICES ASSUME IInv, NEW s \in Sid, NEW h, h = Stored(s)
             PROVE  /\ [AuditViolations(h) EXCEPT !.orphan = {}] = Clean
                    /\ \A i \in AuditViolations(h).orphan : \A j \in 1 .. i : h[j].role \in {"system", "tool"}
                    /\ AuditViolations(DropHead(h)) = Clean
  BY DEF FileAudited
<1>1. Sound(s, h, Done)
  BY EmptyIsSound DEF IInv, FilesSound, Stored
<1>2. h \in Seq(Message) /\ Whole(h)
  BY <1>1 DEF Sound
<1>3. /\ Dangling(h) = {} /\ Repeats(h) = {}
      /\ \A i \in Orphans(h) : \A j \in 1 .. i : h[j].role \in {"system", "tool"}
  BY <1>2, AuditIs
<1> DEFINE t == DropHead(h)
<1>4. t \in Seq(Message) /\ Whole(t) /\ Legal(t)
  <2>1. Sound(s, t, Done) /\ Legal(t)
    BY <1>1, SoundDropHead
  <2> QED
    BY <2>1 DEF Sound
<1> HIDE DEF t
<1>5. Dangling(t) = {} /\ Repeats(t) = {} /\ Orphans(t) = {}
  BY <1>4, AuditIs
<1>6. AuditViolations(t) = Clean
  BY <1>5 DEF AuditViolations, Clean
<1>7. [AuditViolations(h) EXCEPT !.orphan = {}] = Clean /\ AuditViolations(h).orphan = Orphans(h)
  BY <1>3 DEF AuditViolations, Clean
<1> QED
  BY <1>3, <1>6, <1>7 DEF t

(* A message of a cron turn stands in its own session only.                *)
LEMMA FreshStaysApart == IInv => FreshApart
<1> SUFFICES ASSUME IInv PROVE FreshApart
  OBVIOUS
<1>1. ASSUME NEW t \in Fresh, NEW m \in ToSet(window[t]) PROVE Speaker(m) \in {t} \cup Result
  <2>1. t \in Turn /\ t \notin Chat /\ SidOf(t) = t
    BY HistoryAssumption DEF SidOf
  <2>2. Sound(t, window[t], Done)
    BY <2>1 DEF IInv, ShownSound
  <2>3. Speaker(m) \in Result \/ (Speaker(m) \in Turn /\ SidOf(Speaker(m)) = t)
    BY <1>1, <2>1, <2>2, SpeakerPlaced
  <2> QED
    BY <2>1, <2>3, HistoryAssumption DEF SidOf
<1>2. ASSUME NEW c \in Chat, NEW m \in ToSet(Messages(c)), m.role # "system" PROVE Speaker(m) \notin Fresh
  <2>1. c \in Sid /\ c \notin Turn
    BY HistoryAssumption DEF Sid
  <2>2. Sound(c, Messages(c), Done)
    BY <2>1, MessagesSound DEF IInv
  <2>3. Speaker(m) \in Result \/ (Speaker(m) \in Turn /\ SidOf(Speaker(m)) = c)
    BY <1>2, <2>2, SpeakerPlaced
  <2> QED
    BY <2>1, <2>3, HistoryAssumption DEF SidOf
<1> QED
  BY <1>1, <1>2 DEF FreshApart

(* The invariant says all that HistoryLegal promises.                      *)
LEMMA InvariantIsLegal == IInv => HistoryLegal
<1> SUFFICES ASSUME IInv PROVE HistoryLegal
  OBVIOUS
<1>1. ASSUME NEW t \in Turn PROVE LegalChat(window[t])
  BY LegalIs, MessagesTalk DEF IInv, ShownSound, Sound
<1> QED
  BY <1>1, TypesHold, FilesAudited, FreshStaysApart DEF HistoryLegal, WindowLegal

(* What the model is shown is legal for a provider, wherever the valve, a   *)
(* trim or a consolidation cut the history before; the audit of a session   *)
(* file finds at most the results a cut left at its head; and a cron turn   *)
(* and its chat do not see each other.                                     *)
THEOREM HistoryStaysLegal == Spec => []HistoryLegal
<1> QED
  BY HistorySound, InvariantIsLegal, PTL

(* A chat that /new has reset holds nothing of the turns before it, for a   *)
(* user whose messages never overlapped.                                   *)
THEOREM ResetStaysClean == Spec => []ResetIsCleanAlone
<1>1. IInv => ResetIsCleanAlone
  <2> SUFFICES ASSUME IInv, alone, NEW c \in Chat, NEW m \in ToSet(Messages(c)), m.role # "system"
               PROVE  Speaker(m) \notin {t \in before : chat[t] = c}
    BY DEF ResetIsCleanAlone, ResetIsClean
  <2>1. ToSet(<<>>) = {}
    BY DEF ToSet
  <2> QED
    BY <2>1 DEF IInv, AloneClean, CleanOf, Messages
<1> QED
  BY <1>1, HistorySound, PTL

(* A cached message is in the file too, unless it is a result that no turn  *)
(* has saved; and the newest message of a chat survives every step but /new. *)
THEOREM WhatIsStoredIsKept == Spec => StoredIsKept
<1>1. IInv /\ [Next]_vars => [DiskHasAll' /\ LatestSurvives]_vars
  BY StepIsLegal, LegalStepSaves
<1> QED
  BY <1>1, HistorySound, PTL DEF Spec, StoredIsKept
==============================================================================
