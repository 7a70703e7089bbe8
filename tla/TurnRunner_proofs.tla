-------------------------- MODULE TurnRunner_proofs --------------------------
(***************************************************************************)
(* Proofs about TurnRunner, for every set of lists a turn may start with    *)
(* and every value of the limits: the list is legal whenever the model is  *)
(* asked, however much of it fits into the window; what is injected is     *)
(* heard, and once; and every file is attached, and once.                  *)
(***************************************************************************)
EXTENDS TurnRunner, ChatHistory_proofs

(* The messages of a run: those it starts with, and its own.                *)
Input == Injected \cup {Question} \cup UNION {Inputs(h) : h \in History}
Word == {"text", "partial", "reply", "error text", "notice", "limit", "result"}
Earlier == UNION {ToSet(h) : h \in History}
Asking == [role : {"user"}, text : SUBSET Input]
Answering == [role : {"assistant"}, text : Word, calls : Seq(Call)]
Resulting == [role : {"tool"}, id : Call, text : Word]
Message == Earlier \cup {System({"prompt"})} \cup Asking \cup Answering \cup Resulting

(* The list keeps its head: system messages, and the question at place n.  *)
HeadedBy(h, p) == \A i \in 1 .. Len(h) : h[i].role = "system" <=> i <= p
Anchored(h, n) == 
    /\ h \in Seq(Message) /\ n \in 2 .. Len(h) /\ h[n].role = "user"
    /\ \E p \in 1 .. n - 1 : HeadedBy(h, p)

(* Calls behind the question are those of the iterations before k.          *)
CallsBefore(h, n, k) == 
    \A a \in 1 .. Len(h) : h[a].role = "assistant" => 
      \A c \in ToSet(h[a].calls) : IF a <= n THEN c[1] >= MaxIterations ELSE c \in OwnCall /\ c[1] < k

(* While calls are executed the list ends with the message that makes them, *)
(* and they are its calls, each once.                                       *)
Batch(h, p, b) == 
    LET calls == h[Len(h)].calls
    IN  /\ p \in Seq(OwnCall) /\ b \in Seq(OwnCall)
        /\ IsInjective(p \o b) /\ ToSet(p \o b) = ToSet(calls) /\ Len(p \o b) = Len(calls)
Executing(h, n, k, p, b) == 
    /\ Len(h) > n /\ h[Len(h)].role = "assistant"
    /\ Legal(Front(h)) /\ CallsBefore(Front(h), n, k)
    /\ \A c \in ToSet(h[Len(h)].calls) : c \in OwnCall /\ c[1] = k
    /\ Batch(h, p, b)

Working == phase \in {"tools", "salvage"}
Waiting == phase \in {"model", "finalize", "failing"}
Listed == 
    /\ Anchored(messages, initial) 
    /\ Waiting => /\ Legal(messages) /\ CallsBefore(messages, initial, iteration)
                  /\ pending = <<>> /\ broken = <<>>
    /\ Working => /\ Executing(messages, initial, iteration, pending, broken)
                  /\ phase = "tools" => broken = <<>>
    /\ phase = "done" => /\ CallsBefore(messages, initial, MaxIterations)
                         /\ Regular /\ error # "tool" => Legal(messages)

(* Who holds an input: nobody before it is taken from the queue, and then   *)
(* one message.                                                            *)
Holders(h, m) == {i \in 1 .. Len(h) : h[i].role = "user" /\ m \in h[i].text}
Held(h, m) == \E i \in 1 .. Len(h) : Holders(h, m) = {i}
SameHolders(g, h) == \A m : Holders(g, m) = Holders(h, m)
Holding(h, t) == 
    /\ \A m \in t \cup {Question} : Held(h, m)
    /\ \A m \in Injected \ t : Holders(h, m) = {}
Heard == 
    /\ Holding(messages, taken)
    /\ phase = "model" => taken \subseteq seen \cup Newest.text
    /\ phase \notin {"model", "done"} => taken \subseteq seen
    /\ phase # "done" => final = None
    /\ InjectedSeen /\ ReplyRecorded

(* The counters, the queue and the outcome.                                *)
Outcomes == 
    /\ error \in {None, "tool", "llm", "empty", "notice", "partial", "program"}
    /\ final \in {None, "reply", "error text", "notice", "limit", "partial"}
    /\ exit \in {None, "completed", "max_iterations", "cancelled"}
Counted == 
    /\ caller \in Caller /\ caller \in {"turn", "subagent"} 
    /\ phase \in {"model", "tools", "salvage", "finalize", "failing", "done"}
    /\ iteration \in 0 .. MaxIterations /\ cycles \in 0 .. MaxInjectionCycles
    /\ empties \in 0 .. MaxIterations /\ recoveries \in 0 .. MaxLengthRecoveries + 1
    /\ phase \notin {"model", "done"} => iteration < MaxIterations
    /\ phase \in {"model", "tools", "salvage"} => empties <= iteration
    /\ phase \in {"finalize", "failing"} => empties <= iteration + 1
    /\ phase # "done" => recoveries <= MaxLengthRecoveries
Queued == 
    /\ queue \in Seq(Injected) /\ IsInjective(queue) 
    /\ taken \subseteq Injected /\ ToSet(queue) \subseteq Injected \ taken
    /\ caller = "subagent" => queue = <<>> /\ taken = {}

IInv == Outcomes /\ Counted /\ Queued /\ Listed /\ Heard

-----------------------------------------------------------------------------
(* The messages.                                                           *)
LEMMA MessageIs ==
    ASSUME NEW m \in Message
    PROVE  /\ m.role \in {"user", "system", "assistant", "tool"}
           /\ m.role = "user" => m.text \subseteq Input
           /\ m.role = "assistant" => m.calls \in Seq(Call)
<1>1. CASE m \in Earlier
  <2>1. PICK h \in History : m \in ToSet(h)
    BY <1>1 DEF Earlier
  <2>2. Opening(h)
    BY StartAssumption
  <2>3. PICK i \in DOMAIN h : m = h[i]
    BY <2>1 DEF ToSet
  <2>4. m.role = "user" => m.text \subseteq Inputs(h)
    BY <2>3 DEF Inputs
  <2> QED
    BY <2>2, <2>3, <2>4 DEF Opening, Input
<1>2. CASE m = System({"prompt"})
  BY <1>2 DEF System
<1>3. CASE m \in Asking
  BY <1>3 DEF Asking
<1>4. CASE m \in Answering
  BY <1>4 DEF Answering
<1>5. CASE m \in Resulting
  BY <1>5 DEF Resulting
<1>6. m \in Earlier \/ m = System({"prompt"}) \/ m \in Asking \/ m \in Answering \/ m \in Resulting
  BY DEF Message
<1> QED
  BY <1>1, <1>2, <1>3, <1>4, <1>5, <1>6

LEMMA MessagesTalk == Talk(Message)
<1> SUFFICES ASSUME NEW m \in Message, m.role = "assistant" PROVE m.calls \in Seq(ToSet(m.calls))
  BY DEF Talk
<1>1. m.calls \in Seq(Call)
  BY MessageIs
<1> QED
  BY <1>1, ListOfItsOwn

LEMMA UserIs ==
    ASSUME NEW t, t \subseteq Input
    PROVE  User(t) \in Message /\ User(t).role = "user" /\ User(t).text = t
<1>1. User(t) \in Asking
  BY DEF User, Asking
<1>2. User(t) \in Message
  BY <1>1 DEF Message
<1> QED
  BY <1>2 DEF User

LEMMA AnswerIs ==
    ASSUME NEW t \in Word, NEW cs \in Seq(Call)
    PROVE  /\ Assistant(t, cs) \in Message /\ Assistant(t, cs).role = "assistant" 
           /\ Assistant(t, cs).calls = cs
<1>1. Assistant(t, cs) \in Answering
  BY DEF Assistant, Answering
<1>2. Assistant(t, cs) \in Message
  BY <1>1 DEF Message
<1> QED
  BY <1>2 DEF Assistant

LEMMA ReplyIs ==
    ASSUME NEW t \in Word
    PROVE  /\ Reply(t) \in Message /\ Reply(t).role = "assistant" /\ Reply(t).calls = <<>>
<1>1. <<>> \in Seq(Call)
  OBVIOUS
<1> QED
  BY <1>1, AnswerIs DEF Reply

LEMMA ResultIs ==
    ASSUME NEW c \in Call, NEW t \in Word
    PROVE  Tool(c, t) \in Message /\ Tool(c, t).role = "tool" /\ Tool(c, t).id = c
<1>1. Tool(c, t) \in Resulting
  BY DEF Tool, Resulting
<1>2. Tool(c, t) \in Message
  BY <1>1 DEF Message
<1> QED
  BY <1>2 DEF Tool

LEMMA OwnCallIs == OwnCall \subseteq Call
<1>. MaxIterations \in Nat /\ MaxCalls \in Nat
  BY RunnerAssumption
<1>1. 0 .. MaxIterations - 1 \subseteq Nat /\ 1 .. MaxCalls \subseteq Nat
  OBVIOUS
<1> QED
  BY <1>1 DEF OwnCall, Call

-----------------------------------------------------------------------------
(* What the steps make of a list.                                          *)
LEMMA FrontIs ==
    ASSUME NEW S, NEW h \in Seq(S), h # <<>>
    PROVE  /\ Front(h) \in Seq(S) /\ Len(h) = Len(Front(h)) + 1 /\ Len(h) \in Nat \ {0} /\ Len(Front(h)) \in Nat
           /\ \A i \in 1 .. Len(Front(h)) : Front(h)[i] = h[i]
           /\ Last(h) = h[Len(h)] /\ h[Len(h)] \in S
<1>1. Len(h) \in Nat \ {0}
  OBVIOUS
<1>2. 1 \in 1 .. Len(h) + 1 /\ Len(h) - 1 \in 1 - 1 .. Len(h) /\ Len(h) \in 1 .. Len(h)
  BY <1>1
<1>3. Front(h) = SubSeq(h, 1, Len(h) - 1) /\ Last(h) = h[Len(h)]
  BY DEF Front, Last
<1>4. /\ SubSeq(h, 1, Len(h) - 1) \in Seq(S) /\ Len(SubSeq(h, 1, Len(h) - 1)) = (Len(h) - 1) - 1 + 1
      /\ \A j \in 1 .. (Len(h) - 1) - 1 + 1 : SubSeq(h, 1, Len(h) - 1)[j] = h[1 + j - 1]
  BY <1>2, SliceIs
<1>5. Len(Front(h)) = Len(h) - 1
  BY <1>1, <1>3, <1>4
<1>6. ASSUME NEW j \in 1 .. Len(h) - 1 PROVE j \in 1 .. (Len(h) - 1) - 1 + 1 /\ 1 + j - 1 = j
  BY <1>1
<1> QED
  BY <1>1, <1>2, <1>3, <1>4, <1>5, <1>6

LEMMA AppendIs ==
    ASSUME NEW S, NEW f \in Seq(S), NEW e \in S
    PROVE  /\ Append(f, e) \in Seq(S) /\ Append(f, e) # <<>> /\ Len(f) \in Nat
           /\ Len(Append(f, e)) = Len(f) + 1 /\ Append(f, e)[Len(f) + 1] = e
           /\ \A i \in 1 .. Len(f) : Append(f, e)[i] = f[i]
           /\ Front(Append(f, e)) = f /\ Last(Append(f, e)) = e
<1> DEFINE g == Append(f, e)
<1>1. /\ g \in Seq(S) /\ g # <<>> /\ Len(g) = Len(f) + 1 /\ g[Len(f) + 1] = e /\ Len(f) \in Nat
      /\ \A i \in 1 .. Len(f) : g[i] = f[i]
  OBVIOUS
<1> HIDE DEF g
<1>2. Front(g) \in Seq(S) /\ Len(Front(g)) = Len(f) /\ \A i \in 1 .. Len(f) : Front(g)[i] = f[i]
  BY <1>1, FrontIs
<1>3. Front(g) = f
  BY <1>2, SameList
<1>4. Last(g) = e
  BY <1>1, FrontIs
<1> QED
  BY <1>1, <1>3, <1>4 DEF g

(* Messages are merged into one at the end of the list.                    *)
Told(h, D) == 
    IF D = {} THEN h 
    ELSE IF Last(h).role = "user" THEN Append(Front(h), User(Last(h).text \cup D)) ELSE Append(h, User(D))

LEMMA ToldIsList ==
    ASSUME NEW h \in Seq(Message), h # <<>>, NEW D, D \subseteq Injected
    PROVE  Told(h, D) \in Seq(Message) /\ Told(h, D) # <<>>
<1>1. D \subseteq Input
  BY DEF Input
<1>2. Front(h) \in Seq(Message) /\ Last(h) \in Message
  BY FrontIs
<1>3. CASE D = {}
  BY <1>3 DEF Told
<1>4. CASE D # {} /\ Last(h).role = "user"
  <2>1. User(Last(h).text \cup D) \in Message
    BY <1>1, <1>2, <1>4, MessageIs, UserIs
  <2> QED
    BY <1>2, <1>4, <2>1, AppendIs DEF Told
<1>5. CASE D # {} /\ Last(h).role # "user"
  <2>1. User(D) \in Message
    BY <1>1, UserIs
  <2> QED
    BY <1>5, <2>1, AppendIs DEF Told
<1> QED
  BY <1>3, <1>4, <1>5

LEMMA ToldOnce ==
    ASSUME NEW h \in Seq(Message), h # <<>>, NEW D, D \subseteq Injected, NEW m \in Injected
    PROVE  Inject(Told(h, D), m) = Told(h, D \cup {m})
<1>1. D \subseteq Input /\ m \in Input
  BY DEF Input
<1>2. Front(h) \in Seq(Message) /\ Last(h) \in Message
  BY FrontIs
<1>3. CASE D = {}
  <2>1. Told(h, D) = h /\ D \cup {m} = {m}
    BY <1>3 DEF Told
  <2>2. {m} # {}
    OBVIOUS
  <2>3. Inject(h, m) = Told(h, {m})
    BY <2>2, Zenon DEF Told, Inject
  <2> QED
    BY <2>1, <2>3
<1>4. CASE D # {} /\ Last(h).role = "user"
  <2> DEFINE f == Front(h)
             T == Last(h).text
             e == User(T \cup D)
  <2>1. T \cup D \subseteq Input
    BY <1>1, <1>2, <1>4, MessageIs
  <2>2. e \in Message /\ e.role = "user" /\ e.text = T \cup D
    BY <2>1, UserIs
  <2>3. Told(h, D) = Append(f, e) /\ Told(h, D \cup {m}) = Append(f, User(T \cup (D \cup {m})))
    BY <1>4 DEF Told
  <2> HIDE DEF f, e
  <2>4. Append(f, e) # <<>> /\ Front(Append(f, e)) = f /\ Last(Append(f, e)) = e
    BY <1>2, <2>2, AppendIs DEF f
  <2>5. (T \cup D) \cup {m} = T \cup (D \cup {m})
    OBVIOUS
  <2>6. Inject(Append(f, e), m) = Append(f, User((T \cup D) \cup {m}))
    BY <2>2, <2>4 DEF Inject
  <2> QED
    BY <2>3, <2>5, <2>6
<1>5. CASE D # {} /\ Last(h).role # "user"
  <2> DEFINE e == User(D)
  <2>1. e \in Message /\ e.role = "user" /\ e.text = D
    BY <1>1, UserIs
  <2>2. Told(h, D) = Append(h, e) /\ Told(h, D \cup {m}) = Append(h, User(D \cup {m}))
    BY <1>5 DEF Told
  <2> HIDE DEF e
  <2>3. Append(h, e) # <<>> /\ Front(Append(h, e)) = h /\ Last(Append(h, e)) = e
    BY <2>1, AppendIs
  <2>4. Inject(Append(h, e), m) = Append(h, User(D \cup {m}))
    BY <2>1, <2>3 DEF Inject
  <2> QED
    BY <2>2, <2>4
<1> QED
  BY <1>3, <1>4, <1>5

(* _append_injected_messages, message by message, and all in all.           *)
LEMMA InjectRuns ==
    ASSUME NEW h \in Seq(Message), h # <<>>, NEW q \in Seq(Injected)
    PROVE  FoldLeft(Inject, h, q) = Told(h, ToSet(q))
<1> DEFINE V == Seq(Message) \ {<<>>}
           N == Len(q)
           G == CHOOSE iter : iter = [s \in SUBSET (DOMAIN q) |->
                   IF s = {} THEN h ELSE Inject(iter[s \ {Max(s)}], q[Max(s)])]
           F == [p \in V \X (1 .. N) |-> Inject(p[1], q[p[2]])]
<1>1. N \in Nat /\ DOMAIN q = 1 .. N /\ \A k \in 1 .. N : q[k] \in Injected
  OBVIOUS
<1>2. FoldLeft(Inject, h, q) = G[DOMAIN q]
  BY Zenon DEF FoldLeft, MapThenFoldSet
<1>3. ASSUME NEW v \in V, NEW x \in Injected PROVE Inject(v, x) \in V
  <2>1. v \in Seq(Message) /\ v # <<>> /\ {} \subseteq Injected /\ {} \cup {x} \subseteq Injected
    OBVIOUS
  <2>2. Told(v, {}) = v
    BY DEF Told
  <2>3. Inject(v, x) = Told(v, {} \cup {x})
    BY <2>1, <2>2, ToldOnce
  <2> QED
    BY <2>1, <2>3, ToldIsList
<1>4. F \in [V \X (1 .. N) -> V]
  BY <1>1, <1>3
<1>5. PICK g : Folds(g, V, h, N, F)
  <2>1. h \in V
    OBVIOUS
  <2> HIDE DEF F, N, V
  <2> QED
    BY <1>1, <1>4, <2>1, FoldExists
<1>6. ASSUME NEW s \in SUBSET (1 .. N)
      PROVE  g[s] = IF s = {} THEN h ELSE Inject(g[s \ {Max(s)}], q[Max(s)])
  <2>1. s # {} => Max(s) \in 1 .. N
    BY <1>1, LargestIn
  <2>2. s # {} => g[s \ {Max(s)}] \in V
    <3> HIDE DEF N, F, V
    <3> QED
      BY <1>5 DEF Folds
  <2>3. s # {} => F[<<g[s \ {Max(s)}], Max(s)>>] = Inject(g[s \ {Max(s)}], q[Max(s)])
    BY <2>1, <2>2
  <2> HIDE DEF F, N, V
  <2> QED
    BY <1>5, <2>3 DEF Folds
<1> HIDE DEF F
<1>7. g = [s \in SUBSET (DOMAIN q) |-> IF s = {} THEN h ELSE Inject(g[s \ {Max(s)}], q[Max(s)])]
  <2>1. g = [s \in SUBSET (DOMAIN q) |-> g[s]]
    <3> HIDE DEF N, V
    <3> QED
      BY <1>1, <1>5 DEF Folds
  <2> HIDE DEF N
  <2> QED
    BY <1>1, <1>6, <2>1
<1>8. G = [s \in SUBSET (DOMAIN q) |-> IF s = {} THEN h ELSE Inject(G[s \ {Max(s)}], q[Max(s)])]
  BY <1>7
<1> HIDE DEF G
<1>9. \A s \in SUBSET (1 .. N) : G[s] = IF s = {} THEN h ELSE Inject(G[s \ {Max(s)}], q[Max(s)])
  <2> HIDE DEF N
  <2> QED
    BY <1>1, <1>8
<1> DEFINE Taking(k) == {q[i] : i \in 1 .. k}
           K == {k \in 0 .. N : G[1 .. k] = Told(h, Taking(k))}
<1>10. 0 \in K
  <2>1. 1 .. 0 = {} /\ {} \in SUBSET (1 .. N) /\ 0 \in 0 .. N
    BY <1>1
  <2>2. Taking(0) = {}
    BY <2>1
  <2>3. G[1 .. 0] = h
    BY <1>9, <2>1
  <2> QED
    BY <2>1, <2>2, <2>3 DEF Told
<1>11. ASSUME NEW k \in 1 .. N, k - 1 \in K PROVE k \in K
  <2>1. k \in Nat \ {0} /\ 1 .. k \in SUBSET (1 .. N) /\ k \in 0 .. N /\ 1 .. k = (1 .. k - 1) \cup {k} /\ q[k] \in Injected
    BY <1>1
  <2>2. G[1 .. k] = Inject(G[1 .. k - 1], q[k])
    BY <1>9, <2>1, UpToNumber
  <2>3. G[1 .. k - 1] = Told(h, Taking(k - 1))
    BY <1>11
  <2>4. Taking(k) = Taking(k - 1) \cup {q[k]}
    BY <2>1
  <2>5. Taking(k - 1) \subseteq Injected
    BY <1>1, <2>1
  <2> HIDE DEF Taking
  <2>6. Inject(Told(h, Taking(k - 1)), q[k]) = Told(h, Taking(k - 1) \cup {q[k]})
    BY <2>1, <2>5, ToldOnce
  <2> QED
    BY <2>1, <2>2, <2>3, <2>4, <2>6
<1>12. N \in K
  <2> HIDE DEF K
  <2>1. 0 .. N \subseteq K
    BY <1>1, <1>10, <1>11, CountingTo
  <2> QED
    BY <1>1, <2>1
<1>13. Taking(N) = ToSet(q)
  BY <1>1 DEF ToSet
<1> QED
  BY <1>1, <1>2, <1>12, <1>13

-----------------------------------------------------------------------------
(* A step keeps what a list says of roles, calls and results, puts plain     *)
(* messages behind it, and lets one user message hold each of the inputs D. *)
Alike(a, b) == 
    /\ a.role = b.role
    /\ a.role = "assistant" => a.calls = b.calls
    /\ a.role = "tool" => a.id = b.id
Behind(m) == m.role = "user" \/ (m.role = "assistant" /\ m.calls = <<>>)
Grown(h, g, D) == 
    /\ g \in Seq(Message) /\ g # <<>> /\ Len(h) <= Len(g)
    /\ \A i \in 1 .. Len(h) : Alike(h[i], g[i])
    /\ \A i \in 1 .. Len(g) : i \in 1 .. Len(h) \/ Behind(g[i])
    /\ \A m : m \notin D => Holders(g, m) = Holders(h, m)
    /\ \A m \in D : Holders(h, m) = {} => Held(g, m)

LEMMA GrownAgain ==
    ASSUME NEW h \in Seq(Message), NEW g \in Seq(Message), NEW k, NEW D, Grown(h, g, {}), Grown(g, k, D)
    PROVE  Grown(h, k, D)
<1>1. Len(h) \in Nat /\ Len(g) \in Nat /\ Len(h) <= Len(g) /\ Len(g) <= Len(k) /\ k \in Seq(Message) /\ k # <<>>
  BY DEF Grown
<1>2. Len(k) \in Nat /\ \A i \in 1 .. Len(h) : i \in 1 .. Len(g)
  BY <1>1
<1>3. \A i \in 1 .. Len(h) : Alike(h[i], k[i])
  BY <1>2 DEF Grown, Alike
<1>4. ASSUME NEW i \in 1 .. Len(k) PROVE i \in 1 .. Len(h) \/ Behind(k[i])
  <2>1. CASE i \in 1 .. Len(h)
    BY <2>1
  <2>2. CASE i \in 1 .. Len(g) /\ i \notin 1 .. Len(h)
    <3>1. Behind(g[i]) /\ Alike(g[i], k[i])
      BY <2>2 DEF Grown
    <3> QED
      BY <3>1 DEF Behind, Alike
  <2>3. CASE i \notin 1 .. Len(g)
    BY <2>3 DEF Grown
  <2> QED
    BY <2>1, <2>2, <2>3
<1>5. \A m : m \notin {}
  OBVIOUS
<1>6. \A m : Holders(g, m) = Holders(h, m)
  BY <1>5 DEF Grown
<1>7. (\A m : m \notin D => Holders(k, m) = Holders(h, m)) /\ (\A m \in D : Holders(h, m) = {} => Held(k, m))
  BY <1>6 DEF Grown
<1> QED
  BY <1>1, <1>3, <1>4, <1>7 DEF Grown

(* A message that holds no input comes behind the list.                     *)
LEMMA GrownBy ==
    ASSUME NEW h \in Seq(Message), NEW m \in Message, Behind(m), m.role = "user" => m.text = {}
    PROVE  Grown(h, Append(h, m), {})
<1> DEFINE g == Append(h, m)
<1>1. /\ g \in Seq(Message) /\ g # <<>> /\ Len(h) \in Nat /\ Len(g) = Len(h) + 1 
      /\ g[Len(h) + 1] = m /\ \A i \in 1 .. Len(h) : g[i] = h[i]
  BY AppendIs
<1> HIDE DEF g
<1>2. \A i \in 1 .. Len(g) : i \in 1 .. Len(h) \/ i = Len(h) + 1
  BY <1>1
<1>3. ASSUME NEW x PROVE Holders(g, x) = Holders(h, x)
  <2>1. \A i \in 1 .. Len(h) : i \in 1 .. Len(g)
    BY <1>1
  <2>2. ~(m.role = "user" /\ x \in m.text)
    OBVIOUS
  <2>3. \A i : i \in Holders(g, x) <=> i \in Holders(h, x)
    BY <1>1, <1>2, <2>1, <2>2 DEF Holders
  <2> QED
    BY <2>3 DEF Holders
<1>4. \A i \in 1 .. Len(h) : Alike(h[i], g[i])
  BY <1>1 DEF Alike
<1>5. \A i \in 1 .. Len(g) : i \in 1 .. Len(h) \/ Behind(g[i])
  BY <1>1, <1>2
<1>6. Len(h) <= Len(g)
  BY <1>1
<1> QED
  BY <1>1, <1>3, <1>4, <1>5, <1>6 DEF Grown, g

(* _append_final_message.                                                  *)
LEMMA ClosedIs ==
    ASSUME NEW h \in Seq(Message), h # <<>>, NEW t \in Word
    PROVE  /\ Grown(h, Closed(h, t), {}) 
           /\ Closed(h, t) \in Seq(Message) /\ Closed(h, t) # <<>> /\ Last(Closed(h, t)) = Reply(t)
<1>1. Reply(t) \in Message /\ Reply(t).role = "assistant" /\ Reply(t).calls = <<>>
  BY ReplyIs
<1>2. CASE Last(h).role = "assistant" /\ Last(h).calls = <<>>
  <2> DEFINE f == Front(h)
             g == Append(f, Reply(t))
  <2>1. Closed(h, t) = g
    BY <1>2 DEF Closed
  <2>2. /\ f \in Seq(Message) /\ Len(h) = Len(f) + 1 /\ Len(f) \in Nat
        /\ \A i \in 1 .. Len(f) : f[i] = h[i]
        /\ Last(h) = h[Len(h)]
    BY FrontIs
  <2> HIDE DEF f
  <2>3. /\ g \in Seq(Message) /\ g # <<>> /\ Len(g) = Len(h) /\ g[Len(h)] = Reply(t) /\ Last(g) = Reply(t)
        /\ \A i \in 1 .. Len(f) : g[i] = f[i]
    BY <1>1, <2>2, AppendIs
  <2> HIDE DEF g
  <2>4. \A i \in 1 .. Len(h) : i = Len(h) \/ i \in 1 .. Len(f)
    BY <2>2
  <2>5. ASSUME NEW i \in 1 .. Len(h) PROVE Alike(h[i], g[i])
    <3>1. CASE i = Len(h)
      BY <1>1, <1>2, <2>2, <2>3, <3>1 DEF Alike
    <3>2. CASE i \in 1 .. Len(f)
      BY <2>2, <2>3, <3>2 DEF Alike
    <3> QED
      BY <2>4, <3>1, <3>2
  <2>6. ASSUME NEW x PROVE Holders(g, x) = Holders(h, x)
    <3>1. ASSUME NEW i \in 1 .. Len(h) PROVE g[i].role = "user" /\ x \in g[i].text <=> h[i].role = "user" /\ x \in h[i].text
      <4>1. CASE i = Len(h)
        BY <1>1, <1>2, <2>2, <2>3, <4>1
      <4>2. CASE i \in 1 .. Len(f)
        BY <2>2, <2>3, <4>2
      <4> QED
        BY <2>4, <4>1, <4>2
    <3> QED
      BY <2>3, <3>1 DEF Holders
  <2>7. Len(h) <= Len(g)
    BY <2>2, <2>3
  <2>8. Grown(h, g, {})
    BY <2>3, <2>5, <2>6, <2>7 DEF Grown
  <2> QED
    BY <2>1, <2>3, <2>8
<1>3. CASE ~(Last(h).role = "assistant" /\ Last(h).calls = <<>>)
  <2>1. Closed(h, t) = Append(h, Reply(t))
    BY <1>3 DEF Closed
  <2>2. Grown(h, Append(h, Reply(t)), {})
    BY <1>1, GrownBy DEF Behind
  <2> QED
    BY <1>1, <2>1, <2>2, AppendIs
<1> QED
  BY <1>2, <1>3

(* What is injected is held by the last message.                           *)
LEMMA GrownTold ==
    ASSUME NEW h \in Seq(Message), h # <<>>, NEW D, D \subseteq Injected
    PROVE  /\ Grown(h, Told(h, D), D)
           /\ D # {} => Last(Told(h, D)).role = "user" /\ D \subseteq Last(Told(h, D)).text
<1> DEFINE g == Told(h, D)
           n == Len(g)
<1>1. g \in Seq(Message) /\ g # <<>>
  BY ToldIsList
<1>2. D \subseteq Input
  BY DEF Input
<1>3. CASE D = {}
  <2>1. g = h
    BY <1>3 DEF Told
  <2> HIDE DEF g
  <2>2. Len(h) <= Len(g) /\ \A i \in 1 .. Len(h) : Alike(h[i], g[i])
    BY <2>1 DEF Alike
  <2>3. \A m : Holders(g, m) = Holders(h, m)
    BY <2>1
  <2> QED
    BY <1>1, <1>3, <2>1, <2>2, <2>3 DEF Grown, g
<1>4. CASE D # {} /\ Last(h).role = "user"
  <2> DEFINE f == Front(h)
             e == User(Last(h).text \cup D)
  <2>1. /\ f \in Seq(Message) /\ Len(h) = Len(f) + 1 /\ Len(f) \in Nat /\ Last(h) \in Message
        /\ \A i \in 1 .. Len(f) : f[i] = h[i]
        /\ Last(h) = h[Len(h)]
    BY FrontIs
  <2>2. e \in Message /\ e.role = "user" /\ e.text = Last(h).text \cup D
    <3>1. Last(h).text \cup D \subseteq Input
      BY <1>2, <1>4, <2>1, MessageIs
    <3> QED
      BY <3>1, UserIs
  <2>3. g = Append(f, e)
    BY <1>4 DEF Told
  <2> HIDE DEF f, g, e
  <2>4. /\ Len(g) = Len(h) /\ g[Len(h)] = e /\ Last(g) = e
        /\ \A i \in 1 .. Len(f) : g[i] = f[i]
    BY <2>1, <2>2, <2>3, AppendIs
  <2>5. \A i \in 1 .. Len(h) : i = Len(h) \/ i \in 1 .. Len(f)
    BY <2>1
  <2>6. ASSUME NEW i \in 1 .. Len(h) PROVE Alike(h[i], g[i])
    <3>1. CASE i = Len(h)
      BY <1>4, <2>1, <2>2, <2>4, <3>1 DEF Alike
    <3>2. CASE i \in 1 .. Len(f)
      BY <2>1, <2>4, <3>2 DEF Alike
    <3> QED
      BY <2>5, <3>1, <3>2
  <2>7. ASSUME NEW m, m \notin D PROVE Holders(g, m) = Holders(h, m)
    <3>1. ASSUME NEW i \in 1 .. Len(h) PROVE g[i].role = "user" /\ m \in g[i].text <=> h[i].role = "user" /\ m \in h[i].text
      <4>1. CASE i = Len(h)
        BY <1>4, <2>1, <2>2, <2>4, <2>7, <4>1
      <4>2. CASE i \in 1 .. Len(f)
        BY <2>1, <2>4, <4>2
      <4> QED
        BY <2>5, <4>1, <4>2
    <3> QED
      BY <2>4, <3>1 DEF Holders
  <2>8. ASSUME NEW m \in D, Holders(h, m) = {} PROVE Held(g, m)
    <3>1. Len(h) \in 1 .. Len(g) /\ Len(h) \in Holders(g, m)
      BY <2>1, <2>2, <2>4 DEF Holders
    <3>2. ASSUME NEW i \in Holders(g, m) PROVE i = Len(h)
      <4>1. i \in 1 .. Len(h) /\ g[i].role = "user" /\ m \in g[i].text
        BY <2>4 DEF Holders
      <4>2. CASE i \in 1 .. Len(f)
        <5>1. i \in Holders(h, m)
          BY <2>1, <2>4, <4>1, <4>2 DEF Holders
        <5> QED
          BY <2>8, <5>1
      <4> QED
        BY <2>5, <4>1, <4>2
    <3>3. Holders(g, m) = {Len(h)}
      BY <3>1, <3>2
    <3> QED
      BY <3>1, <3>3 DEF Held
  <2>9. Len(h) <= Len(g)
    BY <2>1, <2>4
  <2>10. Grown(h, g, D)
    BY <1>1, <2>4, <2>6, <2>7, <2>8, <2>9 DEF Grown
  <2> QED
    BY <2>2, <2>4, <2>10 DEF g
<1>5. CASE D # {} /\ Last(h).role # "user"
  <2> DEFINE e == User(D)
  <2>1. e \in Message /\ e.role = "user" /\ e.text = D
    BY <1>2, UserIs
  <2>2. g = Append(h, e)
    BY <1>5 DEF Told
  <2> HIDE DEF g, e
  <2>3. /\ Len(h) \in Nat /\ Len(g) = Len(h) + 1 /\ g[Len(h) + 1] = e /\ Last(g) = e
        /\ \A i \in 1 .. Len(h) : g[i] = h[i]
    BY <2>1, <2>2, AppendIs
  <2>4. /\ \A i \in 1 .. Len(g) : i = Len(h) + 1 \/ i \in 1 .. Len(h)
        /\ \A i \in 1 .. Len(h) : i \in 1 .. Len(g)
    BY <2>3
  <2>5. \A i \in 1 .. Len(h) : Alike(h[i], g[i])
    BY <2>3 DEF Alike
  <2>6. ASSUME NEW m, m \notin D PROVE Holders(g, m) = Holders(h, m)
    <3>1. \A i : i \in Holders(g, m) <=> i \in Holders(h, m)
      BY <2>1, <2>3, <2>4, <2>6 DEF Holders
    <3> QED
      BY <3>1 DEF Holders
  <2>7. ASSUME NEW m \in D, Holders(h, m) = {} PROVE Held(g, m)
    <3>1. Len(h) + 1 \in 1 .. Len(g) /\ Len(h) + 1 \in Holders(g, m)
      BY <2>1, <2>3 DEF Holders
    <3>2. ASSUME NEW i \in Holders(g, m) PROVE i = Len(h) + 1
      <4>1. i \in 1 .. Len(h) => i \in Holders(h, m)
        BY <2>3 DEF Holders
      <4>2. i \in 1 .. Len(g)
        BY DEF Holders
      <4> QED
        BY <2>4, <2>7, <4>1, <4>2
    <3>3. Holders(g, m) = {Len(h) + 1}
      BY <3>1, <3>2
    <3> QED
      BY <3>1, <3>3 DEF Held
  <2>8. Len(h) <= Len(g) /\ \A i \in 1 .. Len(g) : i \in 1 .. Len(h) \/ Behind(g[i])
    BY <2>1, <2>3, <2>4 DEF Behind
  <2>9. Grown(h, g, D)
    BY <1>1, <2>5, <2>6, <2>7, <2>8 DEF Grown
  <2> QED
    BY <2>1, <2>3, <2>9 DEF g
<1> QED
  BY <1>3, <1>4, <1>5

(* What such a step keeps: legality, the head of the list, the calls.       *)
LEMMA LegalAlike ==
    ASSUME NEW h \in Seq(Message), NEW g \in Seq(Message), Legal(h), Len(g) = Len(h),
           \A i \in 1 .. Len(h) : Alike(h[i], g[i])
    PROVE  Legal(g)
<1>1. Talk(Message)
  BY MessagesTalk
<1>2. ASSUME NEW i \in 1 .. Len(g), g[i].role = "assistant" PROVE Full(g, i)
  <2> DEFINE cs == ToSet(h[i].calls)
             n == Len(h[i].calls)
  <2>1. h[i].role = "assistant" /\ g[i].calls = h[i].calls /\ n \in Nat
    BY <1>1, <1>2, CallsCounted DEF Alike
  <2>2. /\ i + n <= Len(h)
        /\ \A j \in i + 1 .. i + n : h[j].role = "tool" /\ h[j].id \in cs
        /\ \A c \in cs : \E j \in i + 1 .. i + n : Gives(h, j, c)
    BY <2>1 DEF Legal, AllFull, Full
  <2> HIDE DEF cs, n
  <2>3. Len(h) \in Nat /\ i \in Nat /\ \A j \in i + 1 .. i + n : j \in 1 .. Len(h)
    BY <2>1, <2>2
  <2>4. ASSUME NEW j \in i + 1 .. i + n PROVE g[j].role = "tool" /\ g[j].id = h[j].id /\ h[j].role = "tool"
    BY <2>2, <2>3 DEF Alike
  <2>5. ASSUME NEW c \in cs PROVE \E j \in i + 1 .. i + n : Gives(g, j, c)
    <3>1. PICK j \in i + 1 .. i + n : Gives(h, j, c)
      BY <2>2
    <3> QED
      BY <2>4, <3>1 DEF Gives
  <2>6. i + n <= Len(g) /\ \A j \in i + 1 .. i + n : g[j].role = "tool" /\ g[j].id \in cs
    BY <2>2, <2>4
  <2> QED
    BY <2>1, <2>5, <2>6, Zenon DEF Full, cs, n
<1>3. Once(g)
  BY DEF Legal, Once, Alike
<1>4. ASSUME NEW i \in 1 .. Len(g), g[i].role = "tool" PROVE Known(g, i)
  <2>1. h[i].role = "tool" /\ h[i].id = g[i].id
    BY <1>4 DEF Alike
  <2>2. PICK a \in 1 .. i - 1 : Declares(h, a, h[i].id)
    BY <2>1 DEF Legal, Known
  <2>3. a \in 1 .. Len(h)
    OBVIOUS
  <2>4. Declares(g, a, g[i].id)
    BY <2>1, <2>2, <2>3 DEF Declares, Alike
  <2> QED
    BY <2>4 DEF Known
<1> QED
  BY <1>2, <1>3, <1>4 DEF Legal, AllFull

LEMMA GrownLegal ==
    ASSUME NEW h \in Seq(Message), Legal(h), NEW g, NEW D, Grown(h, g, D)
    PROVE  Legal(g)
<1> DEFINE x == SubSeq(g, 1, Len(h))
<1>1. g \in Seq(Message) /\ Len(h) \in Nat /\ Len(g) \in Nat /\ Len(h) <= Len(g)
  BY DEF Grown
<1>2. x \in Seq(Message) /\ Len(x) = Len(h) /\ \A j \in 1 .. Len(h) : x[j] = g[j]
  <2>1. 1 \in 1 .. Len(g) + 1 /\ Len(h) \in 1 - 1 .. Len(g) /\ Len(h) - 1 + 1 = Len(h) /\ \A j \in 1 .. Len(h) : 1 + j - 1 = j
    BY <1>1
  <2> QED
    BY <1>1, <2>1, SliceIs
<1> HIDE DEF x
<1>3. Legal(x)
  BY <1>2, LegalAlike DEF Grown
<1>4. Starts(x, g)
  BY <1>1, <1>2 DEF Starts
<1>5. ASSUME NEW i \in Len(x) + 1 .. Len(g) PROVE Plain(g[i])
  <2>1. i \in 1 .. Len(g) /\ i \notin 1 .. Len(h)
    BY <1>1, <1>2
  <2> QED
    BY <2>1 DEF Grown, Behind, Plain
<1> QED
  BY <1>1, <1>2, <1>3, <1>4, <1>5, MessagesTalk, PlainBehind

LEMMA GrownAnchored ==
    ASSUME NEW h, NEW n, Anchored(h, n), NEW g, NEW D, Grown(h, g, D)
    PROVE  Anchored(g, n)
<1>1. h \in Seq(Message) /\ g \in Seq(Message) /\ n \in 2 .. Len(h) /\ h[n].role = "user" /\ Len(h) <= Len(g)
  BY DEF Anchored, Grown
<1>2. Len(h) \in Nat /\ Len(g) \in Nat /\ n \in 1 .. Len(h) /\ n \in 2 .. Len(g)
  BY <1>1
<1>3. PICK p \in 1 .. n - 1 : HeadedBy(h, p)
  BY DEF Anchored
<1>4. ASSUME NEW i \in 1 .. Len(g) PROVE g[i].role = "system" <=> i <= p
  <2>1. CASE i \in 1 .. Len(h)
    BY <1>3, <2>1 DEF Grown, Alike, HeadedBy
  <2>2. CASE i \notin 1 .. Len(h)
    <3>1. g[i].role # "system" /\ ~(i <= p)
      BY <1>2, <2>2 DEF Grown, Behind
    <3> QED
      BY <3>1
  <2> QED
    BY <2>1, <2>2
<1>5. g[n].role = "user"
  BY <1>1, <1>2 DEF Grown, Alike
<1> QED
  BY <1>1, <1>2, <1>4, <1>5 DEF Anchored, HeadedBy

LEMMA GrownCalls ==
    ASSUME NEW h \in Seq(Message), NEW n, NEW k, CallsBefore(h, n, k), NEW g, NEW D, Grown(h, g, D)
    PROVE  CallsBefore(g, n, k)
<1> SUFFICES ASSUME NEW a \in 1 .. Len(g), g[a].role = "assistant", NEW c \in ToSet(g[a].calls)
             PROVE  IF a <= n THEN c[1] >= MaxIterations ELSE c \in OwnCall /\ c[1] < k
  BY DEF CallsBefore
<1>1. CASE a \in 1 .. Len(h)
  <2>1. h[a].role = "assistant" /\ h[a].calls = g[a].calls
    BY <1>1 DEF Grown, Alike
  <2> QED
    BY <1>1, <2>1 DEF CallsBefore
<1>2. CASE a \notin 1 .. Len(h)
  <2>1. g[a].calls = <<>>
    BY <1>2 DEF Grown, Behind
  <2>2. ToSet(<<>>) = {}
    BY DEF ToSet
  <2> QED
    BY <2>1, <2>2
<1> QED
  BY <1>1, <1>2

LEMMA GrownHolding ==
    ASSUME NEW h, NEW t, Holding(h, t), NEW g, NEW D, Grown(h, g, D), D \subseteq Injected \ t, h \in Seq(Message)
    PROVE  Holding(g, t \cup D)
<1>1. Question \notin D
  BY StartAssumption
<1>2. ASSUME NEW m \in (t \cup D) \cup {Question} PROVE Held(g, m)
  <2>1. CASE m \in D
    BY <2>1 DEF Holding, Grown
  <2>2. CASE m \notin D
    <3>1. Held(h, m) /\ Holders(g, m) = Holders(h, m)
      BY <1>2, <2>2 DEF Holding, Grown
    <3>2. PICK i \in 1 .. Len(h) : Holders(h, m) = {i}
      BY <3>1 DEF Held
    <3>3. g \in Seq(Message) /\ Len(h) <= Len(g)
      BY DEF Grown
    <3>4. i \in 1 .. Len(g)
      BY <3>3
    <3> QED
      BY <3>1, <3>2, <3>4 DEF Held
  <2> QED
    BY <2>1, <2>2
<1>3. ASSUME NEW m \in Injected \ (t \cup D) PROVE Holders(g, m) = {}
  BY <1>3 DEF Holding, Grown
<1> QED
  BY <1>2, <1>3 DEF Holding

LEMMA CallsLater ==
    ASSUME NEW h, NEW n, NEW k \in Nat, CallsBefore(h, n, k), NEW l \in Nat, k <= l
    PROVE  CallsBefore(h, n, l)
<1> SUFFICES ASSUME NEW a \in 1 .. Len(h), h[a].role = "assistant", NEW c \in ToSet(h[a].calls)
             PROVE  IF a <= n THEN c[1] >= MaxIterations ELSE c \in OwnCall /\ c[1] < l
  BY DEF CallsBefore
<1>1. IF a <= n THEN c[1] >= MaxIterations ELSE c \in OwnCall /\ c[1] < k
  BY DEF CallsBefore
<1>2. c \in OwnCall => c[1] \in Int
  BY DEF OwnCall
<1> QED
  BY <1>1, <1>2

-----------------------------------------------------------------------------
(* An answer with calls, and its results.                                  *)
LEMMA AskedCalls ==
    ASSUME NEW n \in 1 .. MaxCalls, NEW ok, iteration \in 0 .. MaxIterations - 1
    PROVE  /\ CallIds(n, ok) \in Seq(OwnCall) /\ Len(CallIds(n, ok)) = n /\ IsInjective(CallIds(n, ok))
           /\ \A c \in ToSet(CallIds(n, ok)) : c \in OwnCall /\ c[1] = iteration
<1> DEFINE s == CallIds(n, ok)
<1>0. DOMAIN s = 1 .. n
  BY DEF CallIds
<1>1. MaxCalls \in Nat /\ n \in Nat /\ DOMAIN s = 1 .. n
  <2>1. MaxCalls \in Nat
    BY RunnerAssumption
  <2> QED
    BY <1>0, <2>1
<1>2. ASSUME NEW k \in 1 .. n PROVE s[k] \in OwnCall /\ s[k][1] = iteration /\ s[k][2] = k
  <2>1. k \in 1 .. MaxCalls /\ (k \in ok) \in BOOLEAN
    BY <1>1
  <2> QED
    BY <2>1 DEF CallIds, OwnCall
<1>3. s \in Seq(OwnCall) /\ Len(s) = n
  <2>1. s = [k \in 1 .. n |-> s[k]]
    BY DEF CallIds
  <2> HIDE DEF s
  <2> QED
    BY <1>1, <1>2, <2>1
<1> HIDE DEF s
<1>4. IsInjective(s)
  BY <1>1, <1>2 DEF IsInjective
<1>5. \A c \in ToSet(s) : c \in OwnCall /\ c[1] = iteration
  BY <1>1, <1>2 DEF ToSet
<1> QED
  BY <1>3, <1>4, <1>5 DEF s

LEMMA Asks ==
    ASSUME NEW h, NEW n, NEW k, Anchored(h, n), Legal(h), CallsBefore(h, n, k), 
           NEW t \in Word, NEW cs \in Seq(OwnCall), \A c \in ToSet(cs) : c \in OwnCall /\ c[1] = k,
           NEW p, NEW b, Batch(Append(h, Assistant(t, cs)), p, b),
           NEW g, g = Append(h, Assistant(t, cs))
    PROVE  Anchored(g, n) /\ Executing(g, n, k, p, b) /\ SameHolders(g, h)
<1> DEFINE e == Assistant(t, cs)
<1>1. h \in Seq(Message) /\ n \in 2 .. Len(h) /\ h[n].role = "user"
  BY DEF Anchored
<1>2. e \in Message /\ e.role = "assistant" /\ e.calls = cs
  <2>1. cs \in Seq(Call)
    BY OwnCallIs
  <2> QED
    BY <2>1, AnswerIs
<1> HIDE DEF e
<1>3. /\ g \in Seq(Message) /\ Len(h) \in Nat /\ Len(g) = Len(h) + 1 /\ g[Len(h) + 1] = e
      /\ (\A i \in 1 .. Len(h) : g[i] = h[i]) /\ Front(g) = h
  BY <1>1, <1>2, AppendIs DEF e
<1>4. n \in 1 .. Len(h) /\ n \in 2 .. Len(g) /\ Len(g) > n /\ Len(g) = Len(h) + 1 /\ \A i \in 1 .. Len(g) : i \in 1 .. Len(h) \/ i = Len(h) + 1
  BY <1>1, <1>3
<1>5. PICK q \in 1 .. n - 1 : HeadedBy(h, q)
  BY DEF Anchored
<1>6. HeadedBy(g, q)
  <2>1. ASSUME NEW i \in 1 .. Len(g) PROVE g[i].role = "system" <=> i <= q
    <3>1. CASE i \in 1 .. Len(h)
      BY <1>3, <1>5, <3>1 DEF HeadedBy
    <3>2. CASE i = Len(h) + 1
      BY <1>2, <1>3, <1>4, <3>2
    <3> QED
      BY <1>4, <3>1, <3>2
  <2> QED
    BY <2>1 DEF HeadedBy
<1>7. Anchored(g, n)
  BY <1>1, <1>3, <1>4, <1>6 DEF Anchored
<1>8. Executing(g, n, k, p, b)
  <2>1. Batch(g, p, b)
    OBVIOUS
  <2>2. g[Len(g)].role = "assistant" /\ g[Len(g)].calls = cs
    BY <1>2, <1>3, <1>4
  <2> QED
    BY <1>3, <1>4, <2>1, <2>2 DEF Executing
<1>9. ASSUME NEW m PROVE Holders(g, m) = Holders(h, m)
  <2>1. \A i \in 1 .. Len(h) : i \in 1 .. Len(g)
    BY <1>3
  <2>2. \A i : i \in Holders(g, m) <=> i \in Holders(h, m)
    BY <1>2, <1>3, <1>4, <2>1 DEF Holders
  <2> QED
    BY <2>2 DEF Holders
<1> QED
  BY <1>7, <1>8, <1>9 DEF SameHolders

LEMMA ResultsAre ==
    ASSUME NEW q \in Seq(OwnCall)
    PROVE  /\ ResultsOf(q) \in Seq(Message) /\ Len(ResultsOf(q)) = Len(q) 
           /\ \A j \in 1 .. Len(q) : ResultsOf(q)[j].role = "tool" /\ ResultsOf(q)[j].id = q[j]
<1> DEFINE s == ResultsOf(q)
<1>1. DOMAIN q = 1 .. Len(q) /\ Len(q) \in Nat /\ \A j \in 1 .. Len(q) : q[j] \in Call
  BY OwnCallIs
<1>2. \A j \in 1 .. Len(q) : s[j] = Tool(q[j], "result")
  BY <1>1 DEF ResultsOf
<1>3. \A j \in 1 .. Len(q) : s[j] \in Message /\ s[j].role = "tool" /\ s[j].id = q[j]
  <2> SUFFICES ASSUME NEW j \in 1 .. Len(q) PROVE s[j] \in Message /\ s[j].role = "tool" /\ s[j].id = q[j]
    OBVIOUS
  <2> HIDE DEF s
  <2>1. q[j] \in Call /\ s[j] = Tool(q[j], "result")
    BY <1>1, <1>2
  <2>2. "result" \in Word
    BY DEF Word
  <2> QED
    BY <2>1, <2>2, ResultIs
<1>4. s = [j \in 1 .. Len(q) |-> s[j]]
  BY <1>1 DEF ResultsOf
<1> HIDE DEF s
<1>5. s \in Seq(Message) /\ Len(s) = Len(q)
  BY <1>1, <1>3, <1>4
<1> QED
  BY <1>3, <1>5 DEF s

LEMMA ResultsTogether ==
    ASSUME NEW q \in Seq(OwnCall), NEW r \in Seq(OwnCall)
    PROVE  ResultsOf(q) \o ResultsOf(r) = ResultsOf(q \o r)
<1> DEFINE x == ResultsOf(q)
           y == ResultsOf(r)
           z == ResultsOf(q \o r)
<1>1. q \o r \in Seq(OwnCall) /\ Len(q \o r) = Len(q) + Len(r) /\ Len(q) \in Nat /\ Len(r) \in Nat
  OBVIOUS
<1>2. x \in Seq(Message) /\ Len(x) = Len(q) /\ y \in Seq(Message) /\ Len(y) = Len(r)
  BY ResultsAre
<1>3. z \in Seq(Message) /\ Len(z) = Len(q) + Len(r)
  BY <1>1, ResultsAre
<1>4. x \o y \in Seq(Message) /\ Len(x \o y) = Len(q) + Len(r)
  <2> HIDE DEF x, y
  <2>1. x \o y \in Seq(Message) /\ Len(x \o y) = Len(x) + Len(y)
    BY <1>2, ConcatIs
  <2> QED
    BY <1>2, <2>1
<1>5. ASSUME NEW j \in 1 .. Len(q) + Len(r) PROVE (x \o y)[j] = z[j]
  <2>1. z[j] = Tool((q \o r)[j], "result")
    BY <1>1 DEF ResultsOf
  <2>2. (x \o y)[j] = IF j <= Len(q) THEN x[j] ELSE y[j - Len(q)]
    <3> HIDE DEF x, y
    <3> QED
      BY <1>1, <1>2
  <2>3. CASE j <= Len(q)
    <3>1. j \in DOMAIN q /\ (q \o r)[j] = q[j]
      BY <1>1, <2>3
    <3> QED
      BY <2>1, <2>2, <2>3, <3>1 DEF ResultsOf
  <2>4. CASE ~(j <= Len(q))
    <3>1. j - Len(q) \in DOMAIN r /\ (q \o r)[j] = r[j - Len(q)]
      BY <1>1, <2>4
    <3> QED
      BY <2>1, <2>2, <2>4, <3>1 DEF ResultsOf
  <2> QED
    BY <2>3, <2>4
<1> HIDE DEF x, y, z
<1>6. x \o y = z
  BY <1>3, <1>4, <1>5, SameList
<1> QED
  BY <1>6 DEF x, y, z

LEMMA ExecutingCalls ==
    ASSUME NEW h \in Seq(Message), NEW n \in Nat, NEW k \in Nat, NEW p, NEW b, Executing(h, n, k, p, b)
    PROVE  CallsBefore(h, n, k + 1)
<1>1. Len(h) > n /\ Len(h) \in Nat /\ h # <<>>
  BY DEF Executing
<1>2. /\ Len(h) = Len(Front(h)) + 1 /\ Len(Front(h)) \in Nat
      /\ \A i \in 1 .. Len(Front(h)) : Front(h)[i] = h[i]
  BY <1>1, FrontIs
<1> SUFFICES ASSUME NEW a \in 1 .. Len(h), h[a].role = "assistant", NEW c \in ToSet(h[a].calls)
             PROVE  IF a <= n THEN c[1] >= MaxIterations ELSE c \in OwnCall /\ c[1] < k + 1
  BY DEF CallsBefore
<1>3. c \in OwnCall => c[1] \in Int
  BY DEF OwnCall
<1>4. CASE a = Len(h)
  <2>1. c \in OwnCall /\ c[1] = k /\ ~(a <= n)
    BY <1>1, <1>4 DEF Executing
  <2> QED
    BY <2>1
<1>5. CASE a # Len(h)
  <2>1. a \in 1 .. Len(Front(h))
    BY <1>2, <1>5
  <2>2. IF a <= n THEN c[1] >= MaxIterations ELSE c \in OwnCall /\ c[1] < k
    BY <1>2, <2>1 DEF Executing, CallsBefore
  <2> QED
    BY <1>3, <2>2
<1> QED
  BY <1>4, <1>5

(* The calls of this iteration were not made before.                        *)
LEMMA CallsAreNew ==
    ASSUME NEW h \in Seq(Message), NEW n \in Nat, NEW k \in Nat, NEW p, NEW b, Executing(h, n, k, p, b),
           NEW c \in ToSet(h[Len(h)].calls), NEW a \in 1 .. Len(Front(h))
    PROVE  ~Declares(Front(h), a, c)
<1>1. c \in OwnCall /\ c[1] = k
  BY DEF Executing
<1>2. c[1] \in 0 .. MaxIterations - 1 /\ MaxIterations \in Nat
  BY <1>1, RunnerAssumption DEF OwnCall
<1>3. Declares(Front(h), a, c) => IF a <= n THEN c[1] >= MaxIterations ELSE c[1] < k
  BY DEF Executing, CallsBefore, Declares
<1> QED
  BY <1>1, <1>2, <1>3

LEMMA Answers ==
    ASSUME NEW h, NEW n, NEW k \in Nat, NEW p, NEW b, Anchored(h, n), Executing(h, n, k, p, b),
           NEW g, g = h \o ResultsOf(p \o b)
    PROVE  /\ g \in Seq(Message) /\ g # <<>> /\ Legal(g) /\ Anchored(g, n) /\ CallsBefore(g, n, k + 1)
           /\ SameHolders(g, h)
<1> DEFINE q == p \o b
           e == h[Len(h)]
           rs == ResultsOf(q)
<1>1. h \in Seq(Message) /\ n \in 2 .. Len(h) /\ Len(h) \in Nat /\ h # <<>> /\ n \in Nat
  BY DEF Anchored
<1>2. q \in Seq(OwnCall) /\ IsInjective(q) /\ ToSet(q) = ToSet(e.calls) /\ Len(q) = Len(e.calls) /\ Len(q) \in Nat
  <2>1. p \in Seq(OwnCall) /\ b \in Seq(OwnCall)
    BY DEF Executing, Batch
  <2>2. q \in Seq(OwnCall) /\ Len(q) \in Nat
    BY <2>1
  <2>3. IsInjective(q) /\ ToSet(q) = ToSet(e.calls) /\ Len(q) = Len(e.calls)
    BY DEF Executing, Batch
  <2> QED
    BY <2>2, <2>3
<1> HIDE DEF q, e
<1>3. rs \in Seq(Message) /\ Len(rs) = Len(q) /\ \A j \in 1 .. Len(q) : rs[j].role = "tool" /\ rs[j].id = q[j]
  BY <1>2, ResultsAre
<1>4. g = h \o rs
  BY DEF q
<1> HIDE DEF rs
<1>5. /\ g \in Seq(Message) /\ Len(g) = Len(h) + Len(q) /\ \A i \in 1 .. Len(h) : g[i] = h[i]
      /\ \A j \in 1 .. Len(q) : g[Len(h) + j] = rs[j]
  <2>1. h \o rs \in Seq(Message) /\ Len(h \o rs) = Len(h) + Len(rs)
    BY <1>1, <1>3, ConcatIs
  <2>2. \A i \in 1 .. Len(h) : (h \o rs)[i] = h[i]
    BY <1>1, <1>3, ConcatIs
  <2>3. \A j \in 1 .. Len(rs) : (h \o rs)[Len(h) + j] = rs[j]
    BY <1>1, <1>3, ConcatIs
  <2> QED
    BY <1>3, <1>4, <2>1, <2>2, <2>3
<1>6. /\ Len(g) \in Nat /\ g # <<>> 
      /\ \A i \in 1 .. Len(h) : i \in 1 .. Len(g)
      /\ \A i \in 1 .. Len(g) : i \in 1 .. Len(h) \/ i \in Len(h) + 1 .. Len(g)
  BY <1>1, <1>2, <1>5
<1>7. ASSUME NEW i \in Len(h) + 1 .. Len(g)
      PROVE  i - Len(h) \in 1 .. Len(q) /\ g[i].role = "tool" /\ g[i].id = q[i - Len(h)]
  <2>1. i - Len(h) \in 1 .. Len(q) /\ Len(h) + (i - Len(h)) = i
    <3>. Len(g) = Len(h) + Len(q) /\ Len(h) \in Nat /\ Len(q) \in Nat
      BY <1>1, <1>2, <1>5
    <3> QED
      OBVIOUS
  <2> QED
    BY <1>3, <1>5, <2>1
<1>8. /\ Front(h) \in Seq(Message) /\ Len(h) = Len(Front(h)) + 1 /\ Len(Front(h)) \in Nat
      /\ \A i \in 1 .. Len(Front(h)) : Front(h)[i] = h[i]
  BY <1>1, FrontIs
<1>9. Legal(g)
  <2> DEFINE f == Front(h)
             l == Len(h)
  <2>1. f \in Seq(Message) /\ Legal(f) /\ l \in Nat /\ l = Len(f) + 1 /\ l <= Len(g) /\ l \in 1 .. l
    <3>1. Legal(f)
      BY DEF Executing
    <3>2. Len(g) = Len(h) + Len(q) /\ Len(h) \in Nat \ {0} /\ Len(q) \in Nat
      BY <1>1, <1>2, <1>5
    <3> QED
      BY <1>8, <3>1, <3>2
  <2>2. Starts(f, g)
    <3>1. Len(f) <= Len(g) /\ \A j \in 1 .. Len(f) : j \in 1 .. Len(h)
      BY <1>6, <1>8, <2>1
    <3> QED
      BY <1>5, <1>8, <3>1 DEF Starts
  <2>3. g[l] = e /\ e.role = "assistant" /\ Len(g) = l + Len(g[l].calls)
    <3>1. g[l] = e /\ e.role = "assistant"
      BY <1>5, <2>1 DEF e, Executing
    <3> QED
      BY <1>2, <1>5, <3>1
  <2>4. ASSUME NEW j \in l + 1 .. Len(g) PROVE g[j].role = "tool" /\ g[j].id \in ToSet(g[l].calls)
    <3>1. g[j].role = "tool" /\ g[j].id \in ToSet(q)
      BY <1>2, <1>7 DEF ToSet
    <3> QED
      BY <1>2, <2>3, <3>1
  <2>5. ASSUME NEW c \in ToSet(g[l].calls) PROVE \E j \in l + 1 .. Len(g) : Gives(g, j, c)
    <3>1. PICK i \in 1 .. Len(q) : c = q[i]
      <4>1. c \in ToSet(q)
        BY <1>2, <2>3
      <4> QED
        BY <1>2, <4>1, ListOfItsOwn
    <3>2. l + i \in l + 1 .. Len(g) /\ (l + i) - Len(h) = i
      BY <1>1, <1>2, <1>5
    <3>3. Gives(g, l + i, c)
      BY <1>7, <3>1, <3>2 DEF Gives
    <3> QED
      BY <3>2, <3>3
  <2>6. ASSUME NEW i \in l + 1 .. Len(g), NEW j \in l + 1 .. Len(g), g[i].id = g[j].id PROVE i = j
    <3>1. q[i - Len(h)] = q[j - Len(h)] /\ i - Len(h) \in DOMAIN q /\ j - Len(h) \in DOMAIN q
      BY <1>2, <1>7, <2>6
    <3>2. i - Len(h) = j - Len(h)
      BY <1>2, <3>1 DEF IsInjective
    <3> QED
      BY <1>1, <3>2
  <2>7. ASSUME NEW c \in ToSet(g[l].calls), NEW a \in 1 .. Len(f) PROVE ~Declares(f, a, c)
    BY <1>1, <2>3, <2>7, CallsAreNew DEF e
  <2> HIDE DEF f, l
  <2> QED
    BY <1>5, <2>1, <2>2, <2>3, <2>4, <2>5, <2>6, <2>7, MessagesTalk, AnswerGiven
<1>10. Anchored(g, n)
  <2>1. PICK s \in 1 .. n - 1 : HeadedBy(h, s)
    BY DEF Anchored
  <2>2. ASSUME NEW i \in 1 .. Len(g) PROVE g[i].role = "system" <=> i <= s
    <3>1. CASE i \in 1 .. Len(h)
      BY <1>5, <2>1, <3>1 DEF HeadedBy
    <3>2. CASE i \in Len(h) + 1 .. Len(g)
      BY <1>1, <1>7, <3>2
    <3> QED
      BY <1>6, <3>1, <3>2
  <2>3. n \in 2 .. Len(g) /\ n \in 1 .. Len(h) /\ h[n].role = "user"
    BY <1>1, <1>2, <1>5 DEF Anchored
  <2> QED
    BY <1>5, <2>1, <2>2, <2>3 DEF Anchored, HeadedBy
<1>11. CallsBefore(g, n, k + 1)
  <2> SUFFICES ASSUME NEW a \in 1 .. Len(g), g[a].role = "assistant", NEW c \in ToSet(g[a].calls)
               PROVE  IF a <= n THEN c[1] >= MaxIterations ELSE c \in OwnCall /\ c[1] < k + 1
    BY DEF CallsBefore
  <2>1. a \in 1 .. Len(h)
    BY <1>6, <1>7
  <2>2. CallsBefore(h, n, k + 1) /\ h[a] = g[a]
    BY <1>1, <1>5, <2>1, ExecutingCalls
  <2> QED
    BY <2>1, <2>2 DEF CallsBefore
<1>12. ASSUME NEW m PROVE Holders(g, m) = Holders(h, m)
  <2>1. \A i : i \in Holders(g, m) <=> i \in Holders(h, m)
    BY <1>5, <1>6, <1>7 DEF Holders
  <2> QED
    BY <2>1 DEF Holders
<1> QED
  BY <1>5, <1>6, <1>9, <1>10, <1>11, <1>12 DEF SameHolders

-----------------------------------------------------------------------------
(* The queue and the counters.                                             *)
LEMMA DrainIs ==
    ASSUME Queued
    PROVE  /\ Available \in Nat /\ Drained \in Seq(Injected)
           /\ Available > 0 => cycles < MaxInjectionCycles
           /\ ToSet(Drained) \subseteq Injected \ taken /\ (ToSet(Drained) = {} <=> ~(Available > 0))
           /\ From(queue, Available + 1) \in Seq(Injected) /\ IsInjective(From(queue, Available + 1))
           /\ ToSet(From(queue, Available + 1)) \subseteq Injected \ (taken \cup ToSet(Drained))
           /\ caller = "subagent" => Available = 0 /\ From(queue, Available + 1) = <<>> /\ ToSet(Drained) = {}
<1> DEFINE a == Available
           n == Len(queue)
           d == Drained
           r == From(queue, a + 1)
<1>1. /\ queue \in Seq(Injected) /\ IsInjective(queue) /\ n \in Nat /\ DOMAIN queue = 1 .. n
      /\ ToSet(queue) \subseteq Injected \ taken
  BY DEF Queued
<1>2. MaxPerDrain \in Nat \ {0}
  BY RunnerAssumption
<1> HIDE DEF n
<1>3. a \in 0 .. n /\ (a > 0 => cycles < MaxInjectionCycles)
  <2> DEFINE s == {n, MaxPerDrain}
  <2>1. s \in SUBSET Nat /\ s # {} /\ n \in s
    BY <1>1, <1>2
  <2>2. Min(s) \in Nat /\ Min(s) <= n
    <3> HIDE DEF s
    <3> QED
      BY <2>1, SmallestIn
  <2> QED
    BY <1>1, <2>2 DEF Available, n
<1> HIDE DEF a
<1>4. d \in Seq(Injected) /\ Len(d) = a /\ \A j \in 1 .. a : d[j] = queue[j]
  <2>1. 1 \in 1 .. n + 1 /\ a \in 1 - 1 .. n /\ a - 1 + 1 = a /\ \A j \in 1 .. a : 1 + j - 1 = j
    BY <1>1, <1>3
  <2>2. /\ SubSeq(queue, 1, a) \in Seq(Injected) /\ Len(SubSeq(queue, 1, a)) = a - 1 + 1
        /\ \A j \in 1 .. a - 1 + 1 : SubSeq(queue, 1, a)[j] = queue[1 + j - 1]
    BY <1>1, <2>1, SliceIs DEF n
  <2>3. d = SubSeq(queue, 1, a)
    BY DEF Drained, Upto, a
  <2> HIDE DEF d
  <2> QED
    BY <2>1, <2>2, <2>3
<1>5. r \in Seq(Injected) /\ Len(r) = n - a /\ \A j \in 1 .. n - a : r[j] = queue[a + j]
  <2>1. a + 1 \in 1 .. n + 1 /\ n - (a + 1) + 1 = n - a /\ \A j \in 1 .. n - a : (a + 1) + j - 1 = a + j
    BY <1>1, <1>3
  <2>2. /\ r \in Seq(Injected) /\ Len(r) = n - (a + 1) + 1 /\ \A j \in 1 .. n - (a + 1) + 1 : r[j] = queue[(a + 1) + j - 1]
    BY <1>1, <2>1, FromIs DEF n
  <2> HIDE DEF r
  <2> QED
    BY <2>1, <2>2
<1> HIDE DEF d, r
<1>6. \A x : x \in ToSet(d) <=> \E i \in 1 .. a : x = queue[i]
  <2>1. \A x : x \in ToSet(d) <=> \E i \in 1 .. Len(d) : x = d[i]
    BY <1>4, ListOfItsOwn
  <2> QED
    BY <1>4, <2>1
<1>7. \A x : x \in ToSet(r) <=> \E j \in 1 .. n - a : x = queue[a + j]
  <2>1. \A x : x \in ToSet(r) <=> \E i \in 1 .. Len(r) : x = r[i]
    BY <1>5, ListOfItsOwn
  <2> QED
    BY <1>5, <2>1
<1>8. \A i \in 1 .. n : queue[i] \in Injected \ taken
  BY <1>1 DEF ToSet
<1>9. ToSet(d) \subseteq Injected \ taken
  <2>1. \A i \in 1 .. a : i \in 1 .. n
    BY <1>1, <1>3
  <2> QED
    BY <1>6, <1>8, <2>1
<1>10. ToSet(r) \subseteq Injected \ (taken \cup ToSet(d))
  <2> SUFFICES ASSUME NEW j \in 1 .. n - a PROVE queue[a + j] \in Injected \ taken /\ queue[a + j] \notin ToSet(d)
    BY <1>7
  <2>1. a + j \in 1 .. n /\ \A i \in 1 .. a : i \in 1 .. n /\ i # a + j
    BY <1>1, <1>3
  <2>2. \A i \in 1 .. a : queue[i] # queue[a + j]
    BY <1>1, <2>1 DEF IsInjective
  <2> QED
    BY <1>6, <1>8, <2>1, <2>2
<1>11. IsInjective(r)
  <2> SUFFICES ASSUME NEW i \in DOMAIN r, NEW j \in DOMAIN r, r[i] = r[j] PROVE i = j
    BY DEF IsInjective
  <2>1. i \in 1 .. n - a /\ j \in 1 .. n - a
    BY <1>5
  <2>2. a + i \in 1 .. n /\ a + j \in 1 .. n
    BY <1>1, <1>3, <2>1
  <2>3. r[i] = queue[a + i] /\ r[j] = queue[a + j]
    BY <1>5, <2>1
  <2>4. a + i = a + j
    BY <1>1, <2>2, <2>3 DEF IsInjective
  <2> QED
    BY <1>3, <2>1, <2>4
<1>12. ToSet(d) = {} <=> ~(a > 0)
  <2>1. a > 0 => 1 \in 1 .. a
    BY <1>3
  <2>2. ~(a > 0) => 1 .. a = {}
    BY <1>3
  <2> QED
    BY <1>6, <2>1, <2>2
<1>13. ASSUME caller = "subagent" PROVE a = 0 /\ r = <<>> /\ ToSet(d) = {}
  <2>1. queue = <<>>
    BY <1>13 DEF Queued
  <2>2. n = 0 /\ a = 0
    BY <1>3, <2>1 DEF n
  <2> QED
    BY <1>5, <1>12, <2>2
<1>14. a \in Nat
  BY <1>1, <1>3
<1> QED
  BY <1>3, <1>4, <1>5, <1>9, <1>10, <1>11, <1>12, <1>13, <1>14 DEF a, d, r

LEMMA DrainKeeps ==
    ASSUME Queued, Counted, Drain, UNCHANGED caller
    PROVE  /\ Queued' /\ cycles' \in 0 .. MaxInjectionCycles /\ Available \in Nat
           /\ taken' = taken \cup ToSet(Drained) /\ ToSet(Drained) \subseteq Injected \ taken
           /\ ToSet(Drained) = {} <=> ~(Available > 0)
           /\ Available > 0 => caller = "turn"
<1>1. MaxInjectionCycles \in Nat
  BY RunnerAssumption
<1>2. cycles' \in 0 .. MaxInjectionCycles
  BY <1>1, DrainIs DEF Drain, Counted
<1>3. queue' \in Seq(Injected) /\ IsInjective(queue') /\ taken' = taken \cup ToSet(Drained) 
  BY DrainIs DEF Drain
<1>4. taken' \subseteq Injected /\ ToSet(queue') \subseteq Injected \ taken'
  BY DrainIs DEF Drain, Queued
<1>5. caller' = "subagent" => queue' = <<>> /\ taken' = {}
  BY DrainIs DEF Drain, Queued
<1>6. Available > 0 => caller = "turn"
  BY DrainIs DEF Counted
<1> QED
  BY <1>2, <1>3, <1>4, <1>5, <1>6, DrainIs DEF Queued

(* The three ways a step ends: the loop goes on, the step waits for what it  *)
(* has asked for, or the run is over.                                      *)
LEMMA GoesOn ==
    ASSUME Counted, iteration < MaxIterations, phase' = "model", iteration' = iteration + 1, caller' = caller,
           cycles' \in 0 .. MaxInjectionCycles, empties' \in Nat, empties' <= iteration + 1,
           recoveries' \in 0 .. MaxLengthRecoveries
    PROVE  Counted'
<1>. MaxIterations \in Nat \ {0} /\ MaxLengthRecoveries \in Nat
  BY RunnerAssumption
<1>. iteration \in Nat
  BY DEF Counted
<1>1. iteration' \in 0 .. MaxIterations /\ empties' \in 0 .. MaxIterations /\ empties' <= iteration' 
  OBVIOUS
<1>2. recoveries' \in 0 .. MaxLengthRecoveries + 1 /\ recoveries' <= MaxLengthRecoveries
  OBVIOUS
<1> QED
  BY <1>1, <1>2 DEF Counted

LEMMA Waits ==
    ASSUME Counted, iteration < MaxIterations, iteration' = iteration, caller' = caller,
           phase' \in {"tools", "salvage", "finalize", "failing"},
           cycles' \in 0 .. MaxInjectionCycles, empties' \in Nat, empties' <= iteration + 1,
           phase' \in {"tools", "salvage"} => empties' <= iteration,
           recoveries' \in 0 .. MaxLengthRecoveries
    PROVE  Counted'
<1>. MaxIterations \in Nat \ {0} /\ MaxLengthRecoveries \in Nat
  BY RunnerAssumption
<1>. iteration \in Nat
  BY DEF Counted
<1>1. iteration' \in 0 .. MaxIterations /\ empties' \in 0 .. MaxIterations /\ iteration' < MaxIterations
  OBVIOUS
<1>2. recoveries' \in 0 .. MaxLengthRecoveries + 1 /\ recoveries' <= MaxLengthRecoveries
  OBVIOUS
<1> QED
  BY <1>1, <1>2 DEF Counted

LEMMA Ends ==
    ASSUME Counted, iteration' = iteration, caller' = caller, phase' = "done",
           cycles' \in 0 .. MaxInjectionCycles, empties' = empties, recoveries' \in 0 .. MaxLengthRecoveries + 1
    PROVE  Counted'
  BY DEF Counted

LEMMA CountsAre ==
    ASSUME Counted
    PROVE  /\ empties \in Nat /\ iteration \in Nat /\ cycles \in 0 .. MaxInjectionCycles /\ recoveries \in Nat
           /\ recoveries \in 0 .. MaxLengthRecoveries + 1
           /\ phase # "done" => empties <= iteration + 1 /\ recoveries \in 0 .. MaxLengthRecoveries
           /\ phase \in {"model", "tools", "salvage"} => empties <= iteration
           /\ phase \notin {"model", "done"} => iteration < MaxIterations
           /\ caller \in {"turn", "subagent"}
<1>. MaxIterations \in Nat \ {0} /\ MaxLengthRecoveries \in Nat
  BY RunnerAssumption
<1>1. empties \in Nat /\ iteration \in Nat /\ recoveries \in Nat
  BY DEF Counted
<1>2. phase # "done" => empties <= iteration + 1
  BY <1>1 DEF Counted
<1>3. phase # "done" => recoveries \in 0 .. MaxLengthRecoveries
  BY <1>1 DEF Counted
<1> QED
  BY <1>1, <1>2, <1>3 DEF Counted

LEMMA CountsKept ==
    ASSUME Counted, Queued, Next
    PROVE  Counted'
<1>. /\ empties \in Nat /\ iteration \in Nat /\ cycles \in 0 .. MaxInjectionCycles /\ recoveries \in Nat
     /\ recoveries \in 0 .. MaxLengthRecoveries + 1
     /\ phase # "done" => empties <= iteration + 1 /\ recoveries \in 0 .. MaxLengthRecoveries
     /\ phase \in {"model", "tools", "salvage"} => empties <= iteration
     /\ phase \notin {"model", "done"} => iteration < MaxIterations
     /\ MaxLengthRecoveries \in Nat
  BY CountsAre, RunnerAssumption
<1>0. empties + 1 \in Nat /\ 0 \in Nat /\ 0 <= iteration + 1 /\ (empties <= iteration => empties <= iteration + 1 /\ empties + 1 <= iteration + 1)
  OBVIOUS
<1>1. Available \in Nat /\ (Drain /\ UNCHANGED caller => cycles' \in 0 .. MaxInjectionCycles)
  BY DrainKeeps, DrainIs
<1> HIDE DEF Available
<1>2. ASSUME phase = "model", iteration < MaxIterations, EmptyAnswer PROVE Counted'
  <2>1. /\ empties' \in Nat /\ empties' <= iteration + 1 /\ recoveries' \in 0 .. MaxLengthRecoveries
        /\ caller' = caller /\ cycles' \in 0 .. MaxInjectionCycles
    BY <1>0, <1>2 DEF EmptyAnswer
  <2>2. CASE Continue
    BY <1>2, <2>1, <2>2, GoesOn DEF Continue
  <2>3. CASE phase' = "finalize" /\ UNCHANGED iteration
    BY <1>2, <2>1, <2>3, Waits
  <2> QED
    BY <1>2, <2>2, <2>3 DEF EmptyAnswer
<1>3. ASSUME phase \in {"model", "finalize"}, iteration < MaxIterations, TruncatedText PROVE Counted'
  <2>1. recoveries' \in 0 .. MaxLengthRecoveries
    BY <1>3 DEF TruncatedText, Truncation
  <2> QED
    BY <1>3, <2>1, GoesOn DEF TruncatedText, Continue
<1>4. ASSUME phase \in {"model", "finalize"}, iteration < MaxIterations, Exhausted PROVE Counted'
  <2>1. recoveries' \in 0 .. MaxLengthRecoveries + 1
    BY <1>4 DEF Exhausted
  <2> QED
    BY <1>4, <2>1, Ends DEF Exhausted, Finish
<1>5. ASSUME phase \in {"model", "finalize"}, iteration < MaxIterations, NEW t, Deliver(t) PROVE Counted'
  <2>1. /\ cycles' \in 0 .. MaxInjectionCycles /\ caller' = caller /\ empties' = empties /\ recoveries' = recoveries
        /\ phase # "done"
    BY <1>1, <1>5 DEF Deliver
  <2>2. CASE Continue
    BY <1>5, <2>1, <2>2, GoesOn DEF Continue
  <2>3. CASE Finish(t, error, "completed")
    BY <2>1, <2>3, Ends DEF Finish
  <2> QED
    BY <1>5, <2>2, <2>3 DEF Deliver
<1>6. ASSUME phase \in {"model", "finalize"}, iteration < MaxIterations, NEW e, FailedAnswer(e) PROVE Counted'
  <2>1. /\ cycles' \in 0 .. MaxInjectionCycles /\ caller' = caller /\ empties' = empties /\ recoveries' = recoveries
        /\ phase # "done"
    BY <1>1, <1>6 DEF FailedAnswer
  <2>2. CASE Continue
    BY <1>6, <2>1, <2>2, GoesOn DEF Continue
  <2>3. CASE phase' = "failing" /\ UNCHANGED iteration
    BY <1>6, <2>1, <2>3, Waits
  <2> QED
    BY <1>6, <2>2, <2>3 DEF FailedAnswer
<1>7. ASSUME phase = "model", iteration < MaxIterations, NEW n, AskTools(n) PROVE Counted'
  BY <1>0, <1>7, Waits DEF AskTools, counters
<1>8. ASSUME phase = "model", iteration < MaxIterations, NEW n, NEW ok, TruncatedCalls(n, ok) PROVE Counted'
  <2>1. recoveries' \in 0 .. MaxLengthRecoveries
    BY <1>8 DEF TruncatedCalls, Truncation
  <2> QED
    BY <1>0, <1>8, <2>1, Waits DEF TruncatedCalls
<1>9. CASE Ask
  BY <1>2, <1>3, <1>4, <1>5, <1>6, <1>7, <1>8, <1>9 DEF Ask, Asked
<1>10. CASE FinalizeText
  <2>1. phase = "finalize" /\ iteration < MaxIterations
    BY <1>10 DEF FinalizeText
  <2> QED
    BY <1>3, <1>4, <1>5, <1>6, <1>10, <2>1 DEF FinalizeText
<1>11. CASE ToolsDone
  <2>1. cycles' \in 0 .. MaxInjectionCycles /\ recoveries' \in 0 .. MaxLengthRecoveries
    BY <1>1, <1>11 DEF ToolsDone
  <2> QED
    BY <1>0, <1>11, <2>1, GoesOn DEF ToolsDone, Continue
<1>12. ASSUME phase \in {"tools", "salvage", "failing"}, cycles' \in 0 .. MaxInjectionCycles, 
              UNCHANGED <<caller, empties, recoveries>>,
              Continue \/ \E t, e, x : Finish(t, e, x)
       PROVE  Counted'
  <2>1. CASE Continue
    BY <1>12, <2>1, GoesOn DEF Continue
  <2>2. CASE \E t, e, x : Finish(t, e, x)
    BY <1>12, <2>2, Ends DEF Finish
  <2> QED
    BY <1>12, <2>1, <2>2
<1>13. CASE ToolsFatal
  BY <1>1, <1>12, <1>13 DEF ToolsFatal
<1>14. CASE SalvageFatal
  BY <1>1, <1>12, <1>14 DEF SalvageFatal
<1>15. CASE Failing
  BY <1>1, <1>12, <1>15 DEF Failing
<1>16. CASE FinalizeWithCalls
  BY <1>16, GoesOn DEF FinalizeWithCalls, Continue, counters
<1>17. CASE SalvageDone
  BY <1>0, <1>17, GoesOn DEF SalvageDone, Continue, counters
<1>18. CASE LimitReached
  <2>1. cycles' \in 0 .. MaxInjectionCycles
    BY <1>1, <1>18 DEF LimitReached
  <2> QED
    BY <1>18, <2>1, Ends DEF LimitReached, Finish
<1>19. CASE ProgramError \/ Cancelled
  BY <1>19, Ends DEF ProgramError, Cancelled, Finish, counters
<1>20. ASSUME NEW m \in Injected, Arrive(m) PROVE Counted'
  BY <1>20 DEF Counted, Arrive, counters
<1> QED
  BY <1>9, <1>10, <1>11, <1>13, <1>14, <1>15, <1>16, <1>17, <1>18, <1>19, <1>20 DEF Next

LEMMA OutcomesKept ==
    ASSUME Outcomes, Next
    PROVE  Outcomes'
<1>1. ASSUME NEW t \in {"reply", "error text"}, Deliver(t) PROVE Outcomes'
  BY <1>1 DEF Outcomes, Deliver, Finish, result
<1>2. ASSUME NEW e \in {"llm", "empty"}, FailedAnswer(e) PROVE Outcomes'
  BY <1>2 DEF Outcomes, FailedAnswer
<1>3. CASE EmptyAnswer \/ TruncatedText \/ Exhausted
  BY <1>3 DEF Outcomes, EmptyAnswer, TruncatedText, Exhausted, TruncationNotice, Finish, result
<1>4. ASSUME NEW n, NEW ok, AskTools(n) \/ TruncatedCalls(n, ok) PROVE Outcomes'
  BY <1>4 DEF Outcomes, AskTools, TruncatedCalls, result
<1>5. CASE Ask
  BY <1>1, <1>2, <1>3, <1>4, <1>5 DEF Ask
<1>6. CASE FinalizeText
  BY <1>1, <1>2, <1>3, <1>6 DEF FinalizeText
<1>7. CASE ToolsFatal \/ SalvageFatal \/ Failing
  BY <1>7 DEF Outcomes, ToolsFatal, SalvageFatal, Failing, Finish, result
<1>8. CASE ToolsDone \/ FinalizeWithCalls \/ SalvageDone \/ LimitReached
  BY <1>8 DEF Outcomes, ToolsDone, FinalizeWithCalls, SalvageDone, LimitReached, Finish, result
<1>9. CASE ProgramError \/ Cancelled \/ \E m \in Injected : Arrive(m)
  BY <1>9 DEF Outcomes, ProgramError, Cancelled, Arrive, Finish, result
<1> QED
  BY <1>5, <1>6, <1>7, <1>8, <1>9 DEF Next

LEMMA QueueKept ==
    ASSUME Counted, Queued, Next
    PROVE  Queued'
<1>1. ASSUME Drain, UNCHANGED caller PROVE Queued'
  BY <1>1, DrainKeeps
<1>2. ASSUME UNCHANGED <<caller, queue, taken>> PROVE Queued'
  BY <1>2 DEF Queued
<1>3. ASSUME NEW m \in Injected, Arrive(m) PROVE Queued'
  <2>1. /\ queue \in Seq(Injected) /\ IsInjective(queue) /\ queue' = Append(queue, m) /\ m \notin taken \cup ToSet(queue)
        /\ caller = "turn" /\ caller' = caller /\ taken' = taken
    BY <1>3 DEF Arrive, Queued
  <2>2. /\ queue' \in Seq(Injected) /\ Len(queue') = Len(queue) + 1 /\ queue'[Len(queue) + 1] = m
        /\ Len(queue) \in Nat /\ DOMAIN queue = 1 .. Len(queue) /\ DOMAIN queue' = 1 .. Len(queue) + 1
        /\ \A i \in 1 .. Len(queue) : queue'[i] = queue[i] /\ queue'[i] # m
    <3>1. /\ queue' \in Seq(Injected) /\ Len(queue') = Len(queue) + 1 /\ queue'[Len(queue) + 1] = m
          /\ \A i \in 1 .. Len(queue) : queue'[i] = queue[i]
      BY <2>1, AppendIs
    <3>2. \A i \in 1 .. Len(queue) : queue[i] \in ToSet(queue)
      BY <2>1, ListOfItsOwn
    <3> QED
      BY <2>1, <3>1, <3>2
  <2>3. IsInjective(queue')
    <3>1. \A i \in DOMAIN queue' : i \in 1 .. Len(queue) \/ i = Len(queue) + 1
      BY <2>2
    <3> QED
      BY <2>1, <2>2, <3>1 DEF IsInjective
  <2>4. ASSUME NEW x \in ToSet(queue') PROVE x \in ToSet(queue) \cup {m}
    <3>1. PICK i \in 1 .. Len(queue') : x = queue'[i]
      BY <2>2, ListOfItsOwn
    <3>2. i \in 1 .. Len(queue) \/ i = Len(queue) + 1
      BY <2>2
    <3> QED
      BY <2>1, <2>2, <3>1, <3>2, ListOfItsOwn
  <2> QED
    BY <2>1, <2>2, <2>3, <2>4 DEF Queued
<1>4. CASE Ask
  BY <1>1, <1>2, <1>4 DEF Ask, EmptyAnswer, TruncatedText, Exhausted, Deliver, FailedAnswer, AskTools, TruncatedCalls
<1>5. CASE FinalizeText
  BY <1>1, <1>2, <1>5 DEF FinalizeText, TruncatedText, Exhausted, Deliver, FailedAnswer
<1>6. CASE ToolsDone \/ ToolsFatal \/ SalvageFatal \/ Failing \/ LimitReached
  BY <1>1, <1>6 DEF ToolsDone, ToolsFatal, SalvageFatal, Failing, LimitReached
<1>7. CASE FinalizeWithCalls \/ SalvageDone \/ ProgramError \/ Cancelled
  BY <1>2, <1>7 DEF FinalizeWithCalls, SalvageDone, ProgramError, Cancelled
<1> QED
  BY <1>3, <1>4, <1>5, <1>6, <1>7 DEF Next

-----------------------------------------------------------------------------
(* What the model is shown.                                                *)
LEMMA NewestIs ==
    ASSUME NEW h \in Seq(Message), NEW n \in 1 .. Len(h), h[n].role = "user",
           NEW u, u = Max({i \in DOMAIN h : h[i].role = "user"})
    PROVE  /\ u \in 1 .. Len(h) /\ h[u].role = "user" /\ \A i \in 1 .. Len(h) : h[i].role = "user" => i <= u
           /\ Last(h).role = "user" => h[u] = Last(h)
<1> DEFINE s == {i \in DOMAIN h : h[i].role = "user"}
<1>1. DOMAIN h = 1 .. Len(h) /\ Len(h) \in Nat /\ Len(h) \in 1 .. Len(h) /\ h # <<>>
  OBVIOUS
<1>2. \A i : i \in s <=> i \in 1 .. Len(h) /\ h[i].role = "user"
  BY <1>1
<1>3. s \in SUBSET (1 .. Len(h)) /\ s # {}
  BY <1>2
<1>4. u = Max(s)
  OBVIOUS
<1> HIDE DEF s
<1>5. u \in s /\ \A y \in s : u >= y
  BY <1>1, <1>3, <1>4, LargestIn
<1>6. \A i \in 1 .. Len(h) : h[i].role = "user" => i <= u
  <2>1. ASSUME NEW i \in 1 .. Len(h), h[i].role = "user" PROVE i <= u
    BY <1>2, <1>3, <1>5, <2>1
  <2> QED
    BY <2>1
<1>7. Last(h) = h[Len(h)]
  BY <1>1, FrontIs
<1>8. ASSUME Last(h).role = "user" PROVE u = Len(h)
  <2>1. u \in 1 .. Len(h) /\ Len(h) <= u
    BY <1>1, <1>2, <1>5, <1>6, <1>7, <1>8
  <2> QED
    BY <1>1, <2>1
<1> QED
  BY <1>2, <1>5, <1>6, <1>7, <1>8

LEMMA WindowsLegal ==
    ASSUME Anchored(messages, initial), Legal(messages), NEW w \in Windows
    PROVE  w \in Seq(Message) /\ Legal(w) /\ messages[1] \in ToSet(w) /\ Newest \in ToSet(w) /\ Newest.role = "user"
<1> DEFINE h == messages
           u == Max({i \in DOMAIN messages : messages[i].role = "user"})
<1>1. h \in Seq(Message) /\ initial \in 2 .. Len(h) /\ h[initial].role = "user"
  BY DEF Anchored
<1>2. Len(h) \in Nat /\ initial \in 1 .. Len(h)
  BY <1>1
<1>3. PICK p \in 1 .. initial - 1 : HeadedBy(h, p)
  BY DEF Anchored
<1>4. p \in 1 .. Len(h) /\ \A i \in 1 .. Len(h) : h[i].role = "system" <=> i <= p
  BY <1>1, <1>2, <1>3 DEF HeadedBy
<1>5. u \in 1 .. Len(h) /\ h[u].role = "user" /\ \A i \in 1 .. Len(h) : h[i].role = "user" => i <= u
  BY <1>1, <1>2, NewestIs
<1>6. w = Repair(h) \/ \E k \in 1 .. Len(h) : w = Repair(Snip(Repair(h), k))
  BY DEF Windows
<1>7. Newest = h[u]
  BY DEF Newest
<1>8. Legal(h)
  OBVIOUS
<1> HIDE DEF h, u
<1>9. w \in Seq(Message) /\ Legal(w) /\ h[1] \in ToSet(w) /\ h[u] \in ToSet(w)
  BY <1>1, <1>4, <1>5, <1>6, <1>8, MessagesTalk, GovernedLegal
<1> QED
  BY <1>5, <1>7, <1>9 DEF h

LEMMA SeenNow ==
    ASSUME Anchored(messages, initial), Legal(messages), taken \subseteq seen \cup Newest.text, Asked
    PROVE  taken \subseteq seen'
<1>1. PICK w \in Windows : seen' = seen \cup Inputs(w)
  BY DEF Asked
<1>2. w \in Seq(Message) /\ Newest \in ToSet(w) /\ Newest.role = "user"
  BY WindowsLegal
<1>3. Newest.text \subseteq Inputs(w)
  BY <1>2 DEF ToSet, Inputs
<1> QED
  BY <1>1, <1>3

-----------------------------------------------------------------------------
(* The steps.                                                              *)
LEMMA HoldingSame ==
    ASSUME NEW h, NEW t, Holding(h, t), NEW g, SameHolders(g, h)
    PROVE  Holding(g, t)
<1>1. ASSUME NEW m, Held(h, m) PROVE Held(g, m)
  <2>1. PICK i : Holders(h, m) = {i}
    BY <1>1 DEF Held
  <2>2. i \in Holders(g, m) /\ Holders(g, m) = {i}
    BY <2>1 DEF SameHolders
  <2>3. i \in 1 .. Len(g)
    BY <2>2 DEF Holders
  <2> QED
    BY <2>2, <2>3 DEF Held
<1> QED
  BY <1>1 DEF Holding, SameHolders

LEMMA Proceeds ==
    ASSUME NEW h, NEW k \in Nat, Anchored(h, initial), Legal(h), CallsBefore(h, initial, k), Holding(h, taken),
           NEW D, D \subseteq Injected \ taken, Grown(h, messages', D), taken' = taken \cup D,
           phase' # "done" \/ exit' = "completed" => taken \subseteq seen',
           D # {} => Last(messages').role = "user" /\ D \subseteq Last(messages').text,
           k <= MaxIterations, initial' = initial,
           phase' \in {"model", "finalize", "failing", "done"},
           phase' # "done" => /\ pending' = <<>> /\ broken' = <<>> /\ final' = None
                              /\ iteration' \in Nat /\ k <= iteration',
           phase' \in {"finalize", "failing"} => D = {},
           phase' = "done" => (exit' = "completed" => D = {}) /\ ReplyRecorded'
    PROVE  Listed' /\ Heard'
<1>1. MaxIterations \in Nat
  BY RunnerAssumption
<1>2. h \in Seq(Message) /\ messages' \in Seq(Message)
  BY DEF Anchored, Grown
<1>3. Anchored(messages', initial') /\ Legal(messages') /\ CallsBefore(messages', initial', k)
  BY <1>2, GrownAnchored, GrownLegal, GrownCalls
<1>4. /\ CallsBefore(messages', initial', MaxIterations)
      /\ phase' # "done" => CallsBefore(messages', initial', iteration')
  BY <1>1, <1>3, CallsLater
<1>5. Listed'
  BY <1>3, <1>4 DEF Listed, Waiting, Working
<1>6. Holding(messages', taken')
  BY <1>2, GrownHolding
<1>7. ASSUME phase' = "model" PROVE taken' \subseteq seen' \cup Newest'.text
  <2>0. taken \subseteq seen'
    BY <1>7
  <2>1. CASE D = {}
    BY <2>0, <2>1
  <2>2. CASE D # {}
    <3> DEFINE g == messages'
               u == Max({i \in DOMAIN g : g[i].role = "user"})
    <3>1. g \in Seq(Message) /\ initial' \in 1 .. Len(g) /\ g[initial'].role = "user" /\ Last(g).role = "user"
      BY <1>2, <1>3, <2>2 DEF Anchored
    <3>2. Newest' = g[u]
      BY DEF Newest
    <3>3. u = Max({i \in DOMAIN g : g[i].role = "user"})
      OBVIOUS
    <3>4. D \subseteq Last(g).text
      BY <2>2
    <3> HIDE DEF g, u
    <3>5. g[u] = Last(g)
      BY <3>1, <3>3, NewestIs
    <3> QED
      BY <2>0, <3>2, <3>4, <3>5
  <2> QED
    BY <2>1, <2>2
<1>8. phase' \in {"finalize", "failing"} => taken' \subseteq seen'
  OBVIOUS
<1>9. InjectedSeen'
  BY DEF InjectedSeen
<1>10. ReplyRecorded'
  BY DEF ReplyRecorded
<1> QED
  BY <1>5, <1>6, <1>7, <1>8, <1>9, <1>10 DEF Heard

(* A text that ends the run is the last one of the assistant.              *)
LEMMA Recorded ==
    ASSUME NEW h \in Seq(Message), h # <<>>, NEW t \in Word, Last(h) = Reply(t), NEW D, D \subseteq Injected,
           NEW g, g = Told(h, D), NEW said, said = {i \in DOMAIN g : g[i].role = "assistant"}
    PROVE  said # {} /\ g[Max(said)] = Reply(t)
<1>1. Reply(t).role = "assistant"
  BY ReplyIs
<1>2. Len(h) \in Nat \ {0} /\ Len(h) \in 1 .. Len(h) /\ h[Len(h)] = Reply(t)
  BY FrontIs
<1>3. /\ g \in Seq(Message) /\ Len(h) \in 1 .. Len(g) /\ g[Len(h)] = Reply(t)
      /\ \A i \in 1 .. Len(g) : g[i].role = "assistant" => i <= Len(h)
  <2>1. CASE D = {}
    <3>1. g = h
      BY <2>1 DEF Told
    <3> QED
      BY <1>2, <3>1
  <2>2. CASE D # {}
    <3> DEFINE e == User(D)
    <3>1. D \subseteq Input
      BY DEF Input
    <3>2. e \in Message /\ e.role = "user"
      BY <3>1, UserIs
    <3>3. g = Append(h, e)
      BY <1>1, <2>2 DEF Told
    <3> HIDE DEF e
    <3>4. /\ g \in Seq(Message) /\ Len(g) = Len(h) + 1 /\ g[Len(h) + 1] = e /\ \A i \in 1 .. Len(h) : g[i] = h[i]
      BY <3>2, <3>3, AppendIs
    <3>5. \A i \in 1 .. Len(g) : i <= Len(h) \/ i = Len(h) + 1
      BY <1>2, <3>4
    <3>6. Len(h) \in 1 .. Len(g) /\ g[Len(h)] = Reply(t)
      BY <1>2, <3>4
    <3> QED
      BY <3>2, <3>4, <3>5, <3>6
  <2> QED
    BY <2>1, <2>2
<1>4. \A i : i \in said <=> i \in 1 .. Len(g) /\ g[i].role = "assistant"
  BY <1>3
<1>5. Len(h) \in said /\ said \in SUBSET (1 .. Len(g)) /\ Len(g) \in Nat
  BY <1>1, <1>3, <1>4
<1>6. Max(said) \in said /\ \A y \in said : Max(said) >= y
  BY <1>5, LargestIn
<1>7. Max(said) = Len(h)
  <2>1. Max(said) <= Len(h) /\ Max(said) >= Len(h) /\ Max(said) \in Nat
    BY <1>3, <1>4, <1>5, <1>6
  <2> QED
    BY <1>2, <2>1
<1> QED
  BY <1>3, <1>5, <1>7

LEMMA AtRest ==
    ASSUME IInv, Waiting
    PROVE  /\ Anchored(messages, initial) /\ Legal(messages) /\ CallsBefore(messages, initial, iteration)
           /\ Holding(messages, taken) /\ messages \in Seq(Message) /\ messages # <<>>
           /\ iteration \in Nat /\ iteration <= MaxIterations /\ MaxIterations \in Nat
           /\ pending = <<>> /\ broken = <<>> /\ final = None /\ phase # "done"
<1>1. MaxIterations \in Nat /\ iteration \in 0 .. MaxIterations
  BY RunnerAssumption DEF IInv, Counted
<1>2. Anchored(messages, initial)
  BY DEF IInv, Listed
<1>3. messages \in Seq(Message) /\ messages # <<>>
  BY <1>2 DEF Anchored
<1>4. phase # "done"
  BY DEF Waiting
<1> QED
  BY <1>1, <1>2, <1>3, <1>4 DEF IInv, Listed, Heard

(* A step that drains the queue into a list.                               *)
LEMMA DrainTold ==
    ASSUME IInv, Drain, UNCHANGED caller, NEW h \in Seq(Message), h # <<>>, messages' = FoldLeft(Inject, h, Drained),
           NEW D, D = ToSet(Drained)
    PROVE  /\ messages' = Told(h, D) /\ Grown(h, messages', D) /\ taken' = taken \cup D
           /\ D \subseteq Injected \ taken /\ D \subseteq Injected
           /\ D # {} => Last(messages').role = "user" /\ D \subseteq Last(messages').text
           /\ D = {} <=> ~(Available > 0)
<1>1. Queued /\ Counted
  BY DEF IInv
<1>2. /\ D \subseteq Injected \ taken /\ (D = {} <=> ~(Available > 0)) /\ taken' = taken \cup D
      /\ Drained \in Seq(Injected)
  BY <1>1, DrainIs, DrainKeeps
<1>3. messages' = Told(h, D)
  BY <1>2, InjectRuns
<1>4. D \subseteq Injected
  BY <1>2
<1> QED
  BY <1>2, <1>3, <1>4, GrownTold

LEMMA EmptyIs ==
    ASSUME IInv, Waiting, iteration < MaxIterations, taken \subseteq seen', EmptyAnswer
    PROVE  Listed' /\ Heard'
<1>. DEFINE h == messages
<1>1. /\ Anchored(h, initial) /\ Legal(h) /\ CallsBefore(h, initial, iteration) /\ Holding(h, taken)
      /\ h \in Seq(Message) /\ h # <<>> /\ iteration \in Nat /\ iteration <= MaxIterations
  BY AtRest
<1>2. /\ messages' = h /\ taken' = taken /\ initial' = initial
      /\ pending' = <<>> /\ broken' = <<>> /\ final' = None
      /\ phase' \in {"model", "finalize"} /\ (iteration' = iteration \/ iteration' = iteration + 1)
  BY AtRest DEF EmptyAnswer, Continue, calling, result
<1>3. Grown(h, messages', {})
  <2>1. Told(h, {}) = h /\ {} \subseteq Injected
    BY DEF Told
  <2> QED
    BY <1>1, <1>2, <2>1, GrownTold
<1>4. iteration' \in Nat /\ iteration <= iteration' /\ {} \subseteq Injected \ taken /\ taken' = taken \cup {}
  BY <1>1, <1>2
<1> HIDE DEF h
<1> QED
  BY <1>1, <1>2, <1>3, <1>4, Proceeds

(* Two messages more.                                                      *)
LEMMA TwoMore ==
    ASSUME NEW h \in Seq(Message), NEW a \in Message, NEW b \in Message
    PROVE  h \o <<a, b>> = Append(Append(h, a), b)
  OBVIOUS

LEMMA PromptIs == Prompt \in Message /\ Prompt.role = "user" /\ Prompt.text = {}
<1>1. {} \subseteq Input
  OBVIOUS
<1> QED
  BY <1>1, UserIs DEF Prompt

LEMMA ReplyBehind ==
    ASSUME NEW h \in Seq(Message), NEW t \in Word
    PROVE  Grown(h, Append(h, Reply(t)), {}) /\ Append(h, Reply(t)) \in Seq(Message) /\ Append(h, Reply(t)) # <<>>
           /\ Last(Append(h, Reply(t))) = Reply(t)
<1>1. Reply(t) \in Message /\ Reply(t).role = "assistant" /\ Reply(t).calls = <<>>
  BY ReplyIs
<1> QED
  BY <1>1, GrownBy, AppendIs DEF Behind

LEMMA PromptBehind ==
    ASSUME NEW h \in Seq(Message)
    PROVE  Grown(h, Append(h, Prompt), {})
  BY PromptIs, GrownBy DEF Behind

LEMMA TruncatedTextIs ==
    ASSUME IInv, Waiting, iteration < MaxIterations, taken \subseteq seen', TruncatedText
    PROVE  Listed' /\ Heard'
<1>. DEFINE h == messages
            x == Append(h, Reply("partial"))
<1>1. /\ Anchored(h, initial) /\ Legal(h) /\ CallsBefore(h, initial, iteration) /\ Holding(h, taken)
      /\ h \in Seq(Message) /\ iteration \in Nat /\ iteration <= MaxIterations
  BY AtRest
<1>2. /\ messages' = h \o <<Reply("partial"), Prompt>> /\ taken' = taken /\ initial' = initial
      /\ pending' = <<>> /\ broken' = <<>> /\ final' = None
      /\ phase' = "model" /\ iteration' = iteration + 1
  BY AtRest DEF TruncatedText, Continue, calling, result
<1>3. "partial" \in Word
  BY DEF Word
<1> HIDE DEF h
<1>4. Grown(h, x, {}) /\ x \in Seq(Message)
  BY <1>1, <1>3, ReplyBehind
<1>5. messages' = Append(x, Prompt)
  BY <1>1, <1>2, <1>3, ReplyIs, PromptIs, TwoMore
<1> HIDE DEF x
<1>6. Grown(h, messages', {})
  BY <1>1, <1>4, <1>5, PromptBehind, GrownAgain
<1>7. iteration' \in Nat /\ iteration <= iteration' /\ {} \subseteq Injected \ taken /\ taken' = taken \cup {}
  BY <1>1, <1>2
<1> QED
  BY <1>1, <1>2, <1>6, <1>7, Proceeds

LEMMA FinalizeWithCallsIs ==
    ASSUME IInv, FinalizeWithCalls
    PROVE  Listed' /\ Heard'
<1>. DEFINE h == messages
<1>0. Waiting /\ taken \subseteq seen' /\ phase = "finalize"
  BY DEF FinalizeWithCalls, Waiting, IInv, Heard
<1>1. /\ Anchored(h, initial) /\ Legal(h) /\ CallsBefore(h, initial, iteration) /\ Holding(h, taken)
      /\ h \in Seq(Message) /\ iteration \in Nat /\ iteration <= MaxIterations
  BY <1>0, AtRest
<1>2. /\ messages' = Append(h, Prompt) /\ taken' = taken /\ initial' = initial
      /\ pending' = <<>> /\ broken' = <<>> /\ final' = None
      /\ phase' = "model" /\ iteration' = iteration + 1
  BY <1>0, AtRest DEF FinalizeWithCalls, Continue, calling, result
<1> HIDE DEF h
<1>3. Grown(h, messages', {})
  BY <1>1, <1>2, PromptBehind
<1>4. iteration' \in Nat /\ iteration <= iteration' /\ {} \subseteq Injected \ taken /\ taken' = taken \cup {}
  BY <1>1, <1>2
<1> QED
  BY <1>0, <1>1, <1>2, <1>3, <1>4, Proceeds

LEMMA ExhaustedIs ==
    ASSUME IInv, Waiting, taken \subseteq seen', Exhausted
    PROVE  Listed' /\ Heard'
<1>. DEFINE h == messages
            said == {i \in DOMAIN messages' : messages'[i].role = "assistant"}
<1>1. /\ Anchored(h, initial) /\ Legal(h) /\ CallsBefore(h, initial, iteration) /\ Holding(h, taken)
      /\ h \in Seq(Message) /\ h # <<>> /\ iteration \in Nat /\ iteration <= MaxIterations
  BY AtRest
<1>2. /\ messages' = Closed(h, "notice") /\ taken' = taken /\ initial' = initial
      /\ phase' = "done" /\ final' = "notice"
  BY DEF Exhausted, Finish, TruncationNotice
<1>3. "notice" \in Word
  BY DEF Word
<1> HIDE DEF h
<1>4. /\ Grown(h, messages', {}) /\ messages' \in Seq(Message) /\ messages' # <<>> 
      /\ Last(messages') = Reply("notice")
  BY <1>1, <1>2, <1>3, ClosedIs
<1>5. said # {} /\ messages'[Max(said)] = Reply("notice")
  <2>1. messages' = Told(messages', {}) /\ {} \subseteq Injected
    BY DEF Told
  <2>2. said = {i \in DOMAIN messages' : messages'[i].role = "assistant"}
    OBVIOUS
  <2> HIDE DEF said
  <2> QED
    BY <1>3, <1>4, <2>1, <2>2, Recorded
<1>6. ReplyRecorded'
  BY <1>2, <1>5 DEF ReplyRecorded
<1>7. {} \subseteq Injected \ taken /\ taken' = taken \cup {}
  BY <1>2
<1> QED
  BY <1>1, <1>2, <1>4, <1>6, <1>7, Proceeds

LEMMA DeliverIs ==
    ASSUME IInv, Waiting, iteration < MaxIterations, taken \subseteq seen', NEW t \in Word, Deliver(t)
    PROVE  Listed' /\ Heard'
<1>. DEFINE h == messages
            x == Append(h, Reply(t))
            D == ToSet(Drained)
            said == {i \in DOMAIN messages' : messages'[i].role = "assistant"}
<1>1. /\ Anchored(h, initial) /\ Legal(h) /\ CallsBefore(h, initial, iteration) /\ Holding(h, taken)
      /\ h \in Seq(Message) /\ iteration \in Nat /\ iteration <= MaxIterations
  BY AtRest
<1>2. /\ messages' = FoldLeft(Inject, x, Drained) /\ Drain /\ UNCHANGED caller /\ initial' = initial
      /\ pending' = <<>> /\ broken' = <<>>
      /\ IF Available > 0 THEN phase' = "model" /\ iteration' = iteration + 1 /\ final' = None
         ELSE phase' = "done" /\ final' = t /\ iteration' = iteration
  BY AtRest DEF Deliver, Continue, Finish, calling, result
<1> HIDE DEF h
<1>3. Grown(h, x, {}) /\ x \in Seq(Message) /\ x # <<>> /\ Last(x) = Reply(t)
  BY <1>1, ReplyBehind
<1> HIDE DEF x
<1>4. D = ToSet(Drained)
  OBVIOUS
<1> HIDE DEF D
<1>5. /\ messages' = Told(x, D) /\ Grown(x, messages', D) /\ taken' = taken \cup D
      /\ D \subseteq Injected \ taken /\ D \subseteq Injected
      /\ D # {} => Last(messages').role = "user" /\ D \subseteq Last(messages').text
      /\ D = {} <=> ~(Available > 0)
  BY <1>2, <1>3, <1>4, DrainTold
<1>6. Grown(h, messages', D)
  BY <1>1, <1>3, <1>5, GrownAgain
<1>7. said # {} /\ messages'[Max(said)] = Reply(t)
  <2>1. said = {i \in DOMAIN messages' : messages'[i].role = "assistant"}
    OBVIOUS
  <2> HIDE DEF said
  <2> QED
    BY <1>3, <1>5, <2>1, Recorded
<1>8. phase' = "done" => ReplyRecorded' /\ D = {}
  BY <1>2, <1>5, <1>7 DEF ReplyRecorded
<1>9. phase' # "done" => iteration' \in Nat /\ iteration <= iteration'
  BY <1>1, <1>2
<1> QED
  BY <1>1, <1>2, <1>5, <1>6, <1>8, <1>9, Proceeds

LEMMA FailedAnswerIs ==
    ASSUME IInv, Waiting, iteration < MaxIterations, taken \subseteq seen', NEW e, FailedAnswer(e)
    PROVE  Listed' /\ Heard'
<1>. DEFINE h == messages
            D == ToSet(Drained)
<1>1. /\ Anchored(h, initial) /\ Legal(h) /\ CallsBefore(h, initial, iteration) /\ Holding(h, taken)
      /\ h \in Seq(Message) /\ h # <<>> /\ iteration \in Nat /\ iteration <= MaxIterations
  BY AtRest
<1>2. /\ messages' = FoldLeft(Inject, h, Drained) /\ Drain /\ UNCHANGED caller /\ initial' = initial
      /\ pending' = <<>> /\ broken' = <<>> /\ final' = None
      /\ IF Available > 0 THEN phase' = "model" /\ iteration' = iteration + 1
         ELSE phase' = "failing" /\ iteration' = iteration
  BY AtRest DEF FailedAnswer, Continue, calling
<1> HIDE DEF h
<1>3. D = ToSet(Drained)
  OBVIOUS
<1> HIDE DEF D
<1>4. /\ Grown(h, messages', D) /\ taken' = taken \cup D /\ D \subseteq Injected \ taken
      /\ D # {} => Last(messages').role = "user" /\ D \subseteq Last(messages').text
      /\ D = {} <=> ~(Available > 0)
  BY <1>1, <1>2, <1>3, DrainTold
<1>5. iteration' \in Nat /\ iteration <= iteration' /\ phase' \in {"model", "failing"} /\ (phase' = "failing" => D = {})
  BY <1>1, <1>2, <1>4
<1> QED
  BY <1>1, <1>2, <1>4, <1>5, Proceeds

LEMMA FailingIs ==
    ASSUME IInv, Failing
    PROVE  Listed' /\ Heard'
<1>. DEFINE h == messages
            D == ToSet(Drained)
<1>0. Waiting /\ taken \subseteq seen' /\ phase = "failing"
  BY DEF Failing, Waiting, IInv, Heard
<1>1. /\ Anchored(h, initial) /\ Legal(h) /\ CallsBefore(h, initial, iteration) /\ Holding(h, taken)
      /\ h \in Seq(Message) /\ h # <<>> /\ iteration \in Nat /\ iteration <= MaxIterations
  BY <1>0, AtRest
<1>2. /\ messages' = FoldLeft(Inject, h, Drained) /\ Drain /\ UNCHANGED caller /\ initial' = initial
      /\ pending' = <<>> /\ broken' = <<>> /\ final' = None
      /\ IF Available > 0 THEN phase' = "model" /\ iteration' = iteration + 1
         ELSE phase' = "done" /\ iteration' = iteration
  BY <1>0, AtRest DEF Failing, Continue, Finish, calling, result
<1> HIDE DEF h
<1>3. D = ToSet(Drained)
  OBVIOUS
<1> HIDE DEF D
<1>4. /\ Grown(h, messages', D) /\ taken' = taken \cup D /\ D \subseteq Injected \ taken
      /\ D # {} => Last(messages').role = "user" /\ D \subseteq Last(messages').text
      /\ D = {} <=> ~(Available > 0)
  BY <1>1, <1>2, <1>3, DrainTold
<1>5. iteration' \in Nat /\ iteration <= iteration' /\ phase' \in {"model", "done"} /\ (phase' = "done" => D = {})
  BY <1>1, <1>2, <1>4
<1>6. ReplyRecorded'
  BY <1>2 DEF ReplyRecorded
<1> QED
  BY <1>0, <1>1, <1>2, <1>4, <1>5, <1>6, Proceeds

LEMMA LimitIs ==
    ASSUME IInv, LimitReached
    PROVE  Listed' /\ Heard'
<1>. DEFINE h == messages
            x == Closed(h, "limit")
            D == ToSet(Drained)
            said == {i \in DOMAIN messages' : messages'[i].role = "assistant"}
<1>0. Waiting
  BY DEF LimitReached, Waiting
<1>1. /\ Anchored(h, initial) /\ Legal(h) /\ CallsBefore(h, initial, iteration) /\ Holding(h, taken)
      /\ h \in Seq(Message) /\ h # <<>> /\ iteration \in Nat /\ iteration <= MaxIterations
  BY <1>0, AtRest
<1>2. /\ messages' = FoldLeft(Inject, x, Drained) /\ Drain /\ UNCHANGED caller /\ initial' = initial
      /\ phase' = "done" /\ final' = "limit" /\ exit' = "max_iterations"
  BY DEF LimitReached, Finish
<1>3. "limit" \in Word
  BY DEF Word
<1> HIDE DEF h
<1>4. Grown(h, x, {}) /\ x \in Seq(Message) /\ x # <<>> /\ Last(x) = Reply("limit")
  BY <1>1, <1>3, ClosedIs
<1> HIDE DEF x
<1>5. D = ToSet(Drained)
  OBVIOUS
<1> HIDE DEF D
<1>6. /\ messages' = Told(x, D) /\ Grown(x, messages', D) /\ taken' = taken \cup D
      /\ D \subseteq Injected \ taken /\ D \subseteq Injected
      /\ D # {} => Last(messages').role = "user" /\ D \subseteq Last(messages').text
  BY <1>2, <1>4, <1>5, DrainTold
<1>7. Grown(h, messages', D)
  BY <1>1, <1>4, <1>6, GrownAgain
<1>8. said # {} /\ messages'[Max(said)] = Reply("limit")
  <2>1. said = {i \in DOMAIN messages' : messages'[i].role = "assistant"}
    OBVIOUS
  <2> HIDE DEF said
  <2> QED
    BY <1>3, <1>4, <1>6, <2>1, Recorded
<1>9. ReplyRecorded'
  BY <1>2, <1>8 DEF ReplyRecorded
<1> QED
  BY <1>1, <1>2, <1>6, <1>7, <1>9, Proceeds

(* An answer with calls: complete ones, and those that are cut off.          *)
LEMMA BatchOf ==
    ASSUME NEW h \in Seq(Message), NEW cs \in Seq(OwnCall), IsInjective(cs), NEW t \in Word, NEW ok,
           NEW g, g = Append(h, Assistant(t, cs)),
           NEW p, p = Picked(cs, ok), NEW b, b = Picked(cs, (1 .. Len(cs)) \ ok)
    PROVE  Batch(g, p, b)
<1>1. g[Len(g)].calls = cs
  <2> DEFINE e == Assistant(t, cs)
  <2>1. e \in Message /\ e.calls = cs
    BY OwnCallIs, AnswerIs
  <2> HIDE DEF e
  <2>2. g = Append(h, e)
    BY DEF e
  <2>3. Len(g) = Len(h) + 1 /\ g[Len(h) + 1] = e
    BY <2>1, <2>2, AppendIs
  <2> QED
    BY <2>1, <2>3
<1>2. Len(cs) \in Nat /\ DOMAIN cs = 1 .. Len(cs) /\ \A i \in 1 .. Len(cs) : i \in (1 .. Len(cs)) \ ok <=> i \notin ok
  OBVIOUS
<1>3. /\ p \in Seq(OwnCall) /\ IsInjective(p)
      /\ \A j \in 1 .. Len(p) : \E i \in 1 .. Len(cs) : i \in ok /\ p[j] = cs[i]
      /\ \A i \in 1 .. Len(cs) : i \in ok => \E j \in 1 .. Len(p) : p[j] = cs[i]
  <2>1. p \in Seq(OwnCall) /\ IsInjective(p) /\ PartOf(p, cs, ok)
    BY PickedAre
  <2> QED
    BY <2>1 DEF PartOf
<1>4. /\ b \in Seq(OwnCall) /\ IsInjective(b)
      /\ \A j \in 1 .. Len(b) : \E i \in 1 .. Len(cs) : i \notin ok /\ b[j] = cs[i]
      /\ \A i \in 1 .. Len(cs) : i \notin ok => \E j \in 1 .. Len(b) : b[j] = cs[i]
  <2> DEFINE Q == (1 .. Len(cs)) \ ok
  <2>1. b = Picked(cs, Q) /\ \A i \in 1 .. Len(cs) : i \in Q <=> i \notin ok
    OBVIOUS
  <2> HIDE DEF Q
  <2>2. b \in Seq(OwnCall) /\ IsInjective(b) /\ PartOf(b, cs, Q)
    BY <2>1, PickedAre
  <2> QED
    BY <2>1, <2>2 DEF PartOf
<1>5. Len(p) + Len(b) = Len(cs)
  BY <1>2, PickedParts
<1> DEFINE q == p \o b
<1>6. /\ q \in Seq(OwnCall) /\ Len(q) = Len(p) + Len(b) /\ Len(p) \in Nat /\ Len(b) \in Nat
      /\ \A j \in 1 .. Len(p) : q[j] = p[j]
  BY <1>3, <1>4, ConcatIs
<1>7. \A j \in 1 .. Len(b) : q[Len(p) + j] = b[j]
  BY <1>3, <1>4, ConcatIs
<1> HIDE DEF q
<1>8. ASSUME NEW j \in 1 .. Len(q) PROVE j \in 1 .. Len(p) \/ (j - Len(p) \in 1 .. Len(b) /\ Len(p) + (j - Len(p)) = j)
  BY <1>6
<1>9. ASSUME NEW j \in 1 .. Len(q), ~(j \in 1 .. Len(p)) PROVE q[j] = b[j - Len(p)] /\ j - Len(p) \in 1 .. Len(b)
  <2>1. j - Len(p) \in 1 .. Len(b) /\ Len(p) + (j - Len(p)) = j
    BY <1>8, <1>9
  <2> QED
    BY <1>7, <2>1
<1>10. ASSUME NEW j \in 1 .. Len(q) PROVE \E i \in 1 .. Len(cs) : q[j] = cs[i] /\ (i \in ok <=> j \in 1 .. Len(p))
  <2>1. CASE j \in 1 .. Len(p)
    BY <1>3, <1>6, <2>1
  <2>2. CASE ~(j \in 1 .. Len(p))
    <3>1. q[j] = b[j - Len(p)] /\ j - Len(p) \in 1 .. Len(b)
      BY <1>9, <2>2
    <3>2. PICK i \in 1 .. Len(cs) : i \notin ok /\ b[j - Len(p)] = cs[i]
      BY <1>4, <3>1
    <3> QED
      BY <2>2, <3>1, <3>2
  <2> QED
    BY <2>1, <2>2
<1>11. DOMAIN q = 1 .. Len(q) /\ DOMAIN p = 1 .. Len(p) /\ DOMAIN b = 1 .. Len(b)
  BY <1>3, <1>4, <1>6
<1>12. IsInjective(q)
  <2> SUFFICES ASSUME NEW i \in DOMAIN q, NEW j \in DOMAIN q, q[i] = q[j] PROVE i = j
    BY DEF IsInjective
  <2>1. i \in 1 .. Len(q) /\ j \in 1 .. Len(q)
    BY <1>11
  <2>2. PICK x \in 1 .. Len(cs) : q[i] = cs[x] /\ (x \in ok <=> i \in 1 .. Len(p))
    BY <1>10, <2>1
  <2>3. PICK y \in 1 .. Len(cs) : q[j] = cs[y] /\ (y \in ok <=> j \in 1 .. Len(p))
    BY <1>10, <2>1
  <2>4. x = y
    BY <1>2, <2>2, <2>3 DEF IsInjective
  <2>5. CASE i \in 1 .. Len(p)
    <3>1. j \in 1 .. Len(p) /\ p[i] = p[j]
      BY <1>6, <2>2, <2>3, <2>4, <2>5
    <3> QED
      BY <1>3, <1>11, <2>5, <3>1 DEF IsInjective
  <2>6. CASE ~(i \in 1 .. Len(p))
    <3>1. ~(j \in 1 .. Len(p))
      BY <2>2, <2>3, <2>4, <2>6
    <3>2. b[i - Len(p)] = b[j - Len(p)] /\ i - Len(p) \in DOMAIN b /\ j - Len(p) \in DOMAIN b
      BY <1>9, <1>11, <2>1, <2>6, <3>1
    <3>3. i - Len(p) = j - Len(p)
      BY <1>4, <3>2 DEF IsInjective
    <3>4. i \in Int /\ j \in Int
      BY <2>1
    <3> QED
      BY <1>6, <3>3, <3>4
  <2> QED
    BY <2>5, <2>6
<1>13. ASSUME NEW x PROVE x \in ToSet(q) <=> x \in ToSet(cs)
  <2>1. x \in ToSet(q) <=> \E i \in 1 .. Len(q) : x = q[i]
    BY <1>6, ListOfItsOwn
  <2>2. x \in ToSet(cs) <=> \E i \in 1 .. Len(cs) : x = cs[i]
    BY ListOfItsOwn
  <2>3. ASSUME NEW i \in 1 .. Len(cs) PROVE \E j \in 1 .. Len(q) : q[j] = cs[i]
    <3>1. CASE i \in ok
      <4>1. PICK j \in 1 .. Len(p) : p[j] = cs[i]
        BY <1>3, <3>1
      <4>2. j \in 1 .. Len(q)
        BY <1>6
      <4> QED
        BY <1>6, <4>1, <4>2
    <3>2. CASE i \notin ok
      <4>1. PICK j \in 1 .. Len(b) : b[j] = cs[i]
        BY <1>4, <3>2
      <4>2. Len(p) + j \in 1 .. Len(q)
        BY <1>6
      <4> QED
        BY <1>7, <4>1, <4>2
    <3> QED
      BY <3>1, <3>2
  <2> QED
    BY <1>10, <2>1, <2>2, <2>3
<1>14. ToSet(q) = ToSet(cs)
  BY <1>13
<1>15. Len(q) = Len(cs)
  BY <1>5, <1>6
<1> QED
  BY <1>1, <1>3, <1>4, <1>12, <1>14, <1>15 DEF Batch, q

LEMMA CallsAsked ==
    ASSUME IInv, Waiting, iteration < MaxIterations, taken \subseteq seen', NEW n \in 1 .. MaxCalls, NEW ok, NEW t \in Word,
           messages' = Append(messages, Assistant(t, CallIds(n, ok))), 
           Batch(messages', pending', broken'),
           phase' \in {"tools", "salvage"}, phase' = "tools" => broken' = <<>>,
           UNCHANGED <<initial, iteration, taken, final>>
    PROVE  Listed' /\ Heard'
<1> DEFINE h == messages
           cs == CallIds(n, ok)
           g == messages'
           p == pending'
           b == broken'
<1>1. /\ Anchored(h, initial) /\ Legal(h) /\ CallsBefore(h, initial, iteration) /\ Holding(h, taken)
      /\ h \in Seq(Message) /\ iteration \in Nat /\ iteration <= MaxIterations /\ MaxIterations \in Nat /\ final = None
  BY AtRest
<1>2. iteration \in 0 .. MaxIterations - 1
  BY <1>1
<1>3. cs \in Seq(OwnCall) /\ IsInjective(cs) /\ \A c \in ToSet(cs) : c \in OwnCall /\ c[1] = iteration
  BY <1>2, AskedCalls
<1>4. g = Append(h, Assistant(t, cs)) /\ Batch(Append(h, Assistant(t, cs)), p, b)
  OBVIOUS
<1> HIDE DEF h, cs, g, p, b
<1>5. Anchored(g, initial) /\ Executing(g, initial, iteration, p, b) /\ SameHolders(g, h)
  <2>1. Anchored(g, initial)
    BY <1>1, <1>3, <1>4, Asks
  <2>2. Executing(g, initial, iteration, p, b)
    BY <1>1, <1>3, <1>4, Asks
  <2>3. SameHolders(g, h)
    BY <1>1, <1>3, <1>4, Asks
  <2> QED
    BY <2>1, <2>2, <2>3
<1>6. Holding(g, taken)
  BY <1>1, <1>5, HoldingSame
<1>7. Listed'
  BY <1>5 DEF Listed, Waiting, Working, g, p, b
<1>8. InjectedSeen' /\ ReplyRecorded' /\ final' = None
  BY <1>1 DEF InjectedSeen, ReplyRecorded
<1> QED
  BY <1>6, <1>7, <1>8 DEF Heard, g

LEMMA AskToolsIs ==
    ASSUME IInv, phase = "model", iteration < MaxIterations, taken \subseteq seen', NEW n \in 1 .. MaxCalls, AskTools(n)
    PROVE  Listed' /\ Heard'
<1> DEFINE ok == 1 .. n
           cs == CallIds(n, ok)
<1>1. Waiting /\ messages \in Seq(Message) /\ broken = <<>> /\ iteration \in Nat /\ MaxIterations \in Nat
  BY AtRest DEF Waiting
<1>2. "text" \in Word
  BY DEF Word
<1>3. cs \in Seq(OwnCall) /\ Len(cs) = n /\ IsInjective(cs)
  <2>1. iteration \in 0 .. MaxIterations - 1
    BY <1>1
  <2> QED
    BY <2>1, AskedCalls
<1>4. /\ messages' = Append(messages, Assistant("text", cs)) /\ pending' = cs /\ broken' = <<>>
      /\ phase' = "tools" /\ UNCHANGED <<initial, iteration, taken, final>>
  BY <1>1 DEF AskTools, result
<1>5. n \in Nat /\ (\A i \in 1 .. n : i \in ok) /\ \A i \in 1 .. n : i \notin (1 .. n) \ ok
  OBVIOUS
<1>6. messages' = Append(messages, Assistant("text", CallIds(n, ok)))
  BY <1>4
<1> HIDE DEF ok, cs
<1>7. Picked(cs, ok) = cs /\ Picked(cs, (1 .. Len(cs)) \ ok) = <<>>
  BY <1>3, <1>5, PickedAll, PickedNone
<1>8. Batch(messages', pending', broken')
  BY <1>1, <1>2, <1>3, <1>4, <1>7, BatchOf
<1> QED
  BY <1>1, <1>2, <1>4, <1>6, <1>8, CallsAsked

LEMMA TruncatedCallsIs ==
    ASSUME IInv, phase = "model", iteration < MaxIterations, taken \subseteq seen', NEW n \in 1 .. MaxCalls, NEW ok,
           TruncatedCalls(n, ok)
    PROVE  Listed' /\ Heard'
<1> DEFINE cs == CallIds(n, ok)
<1>1. Waiting /\ messages \in Seq(Message) /\ iteration \in Nat /\ MaxIterations \in Nat
  BY AtRest DEF Waiting
<1>2. "partial" \in Word
  BY DEF Word
<1>3. cs \in Seq(OwnCall) /\ Len(cs) = n /\ IsInjective(cs)
  <2>1. iteration \in 0 .. MaxIterations - 1
    BY <1>1
  <2> QED
    BY <2>1, AskedCalls
<1>4. /\ messages' = Append(messages, Assistant("partial", cs)) 
      /\ pending' = Picked(cs, ok) /\ broken' = Picked(cs, (1 .. n) \ ok)
      /\ phase' = "salvage" /\ UNCHANGED <<initial, iteration, taken, final>>
  BY DEF TruncatedCalls, result
<1>5. messages' = Append(messages, Assistant("partial", CallIds(n, ok)))
  BY <1>4
<1> HIDE DEF cs
<1>6. Batch(messages', pending', broken')
  BY <1>1, <1>2, <1>3, <1>4, BatchOf
<1> QED
  BY <1>1, <1>2, <1>4, <1>5, <1>6, CallsAsked

(* The results of an answer are in.                                        *)
LEMMA AtWork ==
    ASSUME IInv, Working
    PROVE  /\ Anchored(messages, initial) /\ Executing(messages, initial, iteration, pending, broken)
           /\ Holding(messages, taken) /\ messages \in Seq(Message) /\ messages # <<>>
           /\ iteration \in Nat /\ iteration + 1 <= MaxIterations /\ MaxIterations \in Nat
           /\ pending \in Seq(OwnCall) /\ broken \in Seq(OwnCall) /\ initial \in Nat
           /\ final = None /\ phase # "done" /\ taken \subseteq seen /\ (phase = "tools" => broken = <<>>)
<1>1. phase \in {"tools", "salvage"}
  BY DEF Working
<1>2. MaxIterations \in Nat 
  BY RunnerAssumption
<1>3. iteration \in 0 .. MaxIterations /\ iteration < MaxIterations
  BY <1>1 DEF IInv, Counted
<1>4. Anchored(messages, initial) /\ Executing(messages, initial, iteration, pending, broken) /\ (phase = "tools" => broken = <<>>)
  BY DEF IInv, Listed
<1>5. messages \in Seq(Message) /\ messages # <<>> /\ initial \in Nat
  BY <1>4 DEF Anchored
<1>6. pending \in Seq(OwnCall) /\ broken \in Seq(OwnCall)
  BY <1>4 DEF Executing, Batch
<1>7. Holding(messages, taken) /\ final = None /\ taken \subseteq seen
  BY <1>1 DEF IInv, Heard
<1>8. iteration \in Nat /\ iteration + 1 <= MaxIterations
  BY <1>2, <1>3
<1> QED
  BY <1>1, <1>2, <1>4, <1>5, <1>6, <1>7, <1>8

LEMMA ResultsIn ==
    ASSUME IInv, Working, NEW x, x = messages \o ResultsOf(pending \o broken)
    PROVE  /\ x \in Seq(Message) /\ x # <<>> /\ Legal(x) /\ Anchored(x, initial) /\ CallsBefore(x, initial, iteration + 1)
           /\ Holding(x, taken)
<1>1. /\ Anchored(messages, initial) /\ Executing(messages, initial, iteration, pending, broken)
      /\ Holding(messages, taken) /\ iteration \in Nat
  BY AtWork
<1>2. /\ x \in Seq(Message) /\ x # <<>> /\ Legal(x) /\ Anchored(x, initial) /\ CallsBefore(x, initial, iteration + 1)
      /\ SameHolders(x, messages)
  <2>1. x \in Seq(Message) /\ x # <<>> /\ Legal(x)
    BY <1>1, Answers
  <2>2. Anchored(x, initial) /\ CallsBefore(x, initial, iteration + 1)
    BY <1>1, Answers
  <2>3. SameHolders(x, messages)
    BY <1>1, Answers
  <2> QED
    BY <2>1, <2>2, <2>3
<1> QED
  BY <1>1, <1>2, HoldingSame

LEMMA ToolsIn ==
    ASSUME IInv, phase = "tools", Drain, UNCHANGED <<caller, initial, broken>>, pending' = <<>>, 
           messages' = FoldLeft(Inject, messages \o ResultsOf(pending), Drained), taken \subseteq seen', final' = None,
           (phase' = "model" /\ iteration' = iteration + 1) \/ (phase' = "done" /\ ~(Available > 0))
    PROVE  Listed' /\ Heard'
<1> DEFINE x == messages \o ResultsOf(pending)
           k == iteration + 1
           D == ToSet(Drained)
<1>1. Working
  BY DEF Working
<1>2. iteration \in Nat /\ iteration + 1 <= MaxIterations /\ pending \in Seq(OwnCall) /\ broken = <<>>
  BY <1>1, AtWork
<1>3. k \in Nat /\ k <= MaxIterations /\ pending \o <<>> = pending
  BY <1>2
<1>4. x = messages \o ResultsOf(pending \o broken)
  BY <1>2, <1>3
<1>5. D = ToSet(Drained) /\ messages' = FoldLeft(Inject, x, Drained)
  OBVIOUS
<1> HIDE DEF x, D
<1>6. /\ x \in Seq(Message) /\ x # <<>> /\ Legal(x) /\ Anchored(x, initial) /\ CallsBefore(x, initial, k)
      /\ Holding(x, taken)
  BY <1>1, <1>4, ResultsIn
<1>7. /\ Grown(x, messages', D) /\ taken' = taken \cup D /\ D \subseteq Injected \ taken
      /\ D # {} => Last(messages').role = "user" /\ D \subseteq Last(messages').text
      /\ D = {} <=> ~(Available > 0)
  BY <1>5, <1>6, DrainTold
<1>8. phase' # "done" => iteration' \in Nat /\ k <= iteration'
  BY <1>3
<1>9. ReplyRecorded'
  BY DEF ReplyRecorded
<1>10. pending' = <<>> /\ broken' = <<>> /\ phase' \in {"model", "done"}
  BY <1>2
<1> HIDE DEF k
<1> QED
  BY <1>3, <1>6, <1>7, <1>8, <1>9, <1>10, Proceeds

LEMMA ToolsDoneIs ==
    ASSUME IInv, ToolsDone
    PROVE  Listed' /\ Heard'
<1>1. Working /\ phase = "tools"
  BY DEF ToolsDone, Working
<1>2. taken \subseteq seen' /\ final' = None
  BY <1>1, AtWork DEF ToolsDone, result
<1> QED
  BY <1>1, <1>2, ToolsIn DEF ToolsDone, Continue

LEMMA ToolsFatalIs ==
    ASSUME IInv, ToolsFatal
    PROVE  Listed' /\ Heard'
<1>1. Working /\ phase = "tools"
  BY DEF ToolsFatal, Working
<1>2. ~(Available > 0)
  <2>1. Queued /\ caller = "subagent"
    BY DEF ToolsFatal, FailOnToolError, IInv
  <2> QED
    BY <2>1, DrainIs
<1>3. taken \subseteq seen' /\ final' = None /\ phase' = "done"
  BY <1>1, <1>2, AtWork DEF ToolsFatal, Finish
<1> QED
  BY <1>1, <1>2, <1>3, ToolsIn DEF ToolsFatal

Twice(x, a, b) == (x \o a) \o b = x \o (a \o b)
LEMMA ConcatTwice ==
    ASSUME NEW S, NEW x \in Seq(S), NEW a \in Seq(S), NEW b \in Seq(S)
    PROVE  Twice(x, a, b)
  BY DEF Twice

LEMMA SalvageDoneIs ==
    ASSUME IInv, SalvageDone
    PROVE  Listed' /\ Heard'
<1> DEFINE x == messages \o ResultsOf(pending \o broken)
           k == iteration + 1
<1>1. Working /\ phase = "salvage"
  BY DEF SalvageDone, Working
<1>2. /\ messages \in Seq(Message) /\ iteration \in Nat /\ iteration + 1 <= MaxIterations 
      /\ pending \in Seq(OwnCall) /\ broken \in Seq(OwnCall) /\ final = None /\ taken \subseteq seen
  BY <1>1, AtWork
<1>3. k \in Nat /\ k <= MaxIterations
  BY <1>2
<1>4. messages' = messages \o ResultsOf(pending) \o ResultsOf(broken) \o <<Prompt>>
  BY DEF SalvageDone
<1>5. (messages \o ResultsOf(pending)) \o ResultsOf(broken) = x
  <2> DEFINE a == ResultsOf(pending)
             b == ResultsOf(broken)
  <2>1. a \in Seq(Message) /\ b \in Seq(Message) /\ a \o b = ResultsOf(pending \o broken)
    BY <1>2, ResultsAre, ResultsTogether
  <2> HIDE DEF a, b
  <2>2. Twice(messages, a, b)
    BY <1>2, <2>1, ConcatTwice
  <2> QED
    BY <2>1, <2>2 DEF a, b, Twice
<1>6. x = messages \o ResultsOf(pending \o broken)
  OBVIOUS
<1> HIDE DEF x
<1>7. /\ x \in Seq(Message) /\ x # <<>> /\ Legal(x) /\ Anchored(x, initial) /\ CallsBefore(x, initial, k)
      /\ Holding(x, taken)
  BY <1>1, <1>6, ResultsIn
<1>8. messages' = Append(x, Prompt)
  <2>1. messages' = x \o <<Prompt>>
    BY <1>4, <1>5
  <2> QED
    BY <1>7, <2>1, PromptIs
<1>9. Grown(x, messages', {})
  BY <1>7, <1>8, PromptBehind
<1>10. /\ initial' = initial /\ pending' = <<>> /\ broken' = <<>> /\ phase' = "model" /\ final' = None
       /\ iteration' = k /\ taken \subseteq seen' /\ taken' = taken \cup {} /\ {} \subseteq Injected \ taken
  BY <1>2 DEF SalvageDone, Continue, result
<1> HIDE DEF k
<1> QED
  BY <1>3, <1>7, <1>9, <1>10, Proceeds

(* A run that is over before it has an answer for the user.                *)
LEMMA Dropped ==
    ASSUME IInv, phase # "done", phase' = "done", UNCHANGED <<messages, initial, taken>>, final' = None,
           Regular' => error' = "tool" /\ taken \subseteq seen'
    PROVE  Listed' /\ Heard'
<1> DEFINE h == messages
<1>1. MaxIterations \in Nat /\ iteration \in 0 .. MaxIterations
  BY RunnerAssumption DEF IInv, Counted
<1>2. phase \in {"model", "tools", "salvage", "finalize", "failing"}
  BY DEF IInv, Counted
<1>3. CallsBefore(h, initial, MaxIterations)
  <2>1. CASE Waiting
    <3>1. CallsBefore(h, initial, iteration)
      BY <2>1 DEF IInv, Listed
    <3> HIDE DEF h
    <3> QED
      BY <1>1, <3>1, CallsLater
  <2>2. CASE Working
    <3>1. /\ Executing(h, initial, iteration, pending, broken) /\ h \in Seq(Message)
          /\ iteration \in Nat /\ iteration + 1 <= MaxIterations /\ initial \in Nat
      BY <2>2, AtWork
    <3> HIDE DEF h
    <3>2. CallsBefore(h, initial, iteration + 1)
      BY <3>1, ExecutingCalls
    <3>3. iteration + 1 \in Nat
      BY <3>1
    <3> QED
      BY <1>1, <3>1, <3>2, <3>3, CallsLater
  <2> QED
    BY <1>2, <2>1, <2>2 DEF Waiting, Working
<1>4. Anchored(h, initial) /\ Holding(h, taken)
  BY DEF IInv, Listed, Heard
<1>5. Listed'
  BY <1>3, <1>4 DEF Listed, Waiting, Working
<1>6. InjectedSeen' /\ ReplyRecorded'
  BY DEF InjectedSeen, ReplyRecorded
<1> QED
  BY <1>4, <1>5, <1>6 DEF Heard

LEMMA SalvageFatalIs ==
    ASSUME IInv, SalvageFatal
    PROVE  Listed' /\ Heard'
<1>1. Working /\ phase = "salvage"
  BY DEF SalvageFatal, Working
<1>2. Queued /\ caller = "subagent" /\ caller' = caller
  BY DEF SalvageFatal, FailOnToolError, IInv
<1>3. ~(Available > 0) /\ ToSet(Drained) = {}
  BY <1>2, DrainIs
<1>4. messages \in Seq(Message) /\ messages # <<>> /\ taken \subseteq seen
  BY <1>1, AtWork
<1>5. messages' = Told(messages, {}) /\ taken' = taken \cup {}
  <2>1. Drain /\ UNCHANGED caller /\ messages' = FoldLeft(Inject, messages, Drained)
    BY <1>2 DEF SalvageFatal
  <2> QED
    BY <1>3, <1>4, <2>1, DrainTold
<1>6. messages' = messages /\ taken' = taken
  BY <1>5 DEF Told
<1>7. phase' = "done" /\ final' = None /\ error' = "tool" /\ seen' = seen /\ initial' = initial
  BY <1>3 DEF SalvageFatal, Finish
<1> QED
  BY <1>1, <1>4, <1>6, <1>7, Dropped

LEMMA ArriveIs ==
    ASSUME IInv, NEW m, Arrive(m)
    PROVE  Listed' /\ Heard'
<1>1. /\ UNCHANGED <<initial, phase, iteration, messages, pending, broken, error, final, exit, taken, seen>>
  BY DEF Arrive, calling, result
<1>2. Listed /\ Heard
  BY DEF IInv
<1>3. Newest' = Newest
  BY <1>1 DEF Newest
<1>4. InjectedSeen' = InjectedSeen /\ ReplyRecorded' = ReplyRecorded /\ Regular' = Regular
  BY <1>1 DEF InjectedSeen, ReplyRecorded, Regular
<1>5. Listed'
  BY <1>1, <1>2, <1>4 DEF Listed, Waiting, Working
<1>6. Heard'
  BY <1>1, <1>2, <1>3, <1>4 DEF Heard
<1> QED
  BY <1>5, <1>6

LEMMA NextKeeps ==
    ASSUME IInv, Next
    PROVE  IInv'
<1>1. Outcomes' /\ Counted' /\ Queued'
  BY OutcomesKept, CountsKept, QueueKept DEF IInv
<1>2. "reply" \in Word /\ "error text" \in Word
  BY DEF Word
<1>3. CASE Ask
  <2>1. Asked /\ phase = "model" /\ iteration < MaxIterations
    BY <1>3 DEF Ask, Asked
  <2>2. Waiting
    BY <2>1 DEF Waiting
  <2>3. taken \subseteq seen \cup Newest.text
    BY <2>1 DEF IInv, Heard
  <2>4. taken \subseteq seen'
    BY <2>1, <2>2, <2>3, AtRest, SeenNow
  <2>5. CASE EmptyAnswer
    BY <1>1, <2>1, <2>2, <2>4, <2>5, EmptyIs DEF IInv
  <2>6. CASE TruncatedText
    BY <1>1, <2>1, <2>2, <2>4, <2>6, TruncatedTextIs DEF IInv
  <2>7. CASE Exhausted
    BY <1>1, <2>1, <2>2, <2>4, <2>7, ExhaustedIs DEF IInv
  <2>8. CASE Deliver("reply")
    BY <1>1, <1>2, <2>1, <2>2, <2>4, <2>8, DeliverIs DEF IInv
  <2>9. CASE FailedAnswer("llm") \/ FailedAnswer("empty")
    BY <1>1, <2>1, <2>2, <2>4, <2>9, FailedAnswerIs DEF IInv
  <2>10. ASSUME NEW n \in 1 .. MaxCalls, AskTools(n) PROVE IInv'
    BY <1>1, <2>1, <2>4, <2>10, AskToolsIs DEF IInv
  <2>11. ASSUME NEW n \in 1 .. MaxCalls, NEW ok, TruncatedCalls(n, ok) PROVE IInv'
    BY <1>1, <2>1, <2>4, <2>11, TruncatedCallsIs DEF IInv
  <2> QED
    BY <1>3, <2>5, <2>6, <2>7, <2>8, <2>9, <2>10, <2>11 DEF Ask
<1>4. CASE FinalizeText
  <2>1. phase = "finalize" /\ seen' = seen
    BY <1>4 DEF FinalizeText
  <2>2. Waiting /\ taken \subseteq seen' /\ iteration < MaxIterations
    BY <2>1 DEF Waiting, IInv, Heard, Counted
  <2>3. CASE TruncatedText
    BY <1>1, <2>2, <2>3, TruncatedTextIs DEF IInv
  <2>4. CASE Exhausted
    BY <1>1, <2>2, <2>4, ExhaustedIs DEF IInv
  <2>5. CASE Deliver("reply") \/ Deliver("error text")
    BY <1>1, <1>2, <2>2, <2>5, DeliverIs DEF IInv
  <2>6. CASE FailedAnswer("empty")
    BY <1>1, <2>2, <2>6, FailedAnswerIs DEF IInv
  <2> QED
    BY <1>1, <1>4, <2>3, <2>4, <2>5, <2>6 DEF FinalizeText, IInv
<1>5. CASE ToolsDone
  BY <1>1, <1>5, ToolsDoneIs DEF IInv
<1>6. CASE ToolsFatal
  BY <1>1, <1>6, ToolsFatalIs DEF IInv
<1>7. CASE FinalizeWithCalls
  BY <1>1, <1>7, FinalizeWithCallsIs DEF IInv
<1>8. CASE SalvageDone
  BY <1>1, <1>8, SalvageDoneIs DEF IInv
<1>9. CASE SalvageFatal
  BY <1>1, <1>9, SalvageFatalIs DEF IInv
<1>10. CASE Failing
  BY <1>1, <1>10, FailingIs DEF IInv
<1>11. CASE LimitReached
  BY <1>1, <1>11, LimitIs DEF IInv
<1>12. CASE ProgramError
  <2>1. /\ phase # "done" /\ phase' = "done" /\ UNCHANGED <<messages, initial, taken>> /\ final' = None
        /\ ~Regular'
    BY <1>12 DEF ProgramError, Finish, Regular
  <2> QED
    BY <1>1, <2>1, Dropped DEF IInv
<1>13. CASE Cancelled
  <2>1. /\ phase # "done" /\ phase' = "done" /\ UNCHANGED <<messages, initial, taken>> /\ final' = None
        /\ ~Regular'
    BY <1>13 DEF Cancelled, Finish, Regular
  <2> QED
    BY <1>1, <2>1, Dropped DEF IInv
<1>14. ASSUME NEW m \in Injected, Arrive(m) PROVE IInv'
  BY <1>1, <1>14, ArriveIs DEF IInv
<1> QED
  BY <1>3, <1>4, <1>5, <1>6, <1>7, <1>8, <1>9, <1>10, <1>11, <1>12, <1>13, <1>14 DEF Next

LEMMA IdleKeeps ==
    ASSUME IInv, UNCHANGED vars
    PROVE  IInv'
<1>1. UNCHANGED <<caller, initial, phase, iteration, messages, pending, broken, queue, cycles, empties, recoveries,
                  error, final, exit, taken, seen>>
  BY DEF vars, calling, counters, result
<1>2. Newest' = Newest /\ InjectedSeen' = InjectedSeen /\ ReplyRecorded' = ReplyRecorded /\ Regular' = Regular
  BY <1>1 DEF Newest, InjectedSeen, ReplyRecorded, Regular
<1>3. Outcomes' /\ Counted' /\ Queued'
  <2>1. Outcomes'
    BY <1>1 DEF IInv, Outcomes
  <2>2. Counted'
    BY <1>1 DEF IInv, Counted
  <2>3. Queued'
    BY <1>1 DEF IInv, Queued
  <2> QED
    BY <2>1, <2>2, <2>3
<1>4. Listed'
  BY <1>1, <1>2 DEF IInv, Listed, Waiting, Working
<1>5. Heard'
  BY <1>1, <1>2 DEF IInv, Heard
<1> QED
  BY <1>3, <1>4, <1>5 DEF IInv

-----------------------------------------------------------------------------
(* The lists a run starts from.                                            *)
LEMMA FirstList ==
    ASSUME NEW h \in History
    PROVE  Anchored(h, Len(h)) /\ Legal(h) /\ CallsBefore(h, Len(h), 0) /\ Holding(h, {})
<1> DEFINE n == Len(h)
<1>0. Opening(h) /\ Inputs(Front(h)) \cap (Injected \cup {Question}) = {} /\ Question \notin Injected
  BY StartAssumption
<1>1. /\ h \in Seq(ToSet(h)) /\ h # <<>> /\ h[1].role = "system" /\ Last(h) = User({Question}) 
      /\ LegalChat(h)
  BY <1>0 DEF Opening
<1>2. n \in Nat \ {0} /\ DOMAIN h = 1 .. n /\ n \in 1 .. n /\ 1 \in 1 .. n
  BY <1>1
<1>3. h \in Seq(Message)
  <2>1. ToSet(h) \subseteq Message
    BY DEF Earlier, Message
  <2> QED
    BY <1>1, <2>1
<1>4. h[n].role = "user" /\ h[n].text = {Question}
  <2>1. h[n] = User({Question})
    BY <1>1, <1>3, FrontIs
  <2> QED
    BY <2>1 DEF User
<1>5. n \in 2 .. n
  <2>1. n # 1
    BY <1>1, <1>4
  <2> QED
    BY <1>2, <2>1
<1>6. \E p \in 1 .. n - 1 : HeadedBy(h, p)
  <2> DEFINE s == {i \in 1 .. n : h[i].role = "system"}
             p == Max(s)
  <2>1. s \in SUBSET (1 .. n) /\ s # {}
    BY <1>1, <1>2
  <2>2. p \in s /\ \A y \in s : p >= y
    <3> HIDE DEF s
    <3> QED
      BY <1>2, <2>1, LargestIn
  <2> HIDE DEF p
  <2>3. p \in 1 .. n /\ h[p].role = "system" /\ \A i \in 1 .. n : h[i].role = "system" => p >= i
    BY <2>2
  <2>4. \A j \in 1 .. p : h[j].role = "system"
    BY <1>0, <1>2, <2>3 DEF Opening
  <2>5. p # n
    BY <1>4, <2>3
  <2>6. p \in 1 .. n - 1
    <3>1. n \in Nat /\ p \in 1 .. n
      BY <1>2, <2>3
    <3> HIDE DEF n
    <3> QED
      BY <2>5, <3>1
  <2>7. ASSUME NEW i \in 1 .. n PROVE h[i].role = "system" <=> i <= p
    <3>1. i <= p => i \in 1 .. p
      BY <2>3
    <3>2. p >= i <=> i <= p
      BY <1>2, <2>3
    <3> QED
      BY <2>3, <2>4, <3>1, <3>2
  <2> QED
    BY <2>6, <2>7 DEF HeadedBy
<1>7. Anchored(h, n)
  BY <1>3, <1>4, <1>5, <1>6 DEF Anchored
<1>8. Legal(h)
  BY <1>1, <1>3, MessagesTalk, LegalIs
<1>9. CallsBefore(h, n, 0)
  <2> SUFFICES ASSUME NEW a \in 1 .. n, h[a].role = "assistant", NEW c \in ToSet(h[a].calls) PROVE a <= n /\ c[1] >= MaxIterations
    BY DEF CallsBefore
  <2>1. a <= n
    BY <1>2
  <2> QED
    BY <1>0, <1>2, <2>1 DEF Opening
<1>10. Holding(h, {})
  <2>1. /\ Front(h) \in Seq(Message) /\ n = Len(Front(h)) + 1 /\ Len(Front(h)) \in Nat
        /\ \A i \in 1 .. Len(Front(h)) : Front(h)[i] = h[i]
    BY <1>1, <1>3, FrontIs
  <2>2. ASSUME NEW m \in Injected \cup {Question}, NEW i \in 1 .. n, i # n, h[i].role = "user" PROVE m \notin h[i].text
    <3> DEFINE f == Front(h)
    <3>1. i \in DOMAIN f /\ f[i] = h[i]
      BY <2>1, <2>2
    <3>2. h[i].text \subseteq Inputs(f)
      <4> HIDE DEF f
      <4> QED
        BY <2>2, <3>1 DEF Inputs
    <3> QED
      BY <1>0, <3>2
  <2>3. Held(h, Question)
    <3>1. \A i : i \in Holders(h, Question) <=> i = n
      BY <1>2, <1>4, <2>2 DEF Holders
    <3>2. Holders(h, Question) = {n}
      BY <3>1
    <3> QED
      BY <1>2, <3>2 DEF Held
  <2>4. ASSUME NEW m \in Injected PROVE Holders(h, m) = {}
    <3>1. m # Question
      BY <1>0
    <3>2. \A i : i \notin Holders(h, m)
      BY <1>4, <2>2, <3>1 DEF Holders
    <3> QED
      BY <3>2
  <2> QED
    BY <2>3, <2>4 DEF Holding
<1> QED
  BY <1>7, <1>8, <1>9, <1>10

LEMMA TwoInAll ==
    ASSUME NEW a \in Message, NEW b \in Message
    PROVE  <<a>> \o <<b>> = <<a, b>>
<1> DEFINE f == <<a>>
           t == <<b>>
           g == <<a, b>>
<1>1. f \in Seq(Message) /\ Len(f) = 1 /\ f[1] = a /\ t \in Seq(Message) /\ Len(t) = 1 /\ t[1] = b
  OBVIOUS
<1>2. g \in Seq(Message) /\ Len(g) = 2 /\ g[1] = a /\ g[2] = b
  OBVIOUS
<1> HIDE DEF f, t, g
<1>3. f \o t \in Seq(Message) /\ Len(f \o t) = 1 + 1
  <2>1. f \in Seq(Message) /\ t \in Seq(Message)
    BY <1>1
  <2>2. f \o t \in Seq(Message) /\ Len(f \o t) = Len(f) + Len(t)
    BY <2>1, ConcatIs
  <2> QED
    BY <1>1, <2>2
<1>4. 1 \in 1 .. Len(f) /\ 1 \in 1 .. Len(t)
  BY <1>1
<1>5. (f \o t)[1] = a /\ (f \o t)[1 + 1] = b
  BY <1>1, <1>4, ConcatIs
<1>6. \A j \in 1 .. 2 : j = 1 \/ j = 2
  OBVIOUS
<1>7. 1 + 1 = 2
  OBVIOUS
<1>8. Len(f \o t) = Len(g) /\ \A j \in 1 .. Len(f \o t) : (f \o t)[j] = g[j]
  BY <1>2, <1>3, <1>5, <1>6, <1>7
<1>9. f \o t = g
  BY <1>2, <1>3, <1>8, SameList
<1> QED
  BY <1>9 DEF f, t, g

LEMMA FirstTask ==
    ASSUME NEW h, h = Start(<<>>)
    PROVE  Anchored(h, Len(h)) /\ Legal(h) /\ CallsBefore(h, Len(h), 0) /\ Holding(h, {})
<1> DEFINE s == System({"prompt"})
           u == User({Question})
<1>1. u \in Message /\ u.role = "user" /\ u.text = {Question}
  <2>1. {Question} \subseteq Input
    BY DEF Input
  <2> QED
    BY <2>1, UserIs
<1>2. s \in Message /\ s.role = "system"
  BY DEF System, Message
<1> HIDE DEF s, u
<1>3. h = <<s, u>>
  <2>1. <<s>> \o <<>> = <<s>>
    <3> DEFINE q == <<s>>
    <3>1. q \in Seq(Message)
      BY <1>2
    <3> HIDE DEF q
    <3>2. q \o <<>> = q
      BY <3>1
    <3> QED
      BY <3>2 DEF q
  <2>2. <<s>> \o <<u>> = <<s, u>>
    BY <1>1, <1>2, TwoInAll
  <2>3. h = (<<s>> \o <<>>) \o <<u>>
    BY DEF Start, s, u
  <2> QED
    BY <2>1, <2>2, <2>3
<1>4. h \in Seq(Message) /\ Len(h) = 2 /\ h[1] = s /\ h[2] = u
  <2>1. h \in Seq(Message)
    BY <1>1, <1>2, <1>3
  <2>2. Len(h) = 2 /\ h[1] = s /\ h[2] = u
    BY <1>3
  <2> QED
    BY <2>1, <2>2
<1>5. \A i \in 1 .. Len(h) : i = 1 \/ i = 2
  <2>1. \A i \in 1 .. 2 : i = 1 \/ i = 2
    OBVIOUS
  <2> QED
    BY <1>4, <2>1
<1>6. Anchored(h, Len(h))
  <2>1. HeadedBy(h, 1) /\ 1 \in 1 .. Len(h) - 1 /\ Len(h) \in 2 .. Len(h)
    BY <1>1, <1>2, <1>4, <1>5 DEF HeadedBy
  <2> QED
    BY <1>1, <1>4, <2>1 DEF Anchored
<1>7. Legal(h) /\ CallsBefore(h, Len(h), 0)
  BY <1>1, <1>2, <1>4, <1>5 DEF Legal, AllFull, Once, CallsBefore
<1>8. Holding(h, {})
  <2>1. Question \notin Injected
    BY StartAssumption
  <2>2. \A m, i : i \in Holders(h, m) <=> i = 2 /\ m = Question
    BY <1>1, <1>2, <1>4, <1>5 DEF Holders
  <2>3. Holders(h, Question) = {2} /\ 2 \in 1 .. Len(h)
    BY <1>4, <2>2
  <2>4. \A m \in Injected : Holders(h, m) = {}
    BY <2>1, <2>2
  <2> QED
    BY <2>3, <2>4 DEF Holding, Held
<1> QED
  BY <1>6, <1>7, <1>8

LEMMA InitHolds ==
    ASSUME Init
    PROVE  IInv
<1>1. /\ MaxIterations \in Nat \ {0} /\ MaxInjectionCycles \in Nat /\ MaxLengthRecoveries \in Nat
      /\ Caller \subseteq {"turn", "subagent"}
  BY RunnerAssumption
<1>2. Outcomes
  BY DEF Init, Outcomes
<1>3. Counted
  <2>1. 0 \in 0 .. MaxIterations /\ 0 \in 0 .. MaxInjectionCycles /\ 0 \in 0 .. MaxLengthRecoveries + 1 /\ 0 <= MaxLengthRecoveries
    BY <1>1
  <2> QED
    BY <1>1, <2>1 DEF Init, Counted
<1>4. Queued
  <2>1. <<>> \in Seq(Injected) /\ IsInjective(<<>>) /\ ToSet(<<>>) = {}
    BY DEF IsInjective, ToSet
  <2> QED
    BY <2>1 DEF Init, Queued
<1>5. /\ Anchored(messages, initial) /\ Legal(messages) /\ CallsBefore(messages, initial, 0)
      /\ Holding(messages, {})
  BY FirstList, FirstTask DEF Init
<1>6. Listed
  BY <1>5 DEF Init, Listed, Waiting, Working
<1>7. Heard
  BY <1>5 DEF Init, Heard, InjectedSeen, ReplyRecorded
<1> QED
  BY <1>2, <1>3, <1>4, <1>6, <1>7 DEF IInv

(* The list, its calls, who holds what was injected, and the outcome.       *)
THEOREM Invariant == Spec => []IInv
<1>1. IInv /\ [Next]_vars => IInv'
  BY NextKeeps, IdleKeeps
<1> QED
  BY <1>1, InitHolds, PTL DEF Spec

-----------------------------------------------------------------------------
(* The types, and the list the model is shown.                             *)
LEMMA TypesHold ==
    ASSUME IInv
    PROVE  TypeOK
<1>1. \A i \in DOMAIN messages : messages[i].role \in {"user", "system", "assistant", "tool"}
  <2>1. messages \in Seq(Message)
    BY DEF IInv, Listed, Anchored
  <2> SUFFICES ASSUME NEW i \in DOMAIN messages PROVE messages[i] \in Message
    BY MessageIs
  <2> QED
    BY <2>1
<1>2. pending # <<>> => phase \in {"tools", "salvage", "done"}
  BY DEF IInv, Listed, Counted, Waiting
<1> QED
  BY <1>1, <1>2 DEF IInv, Outcomes, Counted, Queued, TypeOK

(* The variables keep their types.                                         *)
THEOREM Types == Spec => []TypeOK
  BY Invariant, TypesHold, PTL

(* The model is never shown an illegal list, however much of it fits into   *)
(* the budget, nor one without the system message or the newest message of *)
(* the user; and the list the next turn starts from is legal.              *)
THEOREM ListsLegal == Spec => []ListLegal
<1>1. ASSUME IInv PROVE ListLegal
  <2>1. Anchored(messages, initial) /\ messages \in Seq(Message)
    BY <1>1 DEF IInv, Listed, Anchored
  <2>2. Waiting \/ (phase = "done" /\ Regular /\ error # "tool") => Legal(messages)
    BY <1>1 DEF IInv, Listed
  <2>3. ASSUME phase = "model", NEW w \in Windows
        PROVE  LegalChat(w) /\ {Newest, messages[1]} \subseteq ToSet(w)
    <3>1. Legal(messages)
      BY <2>2, <2>3 DEF Waiting
    <3>2. w \in Seq(Message) /\ Legal(w) /\ messages[1] \in ToSet(w) /\ Newest \in ToSet(w)
      BY <2>1, <2>3, <3>1, WindowsLegal
    <3> QED
      BY <3>2, MessagesTalk, LegalIs
  <2>4. phase \in {"model", "finalize"} \/ (phase = "done" /\ Regular /\ error # "tool") => LegalChat(messages)
    BY <2>1, <2>2, MessagesTalk, LegalIs DEF Waiting
  <2> QED
    BY <1>1, <2>3, <2>4, TypesHold DEF ListLegal
<1> QED
  BY <1>1, Invariant, PTL

(* A message injected into a turn gets to the model, in one message of the  *)
(* list, and the user gets what is said last in answer to it.              *)
THEOREM InjectedHeard == Spec => []InjectedOnce
<1>1. ASSUME IInv PROVE InjectedOnce
  <2>1. Holding(messages, taken) /\ InjectedSeen /\ ReplyRecorded
    BY <1>1 DEF IInv, Heard
  <2>2. messages \in Seq(Message)
    BY <1>1 DEF IInv, Listed, Anchored
  <2>3. ASSUME NEW m \in taken \cup {Question}
        PROVE  Cardinality({i \in DOMAIN messages : messages[i].role = "user" /\ m \in messages[i].text}) = 1
    <3>1. PICK i : Holders(messages, m) = {i}
      BY <2>1 DEF Holding, Held
    <3>2. {j \in DOMAIN messages : messages[j].role = "user" /\ m \in messages[j].text} = {i}
      BY <2>2, <3>1 DEF Holders
    <3> QED
      BY <3>2, FS_Singleton
  <2> QED
    BY <2>1, <2>3 DEF InjectedOnce, TakenOnce
<1> QED
  BY <1>1, Invariant, PTL

-----------------------------------------------------------------------------
(* The files of a turn.                                                    *)
LEMMA ConcatHolds ==
    ASSUME NEW S, NEW a \in Seq(S), NEW b \in Seq(S)
    PROVE  ToSet(a \o b) = ToSet(a) \cup ToSet(b)
<1> DEFINE c == a \o b
<1>1. /\ c \in Seq(S) /\ Len(c) = Len(a) + Len(b) /\ Len(a) \in Nat /\ Len(b) \in Nat
      /\ \A j \in 1 .. Len(a) : c[j] = a[j]
  BY ConcatIs
<1>2. \A j \in 1 .. Len(b) : c[Len(a) + j] = b[j]
  BY ConcatIs
<1> HIDE DEF c
<1>3. /\ \A x : x \in ToSet(a) <=> \E i \in 1 .. Len(a) : x = a[i]
      /\ \A x : x \in ToSet(b) <=> \E i \in 1 .. Len(b) : x = b[i]
      /\ \A x : x \in ToSet(c) <=> \E i \in 1 .. Len(c) : x = c[i]
  <2>1. \A x : x \in ToSet(a) <=> \E i \in 1 .. Len(a) : x = a[i]
    BY ListOfItsOwn
  <2>2. \A x : x \in ToSet(b) <=> \E i \in 1 .. Len(b) : x = b[i]
    BY ListOfItsOwn
  <2>3. \A x : x \in ToSet(c) <=> \E i \in 1 .. Len(c) : x = c[i]
    BY <1>1, ListOfItsOwn
  <2> QED
    BY <2>1, <2>2, <2>3
<1>4. ASSUME NEW x, x \in ToSet(c) PROVE x \in ToSet(a) \cup ToSet(b)
  <2>1. PICK i \in 1 .. Len(c) : x = c[i]
    BY <1>3, <1>4
  <2>2. CASE i <= Len(a)
    <3>1. i \in 1 .. Len(a)
      BY <1>1, <2>2
    <3> QED
      BY <1>1, <1>3, <2>1, <3>1
  <2>3. CASE ~(i <= Len(a))
    <3>1. i - Len(a) \in 1 .. Len(b) /\ Len(a) + (i - Len(a)) = i
      BY <1>1, <2>3
    <3>2. x = b[i - Len(a)]
      BY <1>2, <2>1, <3>1
    <3> QED
      BY <1>3, <3>1, <3>2
  <2> QED
    BY <2>2, <2>3
<1>5. ASSUME NEW x, x \in ToSet(a) PROVE x \in ToSet(c)
  <2>1. PICK i \in 1 .. Len(a) : x = a[i]
    BY <1>3, <1>5
  <2>2. i \in 1 .. Len(c) /\ c[i] = x
    BY <1>1, <2>1
  <2> QED
    BY <1>3, <2>2
<1>6. ASSUME NEW x, x \in ToSet(b) PROVE x \in ToSet(c)
  <2>1. PICK i \in 1 .. Len(b) : x = b[i]
    BY <1>3, <1>6
  <2>2. Len(a) + i \in 1 .. Len(c)
    BY <1>1
  <2>3. c[Len(a) + i] = x
    BY <1>2, <2>1
  <2> QED
    BY <1>3, <2>2, <2>3
<1> QED
  BY <1>4, <1>5, <1>6 DEF c

LEMMA AppendHolds ==
    ASSUME NEW S, NEW a \in Seq(S), NEW e \in S
    PROVE  ToSet(Append(a, e)) = ToSet(a) \cup {e}
<1> DEFINE c == Append(a, e)
<1>1. /\ c \in Seq(S) /\ Len(c) = Len(a) + 1 /\ Len(a) \in Nat /\ c[Len(a) + 1] = e
      /\ \A j \in 1 .. Len(a) : c[j] = a[j]
  BY AppendIs
<1> HIDE DEF c
<1>2. /\ \A x : x \in ToSet(a) <=> \E i \in 1 .. Len(a) : x = a[i]
      /\ \A x : x \in ToSet(c) <=> \E i \in 1 .. Len(c) : x = c[i]
  BY <1>1, ListOfItsOwn
<1>3. \A i : i \in 1 .. Len(c) <=> i \in 1 .. Len(a) \/ i = Len(a) + 1
  BY <1>1
<1>4. \A x : x \in ToSet(c) <=> x \in ToSet(a) \/ x = e
  BY <1>1, <1>2, <1>3
<1> QED
  BY <1>4 DEF c

LEMMA FlatHolds ==
    ASSUME NEW S, NEW ss \in Seq(Seq(S)), NEW f, f = FlattenSeq(ss)
    PROVE  f \in Seq(S) /\ ToSet(f) = UNION {ToSet(ss[k]) : k \in 1 .. Len(ss)}
<1> DEFINE N == Len(ss)
           From1(k) == UNION {ToSet(ss[i]) : i \in 1 .. k}
<1>1. N \in Nat /\ \A k \in 1 .. N : ss[k] \in Seq(S)
  OBVIOUS
<1>2. PICK r \in [0 .. N -> Seq(S)] : /\ r[0] = <<>> /\ FlattenSeq(ss) = r[N]
                                      /\ \A k \in 1 .. N : r[k] = r[k - 1] \o ss[k]
  BY FlattenRuns
<1> DEFINE K == {k \in 0 .. N : ToSet(r[k]) = From1(k)}
<1>3. 0 \in K
  <2>1. 1 .. 0 = {} /\ 0 \in 0 .. N
    BY <1>1
  <2>2. ToSet(<<>>) = {}
    BY DEF ToSet
  <2> QED
    BY <1>2, <2>1, <2>2
<1>4. ASSUME NEW k \in 1 .. N, k - 1 \in K PROVE k \in K
  <2>1. k \in 0 .. N /\ k - 1 \in 0 .. N /\ 1 .. k = (1 .. k - 1) \cup {k}
    BY <1>1
  <2>2. r[k - 1] \in Seq(S) /\ ss[k] \in Seq(S) /\ r[k] = r[k - 1] \o ss[k]
    BY <1>1, <1>2, <2>1
  <2>3. From1(k) = From1(k - 1) \cup ToSet(ss[k])
    BY <2>1
  <2>4. ToSet(r[k - 1]) = From1(k - 1)
    BY <1>4
  <2>5. ToSet(r[k]) = ToSet(r[k - 1]) \cup ToSet(ss[k])
    BY <2>2, ConcatHolds
  <2> HIDE DEF From1
  <2> QED
    BY <2>1, <2>3, <2>4, <2>5
<1>5. N \in K
  <2> HIDE DEF K, N
  <2>1. 0 .. N \subseteq K
    BY <1>1, <1>3, <1>4, CountingTo
  <2> QED
    BY <1>1, <2>1
<1>6. r[N] \in Seq(S)
  BY <1>1, <1>2
<1> QED
  BY <1>2, <1>5, <1>6

(* The fold keeps the first mention of every file.                         *)
LEMMA DeclaredMediaIs ==
    ASSUME NEW S, NEW h, NEW q \in Seq(S), q = Mentions(h), NEW d, d = DeclaredMedia(h)
    PROVE  d \in Seq(S) /\ IsInjective(d) /\ ToSet(d) = ToSet(q)
<1> DEFINE V == Seq(S)
           N == Len(q)
           Step(files, f) == IF f \in ToSet(files) THEN files ELSE Append(files, f)
           G == CHOOSE iter : iter = [s \in SUBSET (DOMAIN q) |->
                   IF s = {} THEN <<>> ELSE Step(iter[s \ {Max(s)}], q[Max(s)])]
           F == [p \in V \X (1 .. N) |-> Step(p[1], q[p[2]])]
<1>1. N \in Nat /\ DOMAIN q = 1 .. N /\ \A k \in 1 .. N : q[k] \in S
  OBVIOUS
<1>2. d = G[DOMAIN q]
  BY Zenon DEF DeclaredMedia, FoldLeft, MapThenFoldSet
<1>3. ASSUME NEW v \in V, NEW x \in S 
      PROVE  /\ Step(v, x) \in V /\ ToSet(Step(v, x)) = ToSet(v) \cup {x}
             /\ IsInjective(v) => IsInjective(Step(v, x))
  <2>1. CASE x \in ToSet(v)
    <3>1. Step(v, x) = v
      BY <2>1
    <3> HIDE DEF Step
    <3> QED
      BY <2>1, <3>1
  <2>2. CASE x \notin ToSet(v)
    <3> DEFINE w == Append(v, x)
    <3>1. Step(v, x) = w
      BY <2>2
    <3>2. ToSet(w) = ToSet(v) \cup {x}
      BY AppendHolds
    <3>3. w \in V /\ Len(w) = Len(v) + 1 /\ Len(v) \in Nat /\ w[Len(v) + 1] = x /\ \A j \in 1 .. Len(v) : w[j] = v[j]
      BY AppendIs
    <3> HIDE DEF w, Step
    <3>4. ASSUME IsInjective(v) PROVE IsInjective(w)
      <4>1. DOMAIN v = 1 .. Len(v) /\ DOMAIN w = 1 .. Len(v) + 1
        BY <3>3
      <4>2. ASSUME NEW i \in 1 .. Len(v) PROVE v[i] # x
        BY <2>2, <4>1, <4>2 DEF ToSet
      <4>3. \A a, b \in 1 .. Len(v) : v[a] = v[b] => a = b
        BY <3>4, <4>1 DEF IsInjective
      <4>4. \A a \in 1 .. Len(v) + 1 : a \in 1 .. Len(v) \/ a = Len(v) + 1
        BY <3>3
      <4>5. ASSUME NEW a \in 1 .. Len(v) + 1, NEW b \in 1 .. Len(v) + 1, w[a] = w[b] PROVE a = b
        BY <3>3, <4>2, <4>3, <4>4, <4>5
      <4> QED
        BY <4>1, <4>5 DEF IsInjective
    <3> QED
      BY <3>1, <3>2, <3>3, <3>4
  <2> QED
    BY <2>1, <2>2
<1> HIDE DEF Step
<1>4. F \in [V \X (1 .. N) -> V]
  BY <1>1, <1>3
<1>5. PICK g : Folds(g, V, <<>>, N, F)
  <2>1. <<>> \in V
    OBVIOUS
  <2> HIDE DEF F, N, V
  <2> QED
    BY <1>1, <1>4, <2>1, FoldExists
<1>6. ASSUME NEW s \in SUBSET (1 .. N)
      PROVE  g[s] \in V /\ g[s] = IF s = {} THEN <<>> ELSE Step(g[s \ {Max(s)}], q[Max(s)])
  <2>1. s # {} => Max(s) \in 1 .. N
    BY <1>1, LargestIn
  <2>2. (s # {} => g[s \ {Max(s)}] \in V) /\ g[s] \in V
    <3> HIDE DEF N, F, V
    <3> QED
      BY <1>5 DEF Folds
  <2>3. s # {} => F[<<g[s \ {Max(s)}], Max(s)>>] = Step(g[s \ {Max(s)}], q[Max(s)])
    BY <2>1, <2>2
  <2> HIDE DEF F, N, V
  <2> QED
    BY <1>5, <2>2, <2>3 DEF Folds
<1> HIDE DEF F
<1>7. g = [s \in SUBSET (DOMAIN q) |-> IF s = {} THEN <<>> ELSE Step(g[s \ {Max(s)}], q[Max(s)])]
  <2>1. g = [s \in SUBSET (DOMAIN q) |-> g[s]]
    <3> HIDE DEF N, V
    <3> QED
      BY <1>1, <1>5 DEF Folds
  <2> HIDE DEF N, V
  <2> QED
    BY <1>1, <1>6, <2>1
<1>8. G = [s \in SUBSET (DOMAIN q) |-> IF s = {} THEN <<>> ELSE Step(G[s \ {Max(s)}], q[Max(s)])]
  BY <1>7
<1> HIDE DEF G
<1>9. \A s \in SUBSET (1 .. N) : G[s] = IF s = {} THEN <<>> ELSE Step(G[s \ {Max(s)}], q[Max(s)])
  <2> HIDE DEF N
  <2> QED
    BY <1>1, <1>8
<1> DEFINE Taking(k) == {q[i] : i \in 1 .. k}
           K == {k \in 0 .. N : G[1 .. k] \in V /\ IsInjective(G[1 .. k]) /\ ToSet(G[1 .. k]) = Taking(k)}
<1>10. 0 \in K
  <2>1. 1 .. 0 = {} /\ {} \in SUBSET (1 .. N) /\ 0 \in 0 .. N
    BY <1>1
  <2>2. Taking(0) = {}
    BY <2>1
  <2>3. G[1 .. 0] = <<>>
    BY <1>9, <2>1
  <2>4. <<>> \in V /\ IsInjective(<<>>) /\ ToSet(<<>>) = {}
    BY DEF IsInjective, ToSet
  <2> HIDE DEF V, Taking
  <2> QED
    BY <2>1, <2>2, <2>3, <2>4
<1>11. ASSUME NEW k \in 1 .. N, k - 1 \in K PROVE k \in K
  <2>1. k \in Nat \ {0} /\ 1 .. k \in SUBSET (1 .. N) /\ k \in 0 .. N /\ 1 .. k = (1 .. k - 1) \cup {k} /\ q[k] \in S
    BY <1>1
  <2>2. G[1 .. k] = Step(G[1 .. k - 1], q[k])
    BY <1>9, <2>1, UpToNumber
  <2>3. G[1 .. k - 1] \in V /\ IsInjective(G[1 .. k - 1]) /\ ToSet(G[1 .. k - 1]) = Taking(k - 1)
    BY <1>11
  <2>4. Taking(k) = Taking(k - 1) \cup {q[k]}
    BY <2>1
  <2> HIDE DEF Taking, V
  <2>5. G[1 .. k] \in V /\ IsInjective(G[1 .. k]) /\ ToSet(G[1 .. k]) = Taking(k)
    BY <1>3, <2>1, <2>2, <2>3, <2>4
  <2> QED
    BY <2>1, <2>5
<1>12. N \in K
  <2> HIDE DEF K
  <2>1. 0 .. N \subseteq K
    BY <1>1, <1>10, <1>11, CountingTo
  <2> QED
    BY <1>1, <2>1
<1>13. Taking(N) = ToSet(q)
  BY <1>1 DEF ToSet
<1> HIDE DEF Taking, V
<1> QED
  BY <1>1, <1>2, <1>12, <1>13 DEF V

(* The calls of one message, and the files calls name.                     *)
File == UNION {ToSet(Attached(id)) : id \in OwnCall}
Named(calls) == UNION {ToSet(Attached(id)) : id \in calls}

LEMMA CallsOfIs ==
    ASSUME NEW m, m.role = "assistant" => m.calls \in Seq(OwnCall), NEW cs, cs = CallsOf(m)
    PROVE  /\ cs \in Seq(OwnCall)
           /\ ToSet(cs) = IF m.role = "assistant" THEN ToSet(m.calls) ELSE {}
<1>1. CASE m.role # "assistant"
  <2>1. cs = <<>>
    BY <1>1 DEF CallsOf
  <2> QED
    BY <1>1, <2>1 DEF ToSet
<1>2. CASE m.role = "assistant"
  BY <1>2 DEF CallsOf
<1> QED
  BY <1>1, <1>2

LEMMA FilesOf ==
    ASSUME NEW cs \in Seq(OwnCall), NEW f, f = FlattenSeq([k \in DOMAIN cs |-> Attached(cs[k])])
    PROVE  f \in Seq(File) /\ ToSet(f) = Named(ToSet(cs))
<1> DEFINE ss == [k \in DOMAIN cs |-> Attached(cs[k])]
<1>1. Len(cs) \in Nat /\ DOMAIN cs = 1 .. Len(cs) /\ \A k \in 1 .. Len(cs) : cs[k] \in OwnCall
  OBVIOUS
<1>2. ASSUME NEW k \in 1 .. Len(cs) PROVE Attached(cs[k]) \in Seq(File)
  <2>1. cs[k] \in OwnCall
    BY <1>1
  <2>2. Attached(cs[k]) \in Seq(ToSet(Attached(cs[k])))
    BY <2>1, FilesAssumption
  <2>3. ToSet(Attached(cs[k])) \subseteq File
    BY <2>1 DEF File
  <2> QED
    BY <2>2, <2>3
<1>3. ss \in Seq(Seq(File)) /\ Len(ss) = Len(cs) /\ \A k \in 1 .. Len(cs) : ss[k] = Attached(cs[k])
  BY <1>1, <1>2
<1>4. f = FlattenSeq(ss)
  OBVIOUS
<1> HIDE DEF ss
<1>5. f \in Seq(File) /\ ToSet(f) = UNION {ToSet(ss[k]) : k \in 1 .. Len(ss)}
  BY <1>3, <1>4, FlatHolds
<1>6. UNION {ToSet(ss[k]) : k \in 1 .. Len(ss)} = UNION {ToSet(Attached(cs[k])) : k \in 1 .. Len(cs)}
  BY <1>3
<1>7. \A x : x \in ToSet(cs) <=> \E i \in 1 .. Len(cs) : x = cs[i]
  BY ListOfItsOwn
<1>8. UNION {ToSet(Attached(cs[k])) : k \in 1 .. Len(cs)} = Named(ToSet(cs))
  BY <1>7 DEF Named
<1> QED
  BY <1>5, <1>6, <1>8

LEMMA MentionsAre ==
    ASSUME NEW S, NEW h \in Seq(S), \A i \in 1 .. Len(h) : h[i].role = "assistant" => h[i].calls \in Seq(OwnCall),
           NEW q, q = Mentions(h)
    PROVE  q \in Seq(File) /\ ToSet(q) = Named(Declared(h))
<1> DEFINE F(i) == FlattenSeq([k \in DOMAIN CallsOf(h[i]) |-> Attached(CallsOf(h[i])[k])])
           ss == [i \in DOMAIN h |-> F(i)]
           own(i) == IF h[i].role = "assistant" THEN ToSet(h[i].calls) ELSE {}
<1>1. Len(h) \in Nat /\ DOMAIN h = 1 .. Len(h)
  OBVIOUS
<1>2. q = FlattenSeq(ss)
  BY DEF Mentions
<1>3. ASSUME NEW i \in 1 .. Len(h) PROVE F(i) \in Seq(File) /\ ToSet(F(i)) = Named(own(i))
  <2>1. h[i].role = "assistant" => h[i].calls \in Seq(OwnCall)
    OBVIOUS
  <2>2. CallsOf(h[i]) \in Seq(OwnCall) /\ ToSet(CallsOf(h[i])) = own(i)
    BY <2>1, CallsOfIs
  <2> HIDE DEF own
  <2> QED
    BY <2>2, FilesOf
<1> HIDE DEF F, own
<1>4. ss \in Seq(Seq(File)) /\ Len(ss) = Len(h) /\ \A i \in 1 .. Len(h) : ss[i] = F(i)
  BY <1>1, <1>3
<1> HIDE DEF ss
<1>5. q \in Seq(File) /\ ToSet(q) = UNION {ToSet(ss[i]) : i \in 1 .. Len(ss)}
  BY <1>2, <1>4, FlatHolds
<1>6. UNION {ToSet(ss[i]) : i \in 1 .. Len(ss)} = UNION {Named(own(i)) : i \in 1 .. Len(h)}
  BY <1>3, <1>4
<1>7. UNION {Named(own(i)) : i \in 1 .. Len(h)} = Named(UNION {own(i) : i \in 1 .. Len(h)})
  BY DEF Named
<1>8. UNION {own(i) : i \in 1 .. Len(h)} = Declared(h)
  BY <1>1 DEF Declared, own
<1> QED
  BY <1>5, <1>6, <1>7, <1>8

(* A turn that ends without an error delivers every file its calls named,   *)
(* each once, and no file that only an earlier turn named.                 *)
THEOREM FilesAttached == Spec => []AttachedOnce
<1>1. ASSUME IInv, phase = "done", error = None
      PROVE  LET files == From(Outbound.media, Len(Images) + 1)
             IN  IsInjective(files) /\ ToSet(files) = UNION {ToSet(Attached(id)) : id \in OwnCalls}
  <2> DEFINE h == messages
             n == initial
             g == From(h, n + 1)
             d == DeclaredMedia(g)
             q == Mentions(g)
             files == From(Outbound.media, Len(Images) + 1)
             own == Declared(g)
             S == ToSet(Images) \cup File
  <2>1. h \in Seq(Message) /\ n \in 2 .. Len(h) /\ CallsBefore(h, n, MaxIterations)
    BY <1>1 DEF IInv, Listed, Anchored
  <2>2. MaxIterations \in Nat /\ Len(h) \in Nat /\ n \in Nat /\ n + 1 \in 1 .. Len(h) + 1 /\ ~(Len(h) < n)
    <3> DEFINE l == Len(h)
    <3>1. l \in Nat /\ n \in 2 .. l
      BY <2>1
    <3> HIDE DEF l, h, n
    <3>2. n \in Nat /\ n + 1 \in 1 .. l + 1 /\ ~(l < n)
      BY <3>1
    <3> QED
      BY <3>1, <3>2, RunnerAssumption DEF l
  <2>3. Increment = g
    BY <2>2 DEF Increment
  <2>4. Outbound.media = Images \o d
    BY <1>1, <2>3 DEF Outbound
  <2> HIDE DEF h, n
  <2>5. g \in Seq(Message) /\ Len(g) = Len(h) - (n + 1) + 1 /\ \A j \in 1 .. Len(h) - (n + 1) + 1 : g[j] = h[(n + 1) + j - 1]
    BY <2>1, <2>2, FromIs
  <2>6. ASSUME NEW a \in 1 .. Len(h), h[a].role = "assistant"
        PROVE  /\ h[a].calls \in Seq(Call)
               /\ \A c \in ToSet(h[a].calls) : /\ c[1] \in Int /\ (c[1] < MaxIterations <=> a > n)
                                               /\ a > n => c \in OwnCall
    <3>1. h[a] \in Message
      BY <2>1
    <3>2. h[a].calls \in Seq(Call)
      BY <2>6, <3>1, MessageIs
    <3>3. ASSUME NEW c \in ToSet(h[a].calls) PROVE c[1] \in Int /\ (c[1] < MaxIterations <=> a > n) /\ (a > n => c \in OwnCall)
      <4>1. c \in Call
        BY <3>2 DEF ToSet
      <4>2. c[1] \in Nat
        BY <4>1 DEF Call
      <4>3. IF a <= n THEN c[1] >= MaxIterations ELSE c \in OwnCall /\ c[1] < MaxIterations
        BY <2>1, <2>6 DEF CallsBefore
      <4> QED
        BY <2>2, <4>2, <4>3
    <3> QED
      BY <3>2, <3>3
  <2>7. ASSUME NEW j \in 1 .. Len(g), g[j].role = "assistant" PROVE g[j].calls \in Seq(OwnCall)
    <3>1. (n + 1) + j - 1 \in 1 .. Len(h) /\ (n + 1) + j - 1 > n /\ g[j] = h[(n + 1) + j - 1]
      BY <2>2, <2>5
    <3>2. g[j].calls \in Seq(Call) /\ \A c \in ToSet(g[j].calls) : c \in OwnCall
      BY <2>6, <2>7, <3>1
    <3>3. g[j].calls \in Seq(ToSet(g[j].calls))
      BY <3>2, ListOfItsOwn
    <3> QED
      BY <3>2, <3>3
  <2>8. \A c : c \in Declared(g) <=> \E a \in n + 1 .. Len(h) : Declares(h, a, c)
    <3>1. Len(h) \in (n + 1) - 1 .. Len(h)
      BY <2>1, <2>2
    <3> QED
      BY <2>1, <2>2, <3>1, DeclaredIn DEF From
  <2>9. \A c : c \in Declared(h) <=> \E a \in 1 .. Len(h) : Declares(h, a, c)
    <3>1. 1 \in 1 .. Len(h) + 1 /\ Len(h) \in 1 - 1 .. Len(h) /\ SubSeq(h, 1, Len(h)) = h
      BY <2>1, <2>2
    <3> QED
      BY <2>1, <3>1, DeclaredIn
  <2>10. own = OwnCalls
    <3>1. ASSUME NEW c PROVE c \in Declared(g) <=> c \in Declared(h) /\ c[1] < MaxIterations
      <4>1. ASSUME c \in Declared(g) PROVE c \in Declared(h) /\ c[1] < MaxIterations
        <5>1. PICK a \in n + 1 .. Len(h) : Declares(h, a, c)
          BY <2>8, <4>1
        <5>2. a \in 1 .. Len(h) /\ a > n
          BY <2>2
        <5> QED
          BY <2>6, <2>9, <5>1, <5>2 DEF Declares
      <4>2. ASSUME c \in Declared(h), c[1] < MaxIterations PROVE c \in Declared(g)
        <5>1. PICK a \in 1 .. Len(h) : Declares(h, a, c)
          BY <2>9, <4>2
        <5>2. a > n
          BY <2>6, <4>2, <5>1 DEF Declares
        <5>3. a \in n + 1 .. Len(h)
          BY <2>2, <5>2
        <5> QED
          BY <2>8, <5>1, <5>3
      <4> QED
        BY <4>1, <4>2
    <3> HIDE DEF g
    <3> QED
      BY <3>1 DEF OwnCalls, h
  <2> HIDE DEF g
  <2>11. q \in Seq(File) /\ ToSet(q) = Named(own)
    BY <2>5, <2>7, MentionsAre
  <2> HIDE DEF q, own
  <2>12. d \in Seq(File) /\ IsInjective(d) /\ ToSet(d) = ToSet(q)
    BY <2>11, DeclaredMediaIs DEF q
  <2> HIDE DEF d
  <2>13. Images \in Seq(S) /\ d \in Seq(S)
    BY <2>12, FilesAssumption
  <2> HIDE DEF S
  <2>14. /\ Images \o d \in Seq(S) /\ Len(Images \o d) = Len(Images) + Len(d) /\ Len(Images) \in Nat /\ Len(d) \in Nat
         /\ \A j \in 1 .. Len(d) : (Images \o d)[Len(Images) + j] = d[j]
    <3>1. Images \o d \in Seq(S) /\ Len(Images \o d) = Len(Images) + Len(d)
      BY <2>13, ConcatIs
    <3>2. \A j \in 1 .. Len(d) : (Images \o d)[Len(Images) + j] = d[j]
      BY <2>13, ConcatIs
    <3> QED
      BY <2>13, <3>1, <3>2
  <2>15. files = d
    <3> DEFINE e == Images \o d
               l == Len(Images)
    <3>1. e \in Seq(S) /\ Len(e) = l + Len(d) /\ l \in Nat /\ Len(d) \in Nat /\ \A j \in 1 .. Len(d) : e[l + j] = d[j]
      BY <2>14
    <3>2. files = From(e, l + 1)
      BY <2>4
    <3> HIDE DEF e, l, files
    <3>3. l + 1 \in 1 .. Len(e) + 1 /\ Len(e) - (l + 1) + 1 = Len(d)
      BY <3>1
    <3>4. /\ From(e, l + 1) \in Seq(S) /\ Len(From(e, l + 1)) = Len(e) - (l + 1) + 1
          /\ \A j \in 1 .. Len(e) - (l + 1) + 1 : From(e, l + 1)[j] = e[(l + 1) + j - 1]
      BY <3>1, <3>3, FromIs
    <3>5. ASSUME NEW j \in 1 .. Len(d) PROVE files[j] = d[j]
      <4>1. (l + 1) + j - 1 = l + j
        BY <3>1
      <4> QED
        BY <3>1, <3>2, <3>3, <3>4, <4>1
    <3> QED
      BY <2>13, <3>2, <3>3, <3>4, <3>5, SameList
  <2> HIDE DEF files
  <2>16. IsInjective(files) /\ ToSet(files) = Named(OwnCalls)
    BY <2>10, <2>11, <2>12, <2>15
  <2> QED
    BY <2>16 DEF Named, files
<1>2. ASSUME IInv PROVE AttachedOnce
  BY <1>1, <1>2 DEF AttachedOnce
<1> QED
  BY <1>2, Invariant, PTL
==============================================================================
