-------------------------- MODULE Services_proofs --------------------------
(***************************************************************************)
(* Proofs about the two services a turn speaks to.  ModelRequest, for any   *)
(* number of concurrent requests and of fallback presets, broken ones among *)
(* them, any errors, retries and breakers: failover neither mixes two       *)
(* models' text, nor gives up early, nor costs the turn its images.         *)
(* CardReply, for any messages, tools and pieces of text, and whichever     *)
(* requests of a card are refused or fail unseen: the pump of a v2 card     *)
(* misses no frame, and a card and its emoji settle.                        *)
(***************************************************************************)
EXTENDS ModelRequest, CardReply, ChatHistory_proofs, FiniteSetTheorems, SequenceTheorems, WellFoundedInduction, TLAPS

Place == {"idle", "responses", "chat", "fallback", "pause", "strip", "done"}
Images == {"none", "sent", "stripped", "gone"}
Models == 0 .. Fallbacks
Responses ==
    {NoAnswer} \cup {Good(m) : m \in Models}
               \cup {Failed(m, e) : m \in 0 .. Nobody, e \in Error}

(* What the response a of a finished call says of the models asked in it. *)
AllAsked(k, a) ==
    /\ a.kind = "error"
    /\ a.by = Primary => ShouldFallback(a.error)
    /\ a # Failed(Nobody, TimeoutError)
    => Preset \ Broken \subseteq k

(* One request: it is at p in its n-th call, asks the model t, has asked   *)
(* the models k and heard the models v in this call, its images are i and  *)
(* its last response is a.  The text heard is that of the present model,   *)
(* and the presets before a fallback model were asked.                     *)
Own(p, n, t, k, v, i, a) ==
    /\ p \in Place /\ n \in 0 .. Retries + 1 /\ t \in Models
    /\ k \subseteq Models /\ v \subseteq {t} /\ i \in Images /\ a \in Responses
    /\ p = "idle" => n = 0
    /\ p = "pause" => n <= Retries
    /\ p = "fallback" => t # Primary /\ {q \in Preset \ Broken : q <= t} \subseteq k
    /\ i = "gone" => p = "done" /\ a.kind = "ok"
    /\ p = "done" /\ v = {} => AllAsked(k, a)

Shared == now \in 0 .. MaxNow /\ breaker \in Breaker /\ circuit \in Breaker

Functions ==
    /\ pc \in [Request -> Place] /\ attempt \in [Request -> 0 .. Retries + 1]
    /\ target \in [Request -> Models] /\ asked \in [Request -> SUBSET Models]
    /\ voices \in [Request -> SUBSET Models] /\ images \in [Request -> Images]
    /\ answer \in [Request -> Responses]

OwnOf(r) == Own(pc[r], attempt[r], target[r], asked[r], voices[r], images[r], answer[r])

IInv == Shared /\ Functions /\ \A r \in Request : OwnOf(r)

-----------------------------------------------------------------------------
(* The parts of a response, and what the error of the loop itself is not.  *)
LEMMA AnswerParts ==
    /\ NoAnswer \in Responses /\ NoAnswer.kind = "none"
    /\ \A m \in Models : Good(m) \in Responses /\ Good(m).kind = "ok" /\ Good(m) # NoAnswer
    /\ \A m \in 0 .. Nobody, e \in Error :
          /\ Failed(m, e) \in Responses /\ Failed(m, e) # NoAnswer
          /\ Failed(m, e).kind = "error" /\ Failed(m, e).by = m /\ Failed(m, e).error = e
    /\ CircuitOpenError \in Error /\ TimeoutError \in Error
    /\ ~Transient(CircuitOpenError)
    /\ Nobody \in 0 .. Nobody /\ Models \subseteq 0 .. Nobody /\ Primary \in Models
<1>1. /\ Nobody \in 0 .. Nobody /\ Models \subseteq 0 .. Nobody /\ Primary \in Models
  BY RequestAssumption DEF Nobody, Models, Primary
<1>2. CircuitOpenError \in Error /\ TimeoutError \in Error
  BY DEF CircuitOpenError, TimeoutError, Error
<1>3. ~Transient(CircuitOpenError)
  BY DEF CircuitOpenError, Transient
<1>4. NoAnswer \in Responses /\ NoAnswer.kind = "none"
  BY DEF Responses, NoAnswer
<1>5. \A m \in Models : Good(m) \in Responses /\ Good(m).kind = "ok" /\ Good(m) # NoAnswer
  <2>1. ASSUME NEW m \in Models PROVE Good(m) \in Responses
    BY DEF Responses
  <2>2. ASSUME NEW m \in Models PROVE Good(m).kind = "ok"
    BY DEF Good
  <2> QED
    BY <1>4, <2>1, <2>2
<1>6. ASSUME NEW m \in 0 .. Nobody, NEW e \in Error
      PROVE  /\ Failed(m, e) \in Responses /\ Failed(m, e) # NoAnswer
             /\ Failed(m, e).kind = "error" /\ Failed(m, e).by = m /\ Failed(m, e).error = e
  BY DEF Responses, Failed, NoAnswer
<1> QED
  BY <1>1, <1>2, <1>3, <1>4, <1>5, <1>6

LEMMA LeastNatural ==
    ASSUME NEW S \in SUBSET Nat, S # {}
    PROVE  \E x \in S : \A y \in S : x <= y
<1> DEFINE Below == OpToRel(<, Nat)
<1>1. IsWellFoundedOn(Below, Nat)
  BY NatLessThanWellFounded
<1>2. \A x, y \in Nat : y < x => <<y, x>> \in Below
  BY DEF OpToRel
<1> HIDE DEF Below
<1>3. PICK x \in S : \A y \in S : <<y, x>> \notin Below
  BY <1>1, WFMin, Zenon
<1>4. ASSUME NEW y \in S PROVE x <= y
  <2>1. x \in Nat /\ y \in Nat
    OBVIOUS
  <2>2. ~(y < x)
    BY <1>2, <1>3, <2>1, Zenon
  <2> QED
    BY <2>1, <2>2
<1> QED
  BY <1>4

(* The loop over the presets skips only broken ones, and stops early only  *)
(* when something was heard.                                               *)
LEMMA NextPresetIsNext ==
    ASSUME NEW heard, NEW from \in Nat
    PROVE  LET p == NextPreset(heard, from)
           IN  \/ /\ p = Nobody
                  /\ heard # {} \/ \A q \in Preset \ Broken : q < from
               \/ /\ p # Nobody /\ heard = {} /\ p \in Preset \ Broken /\ from <= p
                  /\ \A q \in Preset \ Broken : q < p => q < from
<1> DEFINE next == {p \in Preset : p >= from /\ p \notin Broken}
           p == NextPreset(heard, from)
<1>1. Fallbacks \in Nat /\ Preset \subseteq Nat /\ Nobody \notin Preset
  BY RequestAssumption DEF Preset, Nobody
<1>2. CASE heard # {} \/ next = {}
  BY <1>1, <1>2 DEF NextPreset
<1>3. CASE heard = {} /\ next # {}
  <2>1. p = CHOOSE x \in next : \A y \in next : x <= y
    BY <1>3 DEF NextPreset
  <2>2. \E x \in next : \A y \in next : x <= y
    BY <1>1, <1>3, LeastNatural
  <2>3. p \in next /\ \A y \in next : p <= y
    BY <2>1, <2>2
  <2> HIDE DEF p
  <2>4. p \in Preset \ Broken /\ from <= p
    BY <2>3
  <2>5. ASSUME NEW q \in Preset \ Broken, q < p PROVE q < from
    <3>1. q \in Nat /\ p \in Nat
      BY <1>1, <2>4
    <3>2. q \notin next
      BY <2>3, <2>5, <3>1
    <3> QED
      BY <3>1, <3>2
  <2> QED
    BY <1>1, <1>3, <2>4, <2>5 DEF p
<1> QED
  BY <1>2, <1>3

-----------------------------------------------------------------------------
(* A step that changes what belongs to one request.                        *)
Sets(r, p, n, t, k, v, i, a) ==
    /\ pc' = [pc EXCEPT ![r] = p] /\ attempt' = [attempt EXCEPT ![r] = n]
    /\ target' = [target EXCEPT ![r] = t] /\ asked' = [asked EXCEPT ![r] = k]
    /\ voices' = [voices EXCEPT ![r] = v] /\ images' = [images EXCEPT ![r] = i]
    /\ answer' = [answer EXCEPT ![r] = a]

LEMMA OneChanges ==
    ASSUME IInv, Shared', NEW r \in Request,
           NEW p, NEW n, NEW t, NEW k, NEW v, NEW i, NEW a,
           Own(p, n, t, k, v, i, a), Sets(r, p, n, t, k, v, i, a)
    PROVE  IInv'
<1>1. /\ p \in Place /\ n \in 0 .. Retries + 1 /\ t \in Models /\ k \in SUBSET Models
      /\ v \in SUBSET Models /\ i \in Images /\ a \in Responses
  BY DEF Own
<1>2. Functions'
  BY <1>1 DEF IInv, Functions, Sets
<1>3. ASSUME NEW s \in Request PROVE OwnOf(s)'
  <2>1. CASE s = r
    BY <2>1 DEF IInv, Functions, OwnOf, Sets
  <2>2. CASE s # r
    <3>1. /\ pc'[s] = pc[s] /\ attempt'[s] = attempt[s] /\ target'[s] = target[s]
          /\ asked'[s] = asked[s] /\ voices'[s] = voices[s] /\ images'[s] = images[s]
          /\ answer'[s] = answer[s]
      BY <2>2 DEF IInv, Functions, Sets
    <3> QED
      BY <3>1 DEF IInv, OwnOf
  <2> QED
    BY <2>1, <2>2
<1> QED
  BY <1>2, <1>3 DEF IInv

(* A part that stays is one that is set to what it was.                    *)
LEMMA StaysSet ==
    ASSUME IInv, NEW r \in Request
    PROVE  /\ pc = [pc EXCEPT ![r] = pc[r]] /\ attempt = [attempt EXCEPT ![r] = attempt[r]]
           /\ target = [target EXCEPT ![r] = target[r]] /\ asked = [asked EXCEPT ![r] = asked[r]]
           /\ voices = [voices EXCEPT ![r] = voices[r]] /\ images = [images EXCEPT ![r] = images[r]]
           /\ answer = [answer EXCEPT ![r] = answer[r]]
  BY DEF IInv, Functions

LEMMA FailureIsBreaker ==
    ASSUME Shared, NEW b \in Breaker PROVE Failure(b) \in Breaker /\ Reset \in Breaker
<1>1. b.failures + 1 \in Nat /\ now \in 0 .. MaxNow /\ b.trippedAt \in {Never} \cup 0 .. MaxNow
  BY DEF Breaker, Shared
<1> QED
  BY <1>1 DEF Breaker, Failure, Reset

-----------------------------------------------------------------------------
(* What _run_with_retry makes of a response: the request ends, or is made  *)
(* again while attempts are left, or without its images; these are given   *)
(* up with an answer alone.                                                *)
LEMMA SettleGives ==
    ASSUME IInv, NEW r \in Request, images[r] # "gone", NEW w \in Responses, w # NoAnswer,
           Settle(r, w)
    PROVE  \E p \in {"done", "strip", "pause"}, i \in Images :
              /\ pc' = [pc EXCEPT ![r] = p] /\ images' = [images EXCEPT ![r] = i]
              /\ answer' = [answer EXCEPT ![r] = w]
              /\ i = "gone" => p = "done" /\ w.kind = "ok"
              /\ p = "pause" => attempt[r] <= Retries /\ Transient(w.error)
<1> DEFINE ok == w.kind = "ok"
           p == CASE ok \/ images[r] = "stripped" -> "done"
                  [] ~ok /\ images[r] # "stripped" /\ ~Transient(w.error) ->
                       IF images[r] = "sent" THEN "strip" ELSE "done"
                  [] ~ok /\ images[r] # "stripped" /\ Transient(w.error) ->
                       IF attempt[r] > Retries THEN "done" ELSE "pause"
           i == ImagesAfter(r, p, ok)
<1>1. /\ pc' = [pc EXCEPT ![r] = p] /\ images' = [images EXCEPT ![r] = i]
      /\ answer' = [answer EXCEPT ![r] = w]
  BY DEF Settle, Goto
<1>2. images[r] \in Images \ {"gone"} /\ attempt[r] \in Nat /\ Retries \in Nat
  BY RequestAssumption DEF IInv, Functions
<1>3. CASE ok \/ images[r] = "stripped"
  <2>1. p = "done"
    BY <1>3
  <2>2. i \in Images /\ (i = "gone" => ok)
    BY <1>2, <2>1 DEF ImagesAfter, Images
  <2> HIDE DEF p, i
  <2> QED
    BY <1>1, <2>1, <2>2
<1>4. CASE ~ok /\ images[r] # "stripped"
  <2>1. p \in {"done", "strip", "pause"}
    BY <1>4
  <2>2. p = "pause" => ~(attempt[r] > Retries) /\ Transient(w.error)
    BY <1>4
  <2>3. i \in Images \ {"gone"}
    BY <1>2, <1>4 DEF ImagesAfter, Images
  <2> HIDE DEF p, i
  <2>4. p = "pause" => attempt[r] <= Retries /\ Transient(w.error)
    BY <1>2, <2>2
  <2> QED
    BY <1>1, <2>1, <2>3, <2>4
<1> QED
  BY <1>3, <1>4

(* The same for the parts of one request, in the call n and after the      *)
(* models k were asked and v heard.                                        *)
LEMMA SettleOwn ==
    ASSUME IInv, NEW r \in Request, images[r] # "gone", NEW w \in Responses, w # NoAnswer,
           Settle(r, w),
           NEW n \in 0 .. Retries + 1, n = attempt[r] \/ ~Transient(w.error),
           NEW t \in Models, NEW k \in SUBSET Models, NEW v \in SUBSET {t},
           v = {} => AllAsked(k, w)
    PROVE  \E p, i :
              /\ pc' = [pc EXCEPT ![r] = p] /\ images' = [images EXCEPT ![r] = i]
              /\ answer' = [answer EXCEPT ![r] = w]
              /\ Own(p, n, t, k, v, i, w)
<1>1. PICK p \in {"done", "strip", "pause"}, i \in Images :
         /\ pc' = [pc EXCEPT ![r] = p] /\ images' = [images EXCEPT ![r] = i]
         /\ answer' = [answer EXCEPT ![r] = w]
         /\ i = "gone" => p = "done" /\ w.kind = "ok"
         /\ p = "pause" => attempt[r] <= Retries /\ Transient(w.error)
  BY SettleGives
<1>2. p \in Place /\ p \notin {"idle", "fallback"}
  BY DEF Place
<1>3. Own(p, n, t, k, v, i, w)
  BY <1>1, <1>2 DEF Own
<1> QED
  BY <1>1, <1>3

(* The loop over the presets goes on: when the presets before "from" were  *)
(* asked, so are those before the next one, or all of them at its end.     *)
LEMMA GoOnOwn ==
    ASSUME IInv, NEW r \in Request, images[r] # "gone",
           NEW heard \in SUBSET {target[r]}, NEW from \in Nat, NEW last \in Responses,
           NEW sofar \in SUBSET Models,
           {q \in Preset \ Broken : q < from} \subseteq sofar,
           GoOn(r, heard, from, last, sofar),
           NEW n \in 0 .. Retries + 1, n = attempt[r] \/ last = NoAnswer
    PROVE  \E p, t, k, i, a :
              /\ pc' = [pc EXCEPT ![r] = p] /\ target' = [target EXCEPT ![r] = t]
              /\ asked' = [asked EXCEPT ![r] = k] /\ images' = [images EXCEPT ![r] = i]
              /\ answer' = [answer EXCEPT ![r] = a]
              /\ Own(p, n, t, k, heard, i, a)
<1> PICK q : q = NextPreset(heard, from)
  OBVIOUS
<1>1. \/ /\ q = Nobody
         /\ heard # {} \/ \A x \in Preset \ Broken : x < from
      \/ /\ q # Nobody /\ heard = {} /\ q \in Preset \ Broken /\ from <= q
         /\ \A x \in Preset \ Broken : x < q => x < from
  BY NextPresetIsNext
<1>2. /\ Preset \subseteq Models /\ Primary \notin Preset /\ Preset \subseteq Nat
      /\ target[r] \in Models /\ images[r] \in Images
  BY RequestAssumption DEF Preset, Models, Primary, IInv, Functions
<1>3. CASE q # Nobody
  <2>1. /\ target' = [target EXCEPT ![r] = q] /\ asked' = [asked EXCEPT ![r] = sofar \cup {q}]
        /\ answer' = [answer EXCEPT ![r] = last] /\ pc' = [pc EXCEPT ![r] = "fallback"]
        /\ images' = [images EXCEPT ![r] = images[r]]
    BY <1>3, StaysSet DEF GoOn, Goto
  <2>2. {x \in Preset \ Broken : x <= q} \subseteq sofar \cup {q}
    <3> SUFFICES ASSUME NEW x \in Preset \ Broken, x <= q, x # q PROVE x \in sofar
      OBVIOUS
    <3>1. x \in Nat /\ q \in Nat
      BY <1>1, <1>2, <1>3
    <3>2. x < q
      BY <3>1
    <3> QED
      BY <1>1, <1>3, <3>2
  <2>3. Own("fallback", n, q, sofar \cup {q}, heard, images[r], last)
    BY <1>1, <1>2, <1>3, <2>2 DEF Own, Place
  <2> QED
    BY <2>1, <2>3
<1>4. CASE q = Nobody
  <2> PICK w : w = IF last = NoAnswer THEN Failed(Nobody, CircuitOpenError) ELSE last
    OBVIOUS
  <2>1. asked' = [asked EXCEPT ![r] = sofar] /\ Settle(r, w) /\ target' = [target EXCEPT ![r] = target[r]]
    BY <1>4, StaysSet DEF GoOn
  <2>2. w \in Responses /\ w # NoAnswer /\ (last = NoAnswer => ~Transient(w.error))
    BY AnswerParts
  <2>3. heard = {} => AllAsked(sofar, w)
    BY <1>1, <1>4 DEF AllAsked
  <2>4. PICK p, i :
           /\ pc' = [pc EXCEPT ![r] = p] /\ images' = [images EXCEPT ![r] = i]
           /\ answer' = [answer EXCEPT ![r] = w]
           /\ Own(p, n, target[r], sofar, heard, i, w)
    BY <1>2, <2>1, <2>2, <2>3, SettleOwn
  <2> QED
    BY <2>1, <2>4
<1> QED
  BY <1>3, <1>4

-----------------------------------------------------------------------------
(* A request that is under way: the parts the steps rely on.               *)
LEMMA UnderWay ==
    ASSUME IInv, NEW r \in Request, pc[r] # "done"
    PROVE  /\ images[r] \in Images \ {"gone"} /\ attempt[r] \in 0 .. Retries + 1
           /\ target[r] \in Models /\ asked[r] \in SUBSET Models
           /\ voices[r] \in SUBSET {target[r]} /\ answer[r] \in Responses
           /\ pc[r] = "idle" => attempt[r] = 0
           /\ pc[r] = "pause" => attempt[r] <= Retries
           /\ pc[r] = "fallback" =>
                target[r] # Primary /\ {q \in Preset \ Broken : q <= target[r]} \subseteq asked[r]
<1>1. OwnOf(r)
  BY DEF IInv
<1> QED
  BY <1>1 DEF OwnOf, Own

LEMMA BeginCallIInv ==
    ASSUME IInv, NEW r \in Request, BeginCall(r) PROVE IInv'
<1> PICK n : n = IF pc[r] = "strip" THEN attempt[r] ELSE attempt[r] + 1
  OBVIOUS
<1>1. /\ pc[r] # "done" /\ images[r] \in Images \ {"gone"} /\ target[r] \in Models
      /\ answer[r] \in Responses
  BY UnderWay DEF BeginCall
<1>2. n \in 0 .. Retries + 1
  <2>1. /\ attempt[r] \in 0 .. Retries + 1 /\ Retries \in Nat
        /\ pc[r] # "strip" => attempt[r] <= Retries
    BY RequestAssumption, UnderWay DEF BeginCall
  <2> QED
    BY <2>1
<1>3. attempt' = [attempt EXCEPT ![r] = n] /\ voices' = [voices EXCEPT ![r] = {}]
  BY DEF BeginCall, IInv, Functions
<1>4. Shared'
  BY DEF BeginCall, Shared, IInv
<1>5. ASSUME PrimaryAvailable, asked' = [asked EXCEPT ![r] = {Primary}],
             target' = [target EXCEPT ![r] = Primary],
             Goto(r, IF Open(circuit, ProbeInterval) THEN "chat" ELSE "responses"),
             UNCHANGED <<answer, images>>
      PROVE  IInv'
  <2> PICK p \in {"chat", "responses"} : pc' = [pc EXCEPT ![r] = p]
    BY <1>5 DEF Goto
  <2>1. answer' = [answer EXCEPT ![r] = answer[r]] /\ images' = [images EXCEPT ![r] = images[r]]
    BY <1>5, StaysSet
  <2>2. Own(p, n, Primary, {Primary}, {}, images[r], answer[r])
    BY <1>1, <1>2, AnswerParts DEF Own, Place
  <2>3. asked' = [asked EXCEPT ![r] = {Primary}] /\ target' = [target EXCEPT ![r] = Primary]
    BY <1>5
  <2> QED
    <3>1. Sets(r, p, n, Primary, {Primary}, {}, images[r], answer[r])
      BY <1>3, <2>1, <2>3 DEF Sets
    <3> QED
      BY <1>4, <2>2, <3>1, OneChanges
<1>6. ASSUME GoOn(r, {}, 1, NoAnswer, {}) PROVE IInv'
  <2> PICK none : none = {}
    OBVIOUS
  <2>1. {q \in Preset \ Broken : q < 1} \subseteq none
    BY RequestAssumption DEF Preset
  <2>2. PICK p, t, k, i, a :
           /\ pc' = [pc EXCEPT ![r] = p] /\ target' = [target EXCEPT ![r] = t]
           /\ asked' = [asked EXCEPT ![r] = k] /\ images' = [images EXCEPT ![r] = i]
           /\ answer' = [answer EXCEPT ![r] = a]
           /\ Own(p, n, t, k, {}, i, a)
    <3>1. NoAnswer \in Responses /\ 1 \in Nat /\ images[r] # "gone"
      BY <1>1, AnswerParts
    <3>2. /\ none \in SUBSET {target[r]} /\ none \in SUBSET Models
          /\ GoOn(r, none, 1, NoAnswer, none)
      BY <1>6
    <3> QED
      BY <1>2, <2>1, <3>1, <3>2, GoOnOwn
  <2> QED
    <3>1. Sets(r, p, n, t, k, {}, i, a)
      BY <1>3, <2>2 DEF Sets
    <3> QED
      BY <1>4, <2>2, <3>1, OneChanges
<1> QED
  BY <1>5, <1>6 DEF BeginCall

LEMMA SpeakIInv ==
    ASSUME IInv, NEW r \in Request, Speak(r) PROVE IInv'
<1>1. OwnOf(r) /\ pc[r] # "done"
  BY DEF IInv, Speak
<1>2. Own(pc[r], attempt[r], target[r], asked[r], voices[r] \cup {target[r]}, images[r], answer[r])
  BY <1>1 DEF OwnOf, Own
<1>3. voices' = [voices EXCEPT ![r] = voices[r] \cup {target[r]}]
  BY DEF Speak, IInv, Functions
<1>4. Shared' /\ UNCHANGED <<pc, attempt, target, asked, images, answer>>
  BY DEF Speak, Shared, IInv
<1>5. /\ pc' = [pc EXCEPT ![r] = pc[r]] /\ attempt' = [attempt EXCEPT ![r] = attempt[r]]
      /\ target' = [target EXCEPT ![r] = target[r]] /\ asked' = [asked EXCEPT ![r] = asked[r]]
      /\ images' = [images EXCEPT ![r] = images[r]] /\ answer' = [answer EXCEPT ![r] = answer[r]]
  BY <1>4, StaysSet
<1> QED
  <2>1. Sets(r, pc[r], attempt[r], target[r], asked[r], voices[r] \cup {target[r]},
            images[r], answer[r])
    BY <1>3, <1>5 DEF Sets
  <2> QED
    BY <1>2, <1>4, <2>1, OneChanges

LEMMA ResponsesRefusedIInv ==
    ASSUME IInv, NEW r \in Request, ResponsesRefused(r) PROVE IInv'
<1>1. OwnOf(r) /\ pc[r] # "done"
  BY DEF IInv, ResponsesRefused
<1>2. Own("chat", attempt[r], target[r], asked[r], voices[r], images[r], answer[r])
  BY <1>1 DEF OwnOf, Own, Place
<1>3. pc' = [pc EXCEPT ![r] = "chat"]
  BY DEF ResponsesRefused, Goto
<1>4. Shared'
  BY FailureIsBreaker DEF ResponsesRefused, Shared, IInv
<1>5. UNCHANGED <<attempt, target, asked, voices, images, answer>>
  BY DEF ResponsesRefused
<1>6. /\ attempt' = [attempt EXCEPT ![r] = attempt[r]] /\ target' = [target EXCEPT ![r] = target[r]]
      /\ asked' = [asked EXCEPT ![r] = asked[r]] /\ voices' = [voices EXCEPT ![r] = voices[r]]
      /\ images' = [images EXCEPT ![r] = images[r]] /\ answer' = [answer EXCEPT ![r] = answer[r]]
  BY <1>5, StaysSet
<1> QED
  <2>1. Sets(r, "chat", attempt[r], target[r], asked[r], voices[r], images[r], answer[r])
    BY <1>3, <1>6 DEF Sets
  <2> QED
    BY <1>2, <1>4, <2>1, OneChanges

(* A call that ends with a response, whatever becomes of the breakers.     *)
LEMMA SettledIInv ==
    ASSUME IInv, Shared', NEW r \in Request, pc[r] # "done", NEW w \in Responses, w # NoAnswer,
           Settle(r, w), UNCHANGED <<attempt, target, asked, voices>>,
           voices[r] = {} => AllAsked(asked[r], w)
    PROVE  IInv'
<1>1. PICK p, i :
         /\ pc' = [pc EXCEPT ![r] = p] /\ images' = [images EXCEPT ![r] = i]
         /\ answer' = [answer EXCEPT ![r] = w]
         /\ Own(p, attempt[r], target[r], asked[r], voices[r], i, w)
  BY SettleOwn, UnderWay
<1>2. /\ attempt' = [attempt EXCEPT ![r] = attempt[r]] /\ target' = [target EXCEPT ![r] = target[r]]
      /\ asked' = [asked EXCEPT ![r] = asked[r]] /\ voices' = [voices EXCEPT ![r] = voices[r]]
  BY StaysSet
<1> QED
  <2>1. Sets(r, p, attempt[r], target[r], asked[r], voices[r], i, w)
    BY <1>1, <1>2 DEF Sets
  <2> QED
    BY <1>1, <2>1, OneChanges

LEMMA AnswersIInv ==
    ASSUME IInv, NEW r \in Request, PrimaryAnswers(r) \/ FallbackAnswers(r) PROVE IInv'
<1> PICK m : m = IF pc[r] = "fallback" THEN target[r] ELSE Primary
  OBVIOUS
<1>1. pc[r] # "done" /\ m \in Models
  BY UnderWay, AnswerParts DEF PrimaryAnswers, FallbackAnswers
<1>2. Settle(r, Good(m)) /\ UNCHANGED <<attempt, target, asked, voices>>
  BY DEF PrimaryAnswers, FallbackAnswers
<1>3. Shared'
  BY FailureIsBreaker DEF PrimaryAnswers, FallbackAnswers, Shared, IInv
<1>4. Good(m) \in Responses /\ Good(m) # NoAnswer /\ AllAsked(asked[r], Good(m))
  BY <1>1, AnswerParts DEF AllAsked
<1> QED
  BY <1>1, <1>2, <1>3, <1>4, SettledIInv

LEMMA PrimaryFailsIInv ==
    ASSUME IInv, NEW r \in Request, NEW e \in Errors, PrimaryFails(r, e) PROVE IInv'
<1>1. e \in Error /\ pc[r] # "done"
  BY ErrorAssumption DEF PrimaryFails
<1>2. ASSUME voices[r] # {} \/ ~ShouldFallback(e), Settle(r, Failed(Primary, e)),
             UNCHANGED <<breaker, target, asked>>
      PROVE  IInv'
  <2>1. Shared' /\ UNCHANGED <<attempt, voices>>
    BY <1>2 DEF PrimaryFails, Shared, IInv
  <2>2. /\ Failed(Primary, e) \in Responses /\ Failed(Primary, e) # NoAnswer
        /\ Failed(Primary, e).by = Primary /\ Failed(Primary, e).error = e
    BY <1>1, AnswerParts
  <2>3. voices[r] = {} => AllAsked(asked[r], Failed(Primary, e))
    BY <1>2, <2>2 DEF AllAsked
  <2> QED
    BY <1>1, <1>2, <2>1, <2>2, <2>3, SettledIInv
<1>3. ASSUME voices[r] = {}, breaker' = Failure(breaker), GoOn(r, {}, 1, NoAnswer, asked[r])
      PROVE  IInv'
  <2>1. {q \in Preset \ Broken : q < 1} \subseteq asked[r]
    BY RequestAssumption DEF Preset
  <2>2. PICK p, t, k, i, a :
           /\ pc' = [pc EXCEPT ![r] = p] /\ target' = [target EXCEPT ![r] = t]
           /\ asked' = [asked EXCEPT ![r] = k] /\ images' = [images EXCEPT ![r] = i]
           /\ answer' = [answer EXCEPT ![r] = a]
           /\ Own(p, attempt[r], t, k, {}, i, a)
    BY <1>1, <1>3, <2>1, GoOnOwn, AnswerParts, UnderWay
  <2>3. Shared' /\ attempt' = [attempt EXCEPT ![r] = attempt[r]]
        /\ voices' = [voices EXCEPT ![r] = {}]
    BY <1>3, FailureIsBreaker, StaysSet DEF PrimaryFails, Shared, IInv
  <2> QED
    <3>1. Sets(r, p, attempt[r], t, k, {}, i, a)
      BY <2>2, <2>3 DEF Sets
    <3> QED
      BY <2>2, <2>3, <3>1, OneChanges
<1> QED
  BY <1>2, <1>3 DEF PrimaryFails

LEMMA FallbackFailsIInv ==
    ASSUME IInv, NEW r \in Request, NEW e \in Errors, FallbackFails(r, e) PROVE IInv'
<1> PICK w : w = Failed(target[r], e)
  OBVIOUS
<1>1. /\ e \in Error /\ pc[r] # "done" /\ target[r] \in Models
      /\ {q \in Preset \ Broken : q <= target[r]} \subseteq asked[r]
  BY ErrorAssumption, UnderWay DEF FallbackFails
<1>2. target[r] + 1 \in Nat /\ {q \in Preset \ Broken : q < target[r] + 1} \subseteq asked[r]
  BY <1>1, RequestAssumption DEF Preset, Models
<1>3. w \in Responses
  BY <1>1, AnswerParts
<1>4. GoOn(r, voices[r], target[r] + 1, w, asked[r])
  BY DEF FallbackFails
<1>5. PICK p, t, k, i, a :
         /\ pc' = [pc EXCEPT ![r] = p] /\ target' = [target EXCEPT ![r] = t]
         /\ asked' = [asked EXCEPT ![r] = k] /\ images' = [images EXCEPT ![r] = i]
         /\ answer' = [answer EXCEPT ![r] = a]
         /\ Own(p, attempt[r], t, k, voices[r], i, a)
  BY <1>1, <1>2, <1>3, <1>4, GoOnOwn, UnderWay
<1>6. Shared' /\ UNCHANGED <<attempt, voices>>
  BY DEF FallbackFails, Shared, IInv
<1>7. /\ attempt' = [attempt EXCEPT ![r] = attempt[r]] /\ voices' = [voices EXCEPT ![r] = voices[r]]
  BY <1>6, StaysSet
<1> QED
  <2>1. Sets(r, p, attempt[r], t, k, voices[r], i, a)
    BY <1>5, <1>7 DEF Sets
  <2> QED
    BY <1>5, <1>6, <2>1, OneChanges

LEMMA OuterTimeoutIInv ==
    ASSUME IInv, NEW r \in Request, OuterTimeout(r) PROVE IInv'
<1> PICK w : w = Failed(Nobody, TimeoutError)
  OBVIOUS
<1> PICK i : i = IF images[r] = "stripped" THEN "sent" ELSE images[r]
  OBVIOUS
<1>1. pc[r] # "done" /\ i \in Images \ {"gone"}
  BY UnderWay DEF OuterTimeout, Images
<1>2. w \in Responses /\ AllAsked(asked[r], w)
  BY AnswerParts DEF AllAsked
<1>3. Own("done", attempt[r], target[r], asked[r], voices[r], i, w)
  BY <1>1, <1>2, UnderWay DEF Own, Place
<1>4. /\ pc' = [pc EXCEPT ![r] = "done"] /\ images' = [images EXCEPT ![r] = i]
      /\ answer' = [answer EXCEPT ![r] = w]
  BY DEF OuterTimeout, Goto, IInv, Functions
<1>5. Shared' /\ UNCHANGED <<attempt, target, asked, voices>>
  BY DEF OuterTimeout, Shared, IInv
<1>6. /\ attempt' = [attempt EXCEPT ![r] = attempt[r]] /\ target' = [target EXCEPT ![r] = target[r]]
      /\ asked' = [asked EXCEPT ![r] = asked[r]] /\ voices' = [voices EXCEPT ![r] = voices[r]]
  BY <1>5, StaysSet
<1> QED
  <2>1. Sets(r, "done", attempt[r], target[r], asked[r], voices[r], i, w)
    BY <1>4, <1>6 DEF Sets
  <2> QED
    BY <1>3, <1>5, <2>1, OneChanges

LEMMA InitIInv == Init => IInv
<1> SUFFICES ASSUME Init PROVE IInv
  OBVIOUS
<1>1. Shared
  BY RequestAssumption DEF Init, Shared, Breaker
<1>2. Functions
  BY RequestAssumption, AnswerParts DEF Init, Functions, Place, Images
<1>3. ASSUME NEW r \in Request PROVE OwnOf(r)
  <2>1. /\ pc[r] = "idle" /\ attempt[r] = 0 /\ target[r] = Primary /\ asked[r] = {}
        /\ voices[r] = {} /\ images[r] \in {"none", "sent"} /\ answer[r] = NoAnswer
    BY <1>3 DEF Init
  <2> QED
    BY <2>1, RequestAssumption, AnswerParts DEF OwnOf, Own, Place, Images
<1> QED
  BY <1>1, <1>2, <1>3 DEF IInv

LEMMA StepIInv == IInv /\ [Next]_vars => IInv'
<1> SUFFICES ASSUME IInv, [Next]_vars PROVE IInv'
  OBVIOUS
<1>1. CASE UNCHANGED requestVars /\ Shared'
  BY <1>1 DEF IInv, Functions, OwnOf, requestVars
<1>2. CASE UNCHANGED vars
  BY <1>1, <1>2 DEF vars, IInv, Shared
<1>3. CASE Tick
  <2>1. Shared'
    BY <1>3, RequestAssumption DEF Tick, IInv, Shared
  <2> QED
    BY <1>1, <1>3, <2>1 DEF Tick
<1>4. ASSUME NEW r \in Request, BeginCall(r) PROVE IInv'
  BY <1>4, BeginCallIInv
<1>5. ASSUME NEW r \in Request, Step(r) PROVE IInv'
  BY <1>5, SpeakIInv, ResponsesRefusedIInv, AnswersIInv, PrimaryFailsIInv, FallbackFailsIInv,
     OuterTimeoutIInv DEF Step
<1> QED
  BY <1>2, <1>3, <1>4, <1>5 DEF Next

-----------------------------------------------------------------------------
LEMMA IInvSuffices == IInv => FailoverSound
<1> SUFFICES ASSUME IInv PROVE FailoverSound
  OBVIOUS
<1>1. TypeOK
  <2>1. /\ now \in 0 .. MaxNow /\ breaker \in Breaker /\ circuit \in Breaker
        /\ pc \in [Request -> Place] /\ attempt \in [Request -> 0 .. Retries + 1]
        /\ target \in [Request -> Models] /\ asked \in [Request -> SUBSET Models]
        /\ voices \in [Request -> SUBSET Models] /\ images \in [Request -> Images]
    BY DEF IInv, Shared, Functions
  <2>2. ASSUME NEW r \in Request
        PROVE  \/ answer[r] = NoAnswer
               \/ answer[r] \in {Good(m) : m \in 0 .. Fallbacks}
               \/ answer[r] \in {Failed(m, e) : m \in 0 .. Nobody, e \in Error}
    BY DEF IInv, Functions, Responses, Models
  <2> QED
    BY <2>1, <2>2 DEF TypeOK, Place, Models, Images
<1>2. OneVoice
  <2> SUFFICES ASSUME NEW r \in Request PROVE Cardinality(voices[r]) <= 1
    BY DEF OneVoice
  <2>1. voices[r] = {} \/ voices[r] = {target[r]}
    BY DEF IInv, OwnOf, Own
  <2>2. Cardinality({}) = 0 /\ Cardinality({target[r]}) = 1
    BY FS_EmptySet, FS_Singleton
  <2> QED
    BY <2>1, <2>2
<1>3. AllAskedBeforeError
  BY DEF AllAskedBeforeError, IInv, OwnOf, Own, AllAsked
<1>4. ImagesGoOnSuccess
  BY DEF ImagesGoOnSuccess, IInv, OwnOf, Own
<1> QED
  BY <1>1, <1>2, <1>3, <1>4 DEF FailoverSound

(* Whatever the order in which models fail, time out and stream, for any   *)
(* number of requests and presets: the user hears one model per call, an   *)
(* error comes only after every model there is was asked, and the images   *)
(* of a turn go only with an answer.                                       *)
THEOREM FailoverNeverMixes == Spec => []FailoverSound
<1>1. Spec => []IInv
  BY InitIInv, StepIInv, PTL DEF Spec
<1> QED
  BY <1>1, IInvSuffices, PTL
-----------------------------------------------------------------------------
(* The reply on a card.  What is known of the card of a message, of the     *)
(* draft and of the pump while a turn streams, ends and is delivered.       *)
Troubles == {"refused", "unclear", "plain", "emoji", "token", "broken", "missed",
             "unopened", "orphan", "gone"}
IsCard(c) ==
    /\ DOMAIN c = DOMAIN NewCard
    /\ c.fin \in BOOLEAN /\ c.pushed \in BOOLEAN /\ c.streamed \in BOOLEAN
    /\ c.context \in BOOLEAN /\ c.troubles \subseteq Troubles
RowsOf(tools) == [id : tools, state : {"running", "completed", "failed"}]
Quiet(steps) == \A i \in DOMAIN steps : steps[i].state # "running"

Stages == {"received", "ignored", "open", "stream", "respond", "typing", "commit",
           "media", "fallback", "spoilt", "over"}
TurnTyped ==
    /\ mode \in Modes /\ opened \in BOOLEAN
    /\ inbound \in Received[mode] \cup {NoMessage}
    /\ stage \in Stages
    /\ deltas \in 0 .. MaxDeltas[mode] /\ rounds \in 0 .. ToolRounds
    /\ running \subseteq Tools[mode] /\ ran \subseteq Tools[mode] /\ blanks \in 0 .. 2
    /\ reply.kind \in Kinds \cup {"open"}
PumpTyped ==
    /\ pump.task \in {"none", "waits", "sleeps", "types", "commits"}
    /\ Len(pump.pending) <= 1 /\ Len(pump.frame) <= 1
    /\ pump.task \in {"sleeps", "types", "commits"} <=> pump.frame # <<>>

(* Every row that runs is that of a tool that runs.                        *)
IsDraft(d, tools) ==
    DOMAIN d = DOMAIN NewDraft /\ d.steps \in Seq(RowsOf(tools)) /\ Len(d.steps) <= MaxSteps
RunsIn(d, tools) == \A i \in DOMAIN d.steps : d.steps[i].state = "running" => d.steps[i].id \in tools
DraftSound ==
    /\ IsDraft(draft, Tools[mode]) /\ RunsIn(draft, running)
    /\ ~(mode = "v2" /\ opened) => draft.steps = <<>>
    /\ stage \in {"received", "open", "stream", "respond"} => draft.finished = FALSE

(* What the pump holds last, waiting, in its hand or tried, is the frame   *)
(* of the present draft.                                                   *)
PumpHolds ==
    /\ DOMAIN pump = DOMAIN IdlePump /\ pump.closed \in BOOLEAN /\ pump.wake \in BOOLEAN
    /\ pump.closed => pump = [IdlePump EXCEPT !.closed = TRUE]
    /\ pump.task # "none" => /\ mode = "v2" /\ opened
                             /\ stage \in {"stream", "respond"} \/ reply.kind = "none"
    /\ pump.pending # <<>> => pump.wake /\ (pump.task # "none" \/ "broken" \in card.troubles)
    /\ pump.pending # <<>> => pump.pending = <<Frame(draft, FALSE)>>
    /\ pump.pending = <<>> /\ pump.frame # <<>> => pump.frame = <<Frame(draft, FALSE)>>
    /\ pump.pending = <<>> /\ pump.frame = <<>> /\ pump.tried # <<>> => pump.tried = <<Frame(draft, FALSE)>>

Staged ==
    /\ opened => mode \in {"v2", "legacy", "sse"}
    /\ stage \in {"received", "open"} => ~opened
    /\ stage = "received" => card.troubles = {}
    /\ stage = "open" => /\ mode \in {"v2", "legacy"} /\ ~card.streamed
                         /\ card.context = (mode = "legacy")
    /\ stage \in {"typing", "commit"} => mode = "v2" /\ opened
    /\ stage \in {"typing", "commit", "media", "fallback", "spoilt"} => reply.kind # "none"
    /\ running # {} => stage = "stream"
    /\ mode = "push" <=> reply.kind = "pushed"
    /\ mode = "push" => stage \notin {"received", "open", "stream"}
    /\ stage = "respond" => reply.kind # "open"
    /\ stage = "media" => reply.kind \in {"answer", "final", "notice"}

(* A card no request failed for.                                           *)
Untroubled == opened /\ card.troubles = {}
Finishing ==
    /\ Untroubled /\ reply.kind # "none" /\ stage \in {"media", "over"} => card.fin
    /\ Untroubled /\ stage = "fallback" => mode = "legacy"
    /\ mode = "v2" /\ card.fin =>
          /\ stage \in {"media", "fallback", "over", "spoilt"} /\ reply.kind # "none" /\ opened
          /\ Quiet(card.steps)
EmojiTold ==
    Untroubled /\ mode = "legacy" =>
        /\ ~card.context => card.emoji = "done"
        /\ card.streamed => card.fin
        /\ stage = "respond" /\ reply.kind \in {"answer", "final"} => card.streamed /\ card.emoji = "done"
        /\ stage \in {"media", "over"} /\ reply.kind \in {"answer", "final", "notice"} => card.emoji = "done"

CardInv == TurnTyped /\ PumpTyped /\ IsCard(card) /\ DraftSound /\ PumpHolds /\ Staged /\ Finishing /\ EmojiTold

-----------------------------------------------------------------------------
(* What the operations of the sender and of the card manager do to a card:  *)
(* no trouble is ever forgotten, and one of these is the price of what      *)
(* did not work.                                                            *)
Later(c, d) == IsCard(d) /\ c.troubles \subseteq d.troubles

LEMMA LaterIsTransitive ==
    ASSUME NEW b, NEW c, NEW d, Later(b, c), Later(c, d)
    PROVE  Later(b, d)
  BY DEF Later

LEMMA OutcomeParts ==
    ASSUME NEW o \in Outcomes
    PROVE  /\ o.stream \in Results /\ o.finish \in Results /\ o.again \in Results
           /\ o.status \in Results /\ o.plain \in Results
  BY DEF Outcomes, Requests

LEMMA FailingAreOutcomes ==
    ASSUME NEW R, NEW o \in Failing(R)
    PROVE  o \in Outcomes
  BY DEF Failing

LEMMA StreamContentIs ==
    ASSUME NEW c, IsCard(c), NEW text, NEW r \in Results, NEW d, d = StreamContent(c, text, r)
    PROVE  /\ Later(c, d) /\ d.fin = c.fin /\ d.streamed = c.streamed /\ d.pushed = c.pushed
           /\ d.context = c.context /\ d.emoji = c.emoji /\ d.steps = c.steps
           /\ r # "ok" => d.troubles # {}
  BY DEF StreamContent, IsCard, Later, NewCard, Results, Failures, Troubles

LEMMA FinishCardStatusIs ==
    ASSUME NEW c, IsCard(c), NEW r \in Results, NEW d, d = FinishCardStatus(c, r)
    PROVE  /\ Later(c, d) /\ d.streamed = c.streamed /\ d.pushed = c.pushed
           /\ d.context = c.context /\ d.emoji = c.emoji /\ d.steps = c.steps
           /\ d.troubles = {} => d.fin
           /\ r # "ok" => d.troubles # {}
  BY DEF FinishCardStatus, IsCard, Later, NewCard, Results, Failures, Troubles, Arrives

LEMMA FinishOrStatusIs ==
    ASSUME NEW c, IsCard(c), NEW o \in Outcomes, NEW d, d = FinishOrStatus(c, o)
    PROVE  /\ Later(c, d) /\ d.streamed = c.streamed /\ d.pushed = c.pushed
           /\ d.context = c.context /\ d.emoji = c.emoji /\ d.steps = c.steps
           /\ d.troubles = {} => d.fin
<1> DEFINE f == FinishStreaming(c, o.finish)
<1>1. o.finish \in Results /\ o.again \in Results
  BY OutcomeParts
<1>2. f = FinishCardStatus(c, o.finish)
  BY DEF FinishStreaming
<1>3. d = IF o.finish = "ok" THEN f ELSE FinishCardStatus(f, o.again)
  BY DEF FinishOrStatus
<1> HIDE DEF f
<1>4. /\ Later(c, f) /\ f.streamed = c.streamed /\ f.pushed = c.pushed
      /\ f.context = c.context /\ f.emoji = c.emoji /\ f.steps = c.steps
      /\ f.troubles = {} => f.fin
  BY <1>1, <1>2, FinishCardStatusIs
<1>5. IsCard(f)
  BY <1>4 DEF Later
<1>6. CASE o.finish = "ok"
  BY <1>3, <1>4, <1>6
<1>7. CASE o.finish # "ok"
  <2> DEFINE g == FinishCardStatus(f, o.again)
  <2>1. /\ Later(f, g) /\ g.streamed = f.streamed /\ g.pushed = f.pushed
        /\ g.context = f.context /\ g.emoji = f.emoji /\ g.steps = f.steps
        /\ g.troubles = {} => g.fin
    BY <1>1, <1>5, FinishCardStatusIs
  <2> HIDE DEF g
  <2>2. d = g
    BY <1>3, <1>7 DEF g
  <2>3. Later(c, g)
    BY <1>4, <2>1, LaterIsTransitive
  <2> QED
    BY <1>4, <2>1, <2>2, <2>3
<1> QED
  BY <1>6, <1>7

LEMMA FinalizeCardIs ==
    ASSUME NEW c, IsCard(c), NEW text, NEW o \in Outcomes, NEW f, f = FinalizeCard(c, text, o)
    PROVE  /\ Later(c, f.card) /\ f.card.streamed = c.streamed /\ f.card.pushed = c.pushed
           /\ f.card.context = c.context /\ f.card.emoji = c.emoji /\ f.card.steps = c.steps
           /\ f.ok \in BOOLEAN
           /\ f.card.troubles = {} => f.ok /\ f.card.fin
<1> DEFINE r == StreamContent(c, text, o.stream)
           e == FinishOrStatus(r, o)
<1>1. o.stream \in Results
  BY OutcomeParts
<1>2. /\ Later(c, r) /\ r.streamed = c.streamed /\ r.pushed = c.pushed
      /\ r.context = c.context /\ r.emoji = c.emoji /\ r.steps = c.steps
      /\ o.stream # "ok" => r.troubles # {}
  BY <1>1, StreamContentIs
<1>3. IsCard(r)
  BY <1>2 DEF Later
<1>4. /\ Later(r, e) /\ e.streamed = r.streamed /\ e.pushed = r.pushed
      /\ e.context = r.context /\ e.emoji = r.emoji /\ e.steps = r.steps
      /\ e.troubles = {} => e.fin
  BY <1>3, FinishOrStatusIs
<1>5. f = IF o.stream = "ok" THEN [card |-> e, ok |-> TRUE] ELSE [card |-> r, ok |-> FALSE]
  BY DEF FinalizeCard
<1> HIDE DEF r, e
<1>6. Later(c, e)
  BY <1>2, <1>4, LaterIsTransitive
<1>7. CASE o.stream = "ok"
  <2>1. f.card = e /\ f.ok = TRUE
    BY <1>5, <1>7
  <2> QED
    BY <1>2, <1>4, <1>6, <2>1
<1>8. CASE o.stream # "ok"
  <2>1. f.card = r /\ f.ok = FALSE
    BY <1>5, <1>8
  <2> QED
    BY <1>2, <1>8, <2>1
<1> QED
  BY <1>7, <1>8

LEMMA TriggerEmotionIs ==
    ASSUME NEW c, IsCard(c), NEW name, NEW o, NEW d, d = TriggerEmotion(c, name, o)
    PROVE  /\ Later(c, d) /\ d.fin = c.fin /\ d.streamed = c.streamed /\ d.pushed = c.pushed
           /\ d.context = c.context /\ d.steps = c.steps
           /\ ~c.context => d = c
           /\ c.context /\ d.troubles = {} => d.emoji = name
  BY DEF TriggerEmotion, IsCard, Later, NewCard, Troubles

LEMMA RecallEmotionIs ==
    ASSUME NEW c, IsCard(c), NEW o, NEW d, d = RecallEmotion(c, o)
    PROVE  Later(c, d)
  BY DEF RecallEmotion, IsCard, Later, NewCard, Troubles

LEMMA CleanupIs ==
    ASSUME NEW c, IsCard(c), NEW d, d = CleanupChatContext(c)
    PROVE  /\ Later(c, d) /\ d.fin = c.fin /\ d.streamed = c.streamed /\ d.emoji = c.emoji
           /\ d.context = FALSE /\ d.steps = c.steps /\ d.pushed = c.pushed
           /\ d.troubles = c.troubles
  BY DEF CleanupChatContext, IsCard, Later, NewCard

LEMMA MarkCardStreamedIs ==
    ASSUME NEW c, IsCard(c), NEW d, d = MarkCardStreamed(c)
    PROVE  /\ Later(c, d) /\ d.fin = c.fin /\ d.streamed = TRUE /\ d.emoji = c.emoji
           /\ d.context = c.context /\ d.steps = c.steps /\ d.pushed = c.pushed
           /\ d.troubles = c.troubles
  BY DEF MarkCardStreamed, IsCard, Later, NewCard

LEMMA SendMarkdownIs ==
    ASSUME NEW c, IsCard(c), NEW text, NEW o, NEW d, d = SendMarkdown(c, text, o)
    PROVE  /\ Later(c, d) /\ d.fin = c.fin /\ d.streamed = c.streamed /\ d.emoji = c.emoji
           /\ d.context = c.context /\ d.steps = c.steps /\ d.pushed = c.pushed
  BY DEF SendMarkdown, IsCard, Later, NewCard, Troubles

LEMMA PushBufferIs ==
    ASSUME NEW c, IsCard(c), NEW o \in Outcomes, NEW d, d = PushBuffer(c, o)
    PROVE  /\ Later(c, d) /\ d.fin = c.fin /\ d.streamed = c.streamed
           /\ d.context = c.context /\ d.emoji = c.emoji
<1> DEFINE r == StreamContent(c, c.buffer.text, o.stream)
<1>1. o.stream \in Results
  BY OutcomeParts
<1>2. Later(c, r) /\ r.fin = c.fin /\ r.streamed = c.streamed /\ r.context = c.context /\ r.emoji = c.emoji
  BY <1>1, StreamContentIs
<1>3. d = [r EXCEPT !.pushed = @ \/ o.stream = "ok"]
  BY DEF PushBuffer
<1> HIDE DEF r
<1> QED
  BY <1>2, <1>3 DEF Later, IsCard, NewCard

(* A field of a card set to something else.                                *)
LEMMA BufferSet ==
    ASSUME NEW c, IsCard(c), NEW b, NEW d, d = [c EXCEPT !.buffer = b]
    PROVE  /\ Later(c, d) /\ d.fin = c.fin /\ d.streamed = c.streamed /\ d.emoji = c.emoji
           /\ d.context = c.context /\ d.pushed = c.pushed /\ d.steps = c.steps
           /\ d.troubles = c.troubles
  BY DEF IsCard, Later, NewCard

LEMMA BufferCleared ==
    ASSUME NEW c, IsCard(c), NEW b, NEW d, d = [c EXCEPT !.buffer = b, !.cut = FALSE]
    PROVE  /\ Later(c, d) /\ d.fin = c.fin /\ d.streamed = c.streamed /\ d.emoji = c.emoji
           /\ d.context = c.context /\ d.pushed = c.pushed /\ d.troubles = c.troubles
  BY DEF IsCard, Later, NewCard

(* A card that told its user nothing yet may tell anything; one whose       *)
(* context is gone says that the answer is done.                           *)
SaysDone(c) == ~c.context => c.emoji = "done"

LEMMA SendDeltaIs ==
    ASSUME NEW c, IsCard(c), NEW piece, NEW due, NEW o \in Outcomes, NEW d, d = SendDelta(c, piece, due, o)
    PROVE  /\ Later(c, d) /\ d.fin = c.fin /\ d.streamed = c.streamed
           /\ SaysDone(c) => SaysDone(d)
<1> DEFINE b == [c EXCEPT !.buffer = Buffered(<<>>)]
           fresh == IF c.buffer.there THEN c ELSE TriggerEmotion(b, "writing", o)
           full == Len(fresh.buffer.text) + 1 > BufferMax
           cut == [fresh EXCEPT !.cut = TRUE, !.lost = TRUE]
           more == [fresh EXCEPT !.buffer = Buffered(Append(@.text, piece))]
           kept == IF full THEN cut ELSE more
<1>1. /\ Later(c, b) /\ b.fin = c.fin /\ b.streamed = c.streamed /\ b.context = c.context /\ b.emoji = c.emoji
  BY BufferSet
<1>2. /\ Later(c, fresh) /\ fresh.fin = c.fin /\ fresh.streamed = c.streamed
      /\ SaysDone(c) => SaysDone(fresh)
  <2>1. CASE c.buffer.there
    <3>1. fresh = c
      BY <2>1
    <3> QED
      BY <3>1 DEF Later
  <2>2. CASE ~c.buffer.there
    <3> DEFINE t == TriggerEmotion(b, "writing", o)
    <3>1. IsCard(b)
      BY <1>1 DEF Later
    <3> HIDE DEF b
    <3>2. /\ Later(b, t) /\ t.fin = b.fin /\ t.streamed = b.streamed /\ t.context = b.context
          /\ ~b.context => t = b
      BY <3>1, TriggerEmotionIs
    <3>3. fresh = t
      BY <2>2
    <3>4. Later(c, t)
      BY <1>1, <3>2, LaterIsTransitive
    <3> HIDE DEF fresh, t
    <3> QED
      BY <1>1, <3>2, <3>3, <3>4 DEF SaysDone
  <2> QED
    BY <2>1, <2>2
<1>3. d = IF c.cut THEN c
          ELSE IF full \/ due \/ fresh.buffer.text = <<>> THEN PushBuffer(kept, o) ELSE kept
  BY DEF SendDelta
<1> HIDE DEF b, fresh, full
<1>4. /\ Later(c, kept) /\ kept.fin = c.fin /\ kept.streamed = c.streamed
      /\ SaysDone(c) => SaysDone(kept)
  <2>1. IsCard(fresh)
    BY <1>2 DEF Later
  <2>2. CASE full
    <3>1. kept = cut
      BY <2>2
    <3>2. Later(fresh, cut) /\ cut.fin = fresh.fin /\ cut.streamed = fresh.streamed /\ cut.context = fresh.context /\ cut.emoji = fresh.emoji
      BY <2>1 DEF IsCard, Later, NewCard
    <3> HIDE DEF kept, cut
    <3> QED
      BY <1>2, <3>1, <3>2, LaterIsTransitive DEF SaysDone
  <2>3. CASE ~full
    <3>1. kept = more
      BY <2>3
    <3>2. Later(fresh, more) /\ more.fin = fresh.fin /\ more.streamed = fresh.streamed /\ more.context = fresh.context /\ more.emoji = fresh.emoji
      BY <2>1, BufferSet
    <3> HIDE DEF kept, more
    <3> QED
      BY <1>2, <3>1, <3>2, LaterIsTransitive DEF SaysDone
  <2> QED
    BY <2>2, <2>3
<1> HIDE DEF kept
<1>5. CASE d = c
  BY <1>5 DEF Later
<1>6. CASE d = kept
  BY <1>4, <1>6
<1>7. CASE d = PushBuffer(kept, o)
  <2>1. IsCard(kept)
    BY <1>4 DEF Later
  <2>2. /\ Later(kept, d) /\ d.fin = kept.fin /\ d.streamed = kept.streamed
        /\ d.context = kept.context /\ d.emoji = kept.emoji
    BY <1>7, <2>1, PushBufferIs
  <2> QED
    BY <1>4, <2>2, LaterIsTransitive DEF SaysDone
<1> QED
  BY <1>3, <1>5, <1>6, <1>7

LEMMA PauseStreamIs ==
    ASSUME NEW c, IsCard(c), NEW o, NEW d, d = PauseStream(c, o)
    PROVE  /\ Later(c, d) /\ d.fin = c.fin /\ d.streamed = c.streamed
           /\ SaysDone(c) => SaysDone(d)
<1> DEFINE t == TriggerEmotion(c, "tool", o)
<1>1. /\ Later(c, t) /\ t.fin = c.fin /\ t.streamed = c.streamed /\ t.context = c.context
      /\ ~c.context => t = c
  BY TriggerEmotionIs
<1>2. d = [t EXCEPT !.buffer = NoBuffer, !.cut = FALSE]
  BY DEF PauseStream
<1> HIDE DEF t
<1>3. IsCard(t)
  BY <1>1 DEF Later
<1>4. /\ Later(t, d) /\ d.fin = t.fin /\ d.streamed = t.streamed /\ d.emoji = t.emoji /\ d.context = t.context
  BY <1>2, <1>3 DEF Later, IsCard, NewCard
<1>5. Later(c, d)
  BY <1>1, <1>4, LaterIsTransitive
<1> QED
  BY <1>1, <1>4, <1>5 DEF SaysDone

(* The end of a stream without a trouble leaves a finished card that says   *)
(* so.                                                                     *)
LEMMA EndStreamIs ==
    ASSUME NEW c, IsCard(c), NEW o \in Outcomes, NEW d, d = EndStream(c, o)
    PROVE  /\ Later(c, d) /\ d.context = FALSE
           /\ SaysDone(c) /\ d.troubles = {} => d.emoji = "done" /\ d.streamed /\ d.fin
<1> DEFINE text == c.buffer.text \o (IF c.cut THEN <<Cut>> ELSE <<>>)
           t == TriggerEmotion(c, "done", o)
           done == [t EXCEPT !.buffer = NoBuffer, !.cut = FALSE]
           rendered == StreamContent(done, text, o.stream)
           ended == IF text = <<>> THEN FinishStreaming(done, o.finish) ELSE FinishOrStatus(rendered, o)
           said_ == SendMarkdown(rendered, text, o)
           marked == MarkCardStreamed(ended)
           last == IF text # <<>> /\ o.stream # "ok" THEN said_ ELSE marked
<1>0. o.stream \in Results /\ o.finish \in Results
  BY OutcomeParts
<1>1. /\ Later(c, t) /\ t.context = c.context
      /\ ~c.context => t = c
      /\ c.context /\ t.troubles = {} => t.emoji = "done"
  BY TriggerEmotionIs
<1>2. IsCard(t)
  BY <1>1 DEF Later
<1>3. /\ Later(t, done) /\ done.emoji = t.emoji /\ done.context = t.context /\ done.troubles = t.troubles
  BY <1>2, BufferCleared
<1>4. Later(c, done) /\ IsCard(done) /\ (SaysDone(c) /\ done.troubles = {} => done.emoji = "done")
  <2>1. Later(c, done)
    BY <1>1, <1>3, LaterIsTransitive
  <2>2. IsCard(done)
    BY <1>3 DEF Later
  <2> HIDE DEF t, done
  <2> QED
    BY <1>1, <1>3, <2>1, <2>2 DEF SaysDone
<1>5. d = CleanupChatContext(last)
  BY DEF EndStream
<1> HIDE DEF t, done, text
<1>6. /\ Later(done, rendered) /\ rendered.emoji = done.emoji
      /\ o.stream # "ok" => rendered.troubles # {}
  BY <1>0, <1>4, StreamContentIs
<1>7. IsCard(rendered) /\ Later(c, rendered)
  BY <1>4, <1>6, LaterIsTransitive DEF Later
<1> HIDE DEF rendered
<1>8. Later(done, ended) /\ ended.emoji = done.emoji /\ (ended.troubles = {} => ended.fin)
  <2>1. CASE text = <<>>
    <3>1. ended = FinishCardStatus(done, o.finish)
      BY <2>1 DEF FinishStreaming
    <3> HIDE DEF ended
    <3> QED
      BY <1>0, <1>4, <3>1, FinishCardStatusIs
  <2>2. CASE text # <<>>
    <3>1. ended = FinishOrStatus(rendered, o)
      BY <2>2
    <3> HIDE DEF ended
    <3>2. Later(rendered, ended) /\ ended.emoji = rendered.emoji /\ (ended.troubles = {} => ended.fin)
      BY <1>7, <3>1, FinishOrStatusIs
    <3> QED
      BY <1>6, <3>2, LaterIsTransitive
  <2> QED
    BY <2>1, <2>2
<1> HIDE DEF ended
<1>9. IsCard(ended) /\ Later(c, ended)
  BY <1>4, <1>8, LaterIsTransitive DEF Later
<1>10. /\ Later(ended, marked) /\ marked.fin = ended.fin /\ marked.streamed = TRUE /\ marked.emoji = ended.emoji
       /\ marked.troubles = ended.troubles
  BY <1>9, MarkCardStreamedIs
<1>11. Later(rendered, said_)
  BY <1>7, SendMarkdownIs
<1> HIDE DEF said_, marked
<1>12. /\ Later(c, last)
       /\ SaysDone(c) /\ last.troubles = {} => last.emoji = "done" /\ last.streamed /\ last.fin
  <2>1. CASE text # <<>> /\ o.stream # "ok"
    <3>1. last = said_
      BY <2>1
    <3>2. Later(c, said_)
      BY <1>7, <1>11, LaterIsTransitive
    <3>3. said_.troubles # {}
      BY <1>6, <1>11, <2>1 DEF Later
    <3> QED
      BY <3>1, <3>2, <3>3
  <2>2. CASE ~(text # <<>> /\ o.stream # "ok")
    <3>1. last = marked
      BY <2>2
    <3> HIDE DEF last
    <3>2. Later(c, marked)
      BY <1>9, <1>10, LaterIsTransitive
    <3>3. marked.troubles = {} => done.troubles = {}
      BY <1>8, <1>10 DEF Later
    <3> QED
      BY <1>4, <1>8, <1>10, <3>1, <3>2, <3>3
  <2> QED
    BY <2>1, <2>2
<1> HIDE DEF last
<1>13. IsCard(last)
  BY <1>12 DEF Later
<1>14. /\ Later(last, d) /\ d.fin = last.fin /\ d.streamed = last.streamed /\ d.emoji = last.emoji
       /\ d.context = FALSE /\ d.troubles = last.troubles
  BY <1>5, <1>13, CleanupIs
<1>15. Later(c, d)
  BY <1>12, <1>14, LaterIsTransitive
<1> QED
  BY <1>12, <1>14, <1>15

(* The last resort for a text: the card that is there, and markdown.       *)
LEMMA SendTextIs ==
    ASSUME NEW c, IsCard(c), NEW onCard \in BOOLEAN, NEW text, NEW o \in Outcomes,
           NEW d, d = SendText(c, onCard, text, o)
    PROVE  /\ Later(c, d)
           /\ ~onCard => d.fin = c.fin /\ d.steps = c.steps
           /\ onCard /\ SaysDone(c) /\ d.troubles = {} => d.fin /\ d.emoji = "done"
<1>1. CASE ~onCard
  <2>1. d = SendMarkdown(c, text, o)
    BY <1>1 DEF SendText
  <2> QED
    BY <1>1, <2>1, SendMarkdownIs
<1>2. CASE onCard
  <2> DEFINE status == FinishCardStatus(c, o.status)
             f == FinalizeCard(status, text, o)
             g == FinalizeCard(c, text, o)
             closing == IF c.pushed /\ o.status = "ok" THEN [card |-> status, ok |-> TRUE]
                        ELSE IF c.pushed THEN f ELSE g
             k == closing.card
             closed == TriggerEmotion(k, "done", o)
  <2>0. o.status \in Results
    BY OutcomeParts
  <2>1. /\ Later(c, status) /\ status.context = c.context /\ status.emoji = c.emoji
        /\ status.troubles = {} => status.fin
    BY <2>0, FinishCardStatusIs
  <2>2. IsCard(status)
    BY <2>1 DEF Later
  <2>3. d = IF closing.ok THEN CleanupChatContext(MarkCardStreamed(closed))
            ELSE IF closed.streamed THEN [closed EXCEPT !.streamed = FALSE]
            ELSE RecallEmotion(SendMarkdown(closed, text, o), o)
    BY <1>2 DEF SendText
  <2> HIDE DEF status
  <2>4. /\ Later(status, f.card) /\ f.card.context = status.context /\ f.card.emoji = status.emoji
        /\ f.card.troubles = {} => f.ok /\ f.card.fin
    BY <2>2, FinalizeCardIs
  <2>5. /\ Later(c, g.card) /\ g.card.context = c.context /\ g.card.emoji = c.emoji
        /\ g.card.troubles = {} => g.ok /\ g.card.fin
    BY FinalizeCardIs
  <2> HIDE DEF f, g
  <2>6. Later(c, f.card)
    BY <2>1, <2>4, LaterIsTransitive
  <2>7. /\ Later(c, k) /\ k.context = c.context /\ k.emoji = c.emoji
        /\ k.troubles = {} => closing.ok /\ k.fin
    <3>1. CASE c.pushed /\ o.status = "ok"
      <4>1. k = status /\ closing.ok = TRUE
        BY <3>1
      <4> HIDE DEF closing, k
      <4> QED
        BY <2>1, <4>1
    <3>2. CASE c.pushed /\ o.status # "ok"
      <4>1. k = f.card /\ closing.ok = f.ok
        BY <3>2
      <4> HIDE DEF closing, k
      <4> QED
        BY <2>1, <2>4, <2>6, <4>1
    <3>3. CASE ~c.pushed
      <4>1. k = g.card /\ closing.ok = g.ok
        BY <3>3
      <4> HIDE DEF closing, k
      <4> QED
        BY <2>5, <4>1
    <3> QED
      BY <3>1, <3>2, <3>3
  <2> HIDE DEF closing
  <2>8. IsCard(k)
    BY <2>7 DEF Later
  <2> HIDE DEF k
  <2>9. /\ Later(k, closed) /\ closed.fin = k.fin /\ closed.context = k.context
        /\ ~k.context => closed = k
        /\ k.context /\ closed.troubles = {} => closed.emoji = "done"
    BY <2>8, TriggerEmotionIs
  <2>10. IsCard(closed) /\ Later(c, closed)
    BY <2>7, <2>9, LaterIsTransitive DEF Later
  <2> HIDE DEF closed
  <2>11. CASE closing.ok
    <3> DEFINE m == MarkCardStreamed(closed)
    <3>1. /\ Later(closed, m) /\ m.fin = closed.fin /\ m.emoji = closed.emoji /\ m.troubles = closed.troubles
      BY <2>10, MarkCardStreamedIs
    <3>2. IsCard(m)
      BY <3>1 DEF Later
    <3>3. d = CleanupChatContext(m)
      BY <2>3, <2>11
    <3> HIDE DEF m
    <3>4. /\ Later(m, d) /\ d.fin = m.fin /\ d.emoji = m.emoji /\ d.troubles = m.troubles
      BY <3>2, <3>3, CleanupIs
    <3>5. Later(c, d)
      BY <2>10, <3>1, <3>4, LaterIsTransitive
    <3>6. d.troubles = {} => closed.troubles = {} /\ k.troubles = {}
      BY <2>9, <3>1, <3>4 DEF Later
    <3> QED
      BY <1>2, <2>7, <2>9, <3>1, <3>4, <3>5, <3>6 DEF SaysDone
  <2>12. CASE ~closing.ok
    <3>1. k.troubles # {}
      BY <2>7, <2>12
    <3>2. closed.troubles # {}
      BY <2>9, <3>1 DEF Later
    <3>3. CASE closed.streamed
      <4>1. d = [closed EXCEPT !.streamed = FALSE]
        BY <2>3, <2>12, <3>3
      <4>2. Later(closed, d)
        BY <2>10, <4>1 DEF IsCard, Later, NewCard
      <4>3. Later(c, d) /\ d.troubles # {}
        BY <2>10, <3>2, <4>2, LaterIsTransitive DEF Later
      <4> QED
        BY <1>2, <4>3
    <3>4. CASE ~closed.streamed
      <4> DEFINE s == SendMarkdown(closed, text, o)
      <4>1. Later(closed, s)
        BY <2>10, SendMarkdownIs
      <4>2. IsCard(s)
        BY <4>1 DEF Later
      <4>3. d = RecallEmotion(s, o)
        BY <2>3, <2>12, <3>4
      <4> HIDE DEF s
      <4>4. Later(s, d)
        BY <4>2, <4>3, RecallEmotionIs
      <4>5. Later(closed, d)
        BY <4>1, <4>4, LaterIsTransitive
      <4>6. Later(c, d) /\ d.troubles # {}
        BY <2>10, <3>2, <4>5, LaterIsTransitive DEF Later
      <4> QED
        BY <1>2, <4>6
    <3> QED
      BY <3>3, <3>4
  <2> QED
    BY <2>11, <2>12
<1> QED
  BY <1>1, <1>2

LEMMA FinalizeWithNotificationIs ==
    ASSUME NEW c, IsCard(c), NEW notice, NEW o \in Outcomes, NEW d, d = FinalizeWithNotification(c, notice, o)
    PROVE  /\ Later(c, d)
           /\ SaysDone(c) /\ d.troubles = {} => d.fin /\ d.emoji = "done"
           /\ d.context = c.context
<1> DEFINE b == [c EXCEPT !.buffer = NoBuffer]
           text == c.buffer.text \o notice
           r == StreamContent(b, text, o.stream)
           ended == IF o.stream = "ok" THEN FinishOrStatus(r, o) ELSE FinishCardStatus(r, o.again)
           t == TriggerEmotion(ended, "done", o)
<1>0. o.stream \in Results /\ o.again \in Results
  BY OutcomeParts
<1>1. /\ Later(c, b) /\ b.context = c.context /\ b.emoji = c.emoji
  BY BufferSet
<1>2. IsCard(b)
  BY <1>1 DEF Later
<1>3. d = MarkCardStreamed(t)
  BY DEF FinalizeWithNotification
<1> HIDE DEF b, text
<1>4. Later(b, r) /\ r.context = b.context /\ r.emoji = b.emoji
  BY <1>0, <1>2, StreamContentIs
<1>5. IsCard(r) /\ Later(c, r)
  BY <1>1, <1>4, LaterIsTransitive DEF Later
<1> HIDE DEF r
<1>6. /\ Later(r, ended) /\ ended.context = r.context /\ ended.emoji = r.emoji
      /\ ended.troubles = {} => ended.fin
  <2>1. CASE o.stream = "ok"
    <3>1. ended = FinishOrStatus(r, o)
      BY <2>1
    <3> HIDE DEF ended
    <3> QED
      BY <1>5, <3>1, FinishOrStatusIs
  <2>2. CASE o.stream # "ok"
    <3>1. ended = FinishCardStatus(r, o.again)
      BY <2>2
    <3> HIDE DEF ended
    <3> QED
      BY <1>0, <1>5, <3>1, FinishCardStatusIs
  <2> QED
    BY <2>1, <2>2
<1> HIDE DEF ended
<1>7. IsCard(ended) /\ Later(c, ended)
  BY <1>5, <1>6, LaterIsTransitive DEF Later
<1>8. /\ Later(ended, t) /\ t.fin = ended.fin /\ t.context = ended.context
      /\ ~ended.context => t = ended
      /\ ended.context /\ t.troubles = {} => t.emoji = "done"
  BY <1>7, TriggerEmotionIs
<1>9. IsCard(t) /\ Later(c, t)
  BY <1>7, <1>8, LaterIsTransitive DEF Later
<1> HIDE DEF t
<1>10. /\ Later(t, d) /\ d.fin = t.fin /\ d.emoji = t.emoji /\ d.troubles = t.troubles /\ d.context = t.context
  BY <1>3, <1>9, MarkCardStreamedIs
<1>11. Later(c, d)
  BY <1>9, <1>10, LaterIsTransitive
<1>12. d.troubles = {} => ended.troubles = {}
  BY <1>8, <1>10 DEF Later
<1> QED
  BY <1>1, <1>4, <1>6, <1>8, <1>10, <1>11, <1>12 DEF SaysDone

LEMMA FailIs ==
    ASSUME NEW c, IsCard(c), NEW text, NEW o \in Outcomes, NEW f, f = Fail(c, text, o)
    PROVE  /\ Later(c, f.card) /\ f.card.steps = c.steps
           /\ f.card.context = c.context /\ f.card.emoji = c.emoji
           /\ f.card.troubles = {} => f.ok /\ f.card.fin
<1> DEFINE b == [c EXCEPT !.buffer = NoBuffer]
<1>1. /\ Later(c, b) /\ b.context = c.context /\ b.emoji = c.emoji /\ b.steps = c.steps
  BY BufferSet
<1>2. IsCard(b)
  BY <1>1 DEF Later
<1>3. f = FinalizeCard(b, c.buffer.text \o text, o)
  BY DEF Fail, FailCard
<1> HIDE DEF b
<1>4. /\ Later(b, f.card) /\ f.card.context = b.context /\ f.card.emoji = b.emoji /\ f.card.steps = b.steps
      /\ f.card.troubles = {} => f.ok /\ f.card.fin
  BY <1>2, <1>3, FinalizeCardIs
<1> QED
  BY <1>1, <1>4, LaterIsTransitive


LEMMA SseWritesIs ==
    ASSUME NEW c, IsCard(c), NEW pieces, NEW d \in SseWrites(c, pieces)
    PROVE  Later(c, d)
  BY DEF SseWrites, Lose, Gone, IsCard, Later, NewCard, Troubles

LEMMA SseDoneIs ==
    ASSUME NEW c, IsCard(c), NEW d \in SseDone(c)
    PROVE  Later(c, d) /\ (d.troubles = {} => d.fin)
<1>1. PICK e \in SseWrites(c, <<>>) : d = IF Gone(e) THEN e ELSE [e EXCEPT !.fin = TRUE]
  BY DEF SseDone
<1>2. Later(c, e)
  BY <1>1, SseWritesIs
<1>3. Later(e, d) /\ (d.troubles = {} => d.fin)
  BY <1>1, <1>2 DEF Gone, IsCard, Later, NewCard
<1> QED
  BY <1>2, <1>3, LaterIsTransitive

LEMMA PostIs ==
    ASSUME NEW c, IsCard(c), NEW processed, NEW d, d = Post(c, processed)
    PROVE  /\ Later(c, d) /\ d.fin = c.fin /\ d.emoji = c.emoji /\ d.context = c.context
           /\ d.steps = c.steps /\ d.streamed = c.streamed /\ d.troubles = c.troubles
  BY DEF Post, IsCard, Later, NewCard

LEMMA TroubleIs ==
    ASSUME NEW c, IsCard(c), NEW T \in SUBSET Troubles, NEW d, d = [c EXCEPT !.troubles = @ \cup T]
    PROVE  /\ Later(c, d) /\ d.fin = c.fin /\ d.emoji = c.emoji /\ d.context = c.context
           /\ d.steps = c.steps /\ d.streamed = c.streamed /\ d.troubles = c.troubles \cup T
  BY DEF IsCard, Later, NewCard

-----------------------------------------------------------------------------
(* The rows of a draft.                                                    *)
LEMMA KeepLastIs ==
    ASSUME NEW S, NEW s \in Seq(S), NEW k, k = KeepLast(s)
    PROVE  /\ k \in Seq(S) /\ Len(k) <= MaxSteps
           /\ \A i \in DOMAIN k : \E j \in DOMAIN s : k[i] = s[j]
<1>0. MaxSteps \in Nat /\ MaxSteps # 0 /\ Len(s) \in Nat /\ DOMAIN s = 1 .. Len(s)
  BY DraftAssumption
<1>1. CASE Len(s) <= MaxSteps
  <2>1. k = s
    BY <1>0, <1>1 DEF KeepLast
  <2> QED
    BY <1>1, <2>1
<1>2. CASE Len(s) > MaxSteps
  <2> DEFINE m == Len(s) - MaxSteps + 1
  <2>1. m \in 1 .. Len(s) /\ Len(s) - m + 1 = MaxSteps
    BY <1>0, <1>2
  <2>2. k = SubSeq(s, m, Len(s))
    BY <1>2 DEF KeepLast
  <2> HIDE DEF m
  <2>3. k \in Seq(S) /\ Len(k) = MaxSteps /\ \A i \in 1 .. MaxSteps : k[i] = s[m + i - 1]
    BY <1>0, <2>1, <2>2, SubSeqProperties
  <2>4. DOMAIN k = 1 .. MaxSteps
    BY <2>3
  <2>5. ASSUME NEW i \in 1 .. MaxSteps PROVE m + i - 1 \in 1 .. Len(s)
    BY <1>0, <2>1
  <2> QED
    BY <1>0, <2>3, <2>4, <2>5
<1> QED
  BY <1>0, <1>1, <1>2

LEMMA WithoutIs ==
    ASSUME NEW S, NEW s \in Seq(S), NEW id, NEW w, w = Without(s, id)
    PROVE  w \in Seq(S) /\ \A i \in DOMAIN w : \E j \in DOMAIN s : w[i] = s[j]
<1> DEFINE P == {i \in DOMAIN s : s[i].id # id}
<1>1. [i \in DOMAIN s |-> IF i \in P THEN <<s[i]>> ELSE <<>>]
        = [i \in DOMAIN s |-> IF s[i].id = id THEN <<>> ELSE <<s[i]>>]
  OBVIOUS
<1>2. w = Picked(s, P)
  BY <1>1 DEF Without, Picked
<1> HIDE DEF P
<1>3. w \in Seq(S) /\ PartOf(w, s, P)
  BY <1>2, PickedAre
<1>4. DOMAIN w = 1 .. Len(w) /\ DOMAIN s = 1 .. Len(s)
  BY <1>3
<1>5. ASSUME NEW i \in 1 .. Len(w) PROVE \E j \in 1 .. Len(s) : w[i] = s[j]
  BY <1>3 DEF PartOf
<1> QED
  BY <1>3, <1>4, <1>5

(* A tool that starts adds its own row to those that run; one that ends     *)
(* leaves no row of its own that runs.                                     *)
LEMMA ToolStartedIs ==
    ASSUME NEW T, NEW R, NEW d, IsDraft(d, T), RunsIn(d, R), ~d.finished,
           NEW id \in T, NEW e, e = ToolStarted(d, id)
    PROVE  IsDraft(e, T) /\ RunsIn(e, R \cup {id}) /\ e.finished = d.finished
<1> DEFINE w == Without(d.steps, id)
           row == Row(id, "running")
           a == Append(w, row)
<1>0. DOMAIN d = DOMAIN NewDraft /\ d.steps \in Seq(RowsOf(T))
  BY DEF IsDraft
<1>1. e = [d EXCEPT !.steps = KeepLast(a)]
  BY DEF ToolStarted
<1>2. w \in Seq(RowsOf(T)) /\ \A i \in DOMAIN w : \E j \in DOMAIN d.steps : w[i] = d.steps[j]
  BY <1>0, WithoutIs
<1>3. row \in RowsOf(T) /\ row.id = id
  BY DEF Row, RowsOf
<1> HIDE DEF w, row
<1>4. /\ a \in Seq(RowsOf(T))
      /\ \A i \in DOMAIN a : a[i] = row \/ \E j \in DOMAIN w : a[i] = w[j]
  BY <1>2, <1>3
<1> HIDE DEF a
<1>5. /\ KeepLast(a) \in Seq(RowsOf(T)) /\ Len(KeepLast(a)) <= MaxSteps
      /\ \A i \in DOMAIN KeepLast(a) : \E j \in DOMAIN a : KeepLast(a)[i] = a[j]
  BY <1>4, KeepLastIs
<1>6. e.steps = KeepLast(a) /\ DOMAIN e = DOMAIN NewDraft /\ e.finished = d.finished
  BY <1>0, <1>1 DEF NewDraft
<1>7. ASSUME NEW i \in DOMAIN e.steps
      PROVE  e.steps[i].id = id \/ \E j \in DOMAIN d.steps : e.steps[i] = d.steps[j]
  <2>1. PICK n \in DOMAIN a : e.steps[i] = a[n]
    BY <1>5, <1>6
  <2>2. CASE a[n] = row
    BY <1>3, <2>1, <2>2
  <2>3. CASE \E j \in DOMAIN w : a[n] = w[j]
    BY <1>2, <2>1, <2>3
  <2> QED
    BY <1>4, <2>2, <2>3
<1>8. IsDraft(e, T)
  BY <1>5, <1>6 DEF IsDraft
<1>9. RunsIn(e, R \cup {id})
  BY <1>7 DEF RunsIn
<1> QED
  BY <1>6, <1>8, <1>9

LEMMA ToolFinishedIs ==
    ASSUME NEW T, NEW R, NEW d, IsDraft(d, T), RunsIn(d, R), ~d.finished,
           NEW id \in T, NEW ok, NEW e, e = ToolFinished(d, id, ok)
    PROVE  IsDraft(e, T) /\ RunsIn(e, R \ {id}) /\ e.finished = d.finished
<1> DEFINE done == Row(id, IF ok THEN "completed" ELSE "failed")
           known == \E i \in DOMAIN d.steps : d.steps[i].id = id
           m == [i \in DOMAIN d.steps |-> IF d.steps[i].id = id THEN done ELSE d.steps[i]]
           a == Append(d.steps, done)
<1>0. DOMAIN d = DOMAIN NewDraft /\ d.steps \in Seq(RowsOf(T)) /\ Len(d.steps) <= MaxSteps
  BY DEF IsDraft
<1>1. done \in RowsOf(T) /\ done.state # "running" /\ done.id = id
  BY DEF Row, RowsOf
<1>2. /\ known => e = [d EXCEPT !.steps = m]
      /\ ~known => e = [d EXCEPT !.steps = KeepLast(a)]
  BY DEF ToolFinished
<1> HIDE DEF done
<1>3. CASE known
  <2>1. m \in Seq(RowsOf(T)) /\ Len(m) = Len(d.steps) /\ DOMAIN m = DOMAIN d.steps
    <3>1. DOMAIN d.steps = 1 .. Len(d.steps) /\ Len(d.steps) \in Nat
      BY <1>0
    <3>2. m \in [1 .. Len(d.steps) -> RowsOf(T)]
      BY <1>0, <1>1, <3>1
    <3> QED
      BY <3>1, <3>2
  <2>2. ASSUME NEW i \in DOMAIN m
        PROVE  m[i].state # "running" \/ (m[i].id # id /\ i \in DOMAIN d.steps /\ m[i] = d.steps[i])
    <3>1. i \in DOMAIN d.steps /\ m[i] = IF d.steps[i].id = id THEN done ELSE d.steps[i]
      OBVIOUS
    <3> HIDE DEF m, known
    <3>2. CASE d.steps[i].id = id
      <4>1. m[i] = done
        BY <3>1, <3>2
      <4> QED
        BY <1>1, <4>1
    <3>3. CASE d.steps[i].id # id
      <4>1. m[i] = d.steps[i]
        BY <3>1, <3>3
      <4> QED
        BY <3>1, <3>3, <4>1
    <3> QED
      BY <3>2, <3>3
  <2> HIDE DEF m
  <2>3. e.steps = m /\ DOMAIN e = DOMAIN NewDraft /\ e.finished = d.finished
    BY <1>0, <1>2, <1>3 DEF NewDraft
  <2>4. IsDraft(e, T)
    BY <1>0, <2>1, <2>3 DEF IsDraft
  <2>5. RunsIn(e, R \ {id})
    BY <2>2, <2>3 DEF RunsIn
  <2> QED
    BY <2>3, <2>4, <2>5
<1>4. CASE ~known
  <2>1. /\ a \in Seq(RowsOf(T))
        /\ \A i \in DOMAIN a : a[i] = done \/ \E j \in DOMAIN d.steps : a[i] = d.steps[j]
    BY <1>0, <1>1
  <2> HIDE DEF a
  <2>2. /\ KeepLast(a) \in Seq(RowsOf(T)) /\ Len(KeepLast(a)) <= MaxSteps
        /\ \A i \in DOMAIN KeepLast(a) : \E j \in DOMAIN a : KeepLast(a)[i] = a[j]
    BY <2>1, KeepLastIs
  <2>3. e.steps = KeepLast(a) /\ DOMAIN e = DOMAIN NewDraft /\ e.finished = d.finished
    BY <1>0, <1>2, <1>4 DEF NewDraft
  <2>4. IsDraft(e, T)
    BY <2>2, <2>3 DEF IsDraft
  <2>5. RunsIn(e, R \ {id})
    <3>1. ASSUME NEW i \in DOMAIN e.steps, e.steps[i].state = "running" PROVE e.steps[i].id \in R \ {id}
      <4>1. PICK n \in DOMAIN a : e.steps[i] = a[n]
        BY <2>2, <2>3
      <4>2. PICK j \in DOMAIN d.steps : a[n] = d.steps[j]
        BY <1>1, <2>1, <3>1, <4>1
      <4>3. d.steps[j].id # id /\ d.steps[j].id \in R
        BY <1>4, <3>1, <4>1, <4>2 DEF RunsIn
      <4> QED
        BY <4>1, <4>2, <4>3
    <3> QED
      BY <3>1 DEF RunsIn
  <2> QED
    BY <2>3, <2>4, <2>5
<1> QED
  BY <1>3, <1>4

-----------------------------------------------------------------------------
(* What a step leaves alone.                                               *)
LEMMA PumpKept ==
    ASSUME CardInv, UNCHANGED <<mode, draft, pump>>, opened => opened', Later(card, card'),
           pump.task # "none" => stage' \in {"stream", "respond"} \/ reply'.kind = "none"
    PROVE  PumpTyped' /\ PumpHolds'
<1>1. PumpTyped'
  BY DEF CardInv, PumpTyped
<1>2. PumpHolds'
  BY DEF CardInv, PumpHolds, Later
<1> QED
  BY <1>1, <1>2

LEMMA DraftKept ==
    ASSUME CardInv, UNCHANGED <<mode, draft>>, opened => opened', running \subseteq running',
           stage' \in {"received", "open", "stream", "respond"} => draft.finished = FALSE
    PROVE  DraftSound'
  BY DEF CardInv, DraftSound, RunsIn

(* A changed draft is on its way to the card.                              *)
LEMMA ShowIs ==
    ASSUME CardInv, UNCHANGED <<mode, opened, stage, reply>>, mode = "v2", opened, stage = "stream",
           NEW d, Show(d)
    PROVE  PumpTyped' /\ PumpHolds' /\ draft' = d /\ card' = card
<1> DEFINE f == Frame(d, FALSE)
<1>1. draft' = d /\ card' = card /\ pump' = Submit(pump, f)
  BY DEF Show
<1>2. PumpTyped /\ PumpHolds /\ mode = "v2" /\ opened
  BY DEF CardInv
<1>3. CASE pump.closed
  <2>1. pump' = pump
    BY <1>1, <1>3 DEF Submit
  <2>2. pump.pending = <<>> /\ pump.frame = <<>> /\ pump.tried = <<>> /\ pump.task = "none"
    BY <1>2, <1>3 DEF PumpHolds, IdlePump
  <2> QED
    BY <1>1, <1>2, <2>1, <2>2 DEF PumpTyped, PumpHolds
<1>4. CASE ~pump.closed
  <2>1. pump' = [pump EXCEPT !.pending = <<f>>, !.wake = TRUE, !.task = IF @ = "none" THEN "waits" ELSE @]
    BY <1>1, <1>4 DEF Submit
  <2>2. DOMAIN pump = DOMAIN IdlePump
    BY <1>2 DEF PumpHolds
  <2>3. /\ DOMAIN pump' = DOMAIN IdlePump /\ pump'.pending = <<f>> /\ pump'.wake = TRUE
        /\ pump'.task = (IF pump.task = "none" THEN "waits" ELSE pump.task)
        /\ pump'.frame = pump.frame /\ pump'.closed = pump.closed /\ pump'.tried = pump.tried
    BY <2>1, <2>2 DEF IdlePump
  <2> HIDE DEF f
  <2>4. PumpTyped'
    BY <1>2, <2>3 DEF PumpTyped
  <2>5. PumpHolds'
    <3>1. f = Frame(draft', FALSE)
      BY <1>1 DEF f
    <3>2. pump'.task # "none" /\ pump'.pending # <<>> /\ ~pump'.closed
      BY <1>2, <1>4, <2>3 DEF PumpTyped
    <3>3. pump'.closed \in BOOLEAN
      BY <1>2, <2>3 DEF PumpHolds
    <3> QED
      BY <1>2, <2>3, <3>1, <3>2, <3>3 DEF PumpHolds
  <2> QED
    BY <1>1, <2>4, <2>5
<1> QED
  BY <1>2, <1>3, <1>4 DEF PumpHolds

(* The legacy card takes an operation, or has no token for it.             *)
LEMMA OnLegacyIs ==
    ASSUME IsCard(card), NEW C, OnLegacy(C), \A d \in C : Later(card, d)
    PROVE  /\ Later(card, card') /\ draft' = draft /\ pump' = pump
           /\ card' \in C \/ (card'.troubles # {} /\ card'.fin = card.fin /\ card'.steps = card.steps)
<1>1. draft' = draft /\ pump' = pump /\ card' \in C \cup {[card EXCEPT !.troubles = @ \cup {"token"}]}
  BY DEF OnLegacy, session
<1>2. CASE card' \in C
  BY <1>1, <1>2
<1>3. CASE card' = [card EXCEPT !.troubles = @ \cup {"token"}]
  <2>1. /\ Later(card, card') /\ card'.troubles = card.troubles \cup {"token"}
        /\ card'.fin = card.fin /\ card'.steps = card.steps
    BY <1>3 DEF IsCard, Later, NewCard, Troubles
  <2> QED
    BY <1>1, <2>1
<1> QED
  BY <1>1, <1>2, <1>3

LEMMA NoCardIs ==
    ASSUME IsCard(card), NoCard
    PROVE  Later(card, card') /\ UNCHANGED <<card, draft, pump>>
  BY DEF NoCard, session, Later

(* While the turn streams: what is known of a card then.                   *)
Streaming(c) == SaysDone(c) /\ (c.streamed => c.fin)

LEMMA StreamEndIs ==
    ASSUME CardInv, NEW resuming \in BOOLEAN, StreamEnd(resuming)
    PROVE  /\ Later(card, card') /\ UNCHANGED <<draft, pump>>
           /\ mode # "legacy" => card' = card
           /\ mode = "legacy" /\ opened /\ card'.troubles = {} /\ Streaming(card) =>
                 Streaming(card') /\ (~resuming => card'.streamed /\ card'.emoji = "done")
<1>0. IsCard(card)
  BY DEF CardInv
<1>1. CASE ~(opened /\ mode = "legacy")
  <2>1. NoCard
    BY <1>1 DEF StreamEnd
  <2> QED
    BY <1>0, <1>1, <2>1, NoCardIs
<1>2. CASE opened /\ mode = "legacy" /\ resuming
  <2> DEFINE C == {PauseStream(card, o) : o \in Failing({"emoji"})}
  <2>1. OnLegacy(C)
    BY <1>2 DEF StreamEnd
  <2>2. ASSUME NEW d \in C
        PROVE  Later(card, d) /\ (Streaming(card) => Streaming(d))
    <3>1. PICK o : d = PauseStream(card, o)
      OBVIOUS
    <3>2. /\ Later(card, d) /\ d.fin = card.fin /\ d.streamed = card.streamed
          /\ SaysDone(card) => SaysDone(d)
      BY <1>0, <3>1, PauseStreamIs
    <3> QED
      BY <3>2 DEF Streaming
  <2> HIDE DEF C
  <2>3. /\ Later(card, card') /\ draft' = draft /\ pump' = pump
        /\ card' \in C \/ card'.troubles # {}
    BY <1>0, <2>1, <2>2, OnLegacyIs
  <2> QED
    BY <1>2, <2>2, <2>3
<1>3. CASE opened /\ mode = "legacy" /\ ~resuming
  <2> DEFINE C == {EndStream(card, o) : o \in Outcomes}
  <2>1. OnLegacy(C)
    BY <1>3 DEF StreamEnd
  <2>2. ASSUME NEW d \in C
        PROVE  /\ Later(card, d)
               /\ Streaming(card) /\ d.troubles = {} => Streaming(d) /\ d.streamed /\ d.emoji = "done"
    <3>1. PICK o \in Outcomes : d = EndStream(card, o)
      OBVIOUS
    <3>2. /\ Later(card, d) /\ d.context = FALSE
          /\ SaysDone(card) /\ d.troubles = {} => d.emoji = "done" /\ d.streamed /\ d.fin
      BY <1>0, <3>1, EndStreamIs
    <3> QED
      BY <3>2 DEF Streaming, SaysDone
  <2> HIDE DEF C
  <2>3. /\ Later(card, card') /\ draft' = draft /\ pump' = pump
        /\ card' \in C \/ card'.troubles # {}
    BY <1>0, <2>1, <2>2, OnLegacyIs
  <2> QED
    BY <1>3, <2>2, <2>3
<1> QED
  BY <1>1, <1>2, <1>3

-----------------------------------------------------------------------------
(* The steps of the turn.                                                  *)
Ends == {"answer", "final", "notice", "error", "info", "none", "internal"}
LEMMA StreamStep ==
    ASSUME CardInv, UNCHANGED <<mode, opened>>, stage = "stream", stage' \in {"stream", "respond"},
           TurnTyped', PumpTyped', PumpHolds', DraftSound', running' # {} => stage' = "stream",
           (reply' = reply /\ stage' = "stream") \/ reply'.kind \in Ends,
           Later(card, card'), mode = "v2" => card' = card,
           mode = "legacy" /\ opened /\ card'.troubles = {} /\ Streaming(card) =>
              /\ Streaming(card')
              /\ stage' = "respond" /\ reply'.kind \in {"answer", "final"} => card'.streamed /\ card'.emoji = "done"
    PROVE  CardInv'
<1>1. IsCard(card')
  BY DEF Later
<1>2. Staged'
  BY DEF CardInv, Staged, Ends
<1>3. Finishing'
  BY DEF CardInv, Finishing, Untroubled
<1>4. EmojiTold'
  <2> SUFFICES ASSUME opened', card'.troubles = {}, mode' = "legacy" PROVE EmojiTold'
    BY DEF EmojiTold, Untroubled
  <2>1. card.troubles = {}
    BY DEF Later
  <2>2. Streaming(card)
    BY <2>1 DEF CardInv, EmojiTold, Untroubled, Streaming, SaysDone
  <2> QED
    BY <2>2 DEF EmojiTold, Streaming, SaysDone
<1> QED
  BY <1>1, <1>2, <1>3, <1>4 DEF CardInv

LEMMA BoundsAre == MaxDeltas \in [Modes -> Nat] /\ ToolRounds \in Nat /\ MaxFailures \in Nat
  BY ReplyAssumption

LEMMA DeltaKeeps ==
    ASSUME CardInv, Delta
    PROVE  CardInv'
<1>1. /\ stage = "stream" /\ deltas < MaxDeltas[mode] /\ deltas' = deltas + 1
      /\ UNCHANGED <<mode, inbound, opened, stage, rounds, running, ran, blanks, reply>>
  BY DEF Delta, TurnStreams, source
<1>2. TurnTyped'
  <2>1. MaxDeltas[mode] \in Nat
    BY BoundsAre DEF CardInv, TurnTyped
  <2> QED
    BY <1>1, <2>1 DEF CardInv, TurnTyped
<1>3. IsCard(card) /\ (opened => mode \in {"v2", "legacy", "sse"}) /\ draft.finished = FALSE
      /\ (running # {} => stage = "stream")
  BY <1>1 DEF CardInv, Staged, DraftSound
<1>4. CASE ~opened \/ mode # "v2"
  <2>1. /\ Later(card, card') /\ UNCHANGED <<draft, pump>>
        /\ mode = "v2" => card' = card
        /\ mode = "legacy" /\ opened /\ card'.troubles = {} /\ Streaming(card) => Streaming(card')
    <3>1. CASE ~opened
      <4>1. NoCard
        BY <3>1 DEF Delta
      <4> QED
        BY <1>3, <3>1, <4>1, NoCardIs
    <3>2. CASE opened /\ mode = "legacy"
      <4> DEFINE C == SendDeltas(Piece(deltas + 1))
      <4>1. OnLegacy(C)
        BY <3>2 DEF Delta
      <4>2. ASSUME NEW d \in C
            PROVE  Later(card, d) /\ (Streaming(card) => Streaming(d))
        <5>1. PICK due \in BOOLEAN, o \in Failing({"stream", "emoji"}) : d = SendDelta(card, Piece(deltas + 1), due, o)
          BY DEF SendDeltas
        <5>2. o \in Outcomes
          BY FailingAreOutcomes
        <5>3. /\ Later(card, d) /\ d.fin = card.fin /\ d.streamed = card.streamed
              /\ SaysDone(card) => SaysDone(d)
          BY <1>3, <5>1, <5>2, SendDeltaIs
        <5> QED
          BY <5>3 DEF Streaming
      <4> HIDE DEF C
      <4>3. /\ Later(card, card') /\ draft' = draft /\ pump' = pump
            /\ card' \in C \/ card'.troubles # {}
        BY <1>3, <4>1, <4>2, OnLegacyIs
      <4> QED
        BY <3>2, <4>2, <4>3
    <3>3. CASE opened /\ mode = "sse"
      <4>1. card' \in SseWrites(card, <<Piece(deltas + 1)>>) /\ UNCHANGED <<draft, pump>>
        BY <3>3 DEF Delta, session
      <4>2. Later(card, card')
        BY <1>3, <4>1, SseWritesIs
      <4> QED
        BY <3>3, <4>1, <4>2
    <3> QED
      BY <1>3, <1>4, <3>1, <3>2, <3>3
  <2>2. PumpTyped' /\ PumpHolds'
    BY <1>1, <2>1, PumpKept
  <2>3. DraftSound'
    BY <1>1, <1>3, <2>1, DraftKept
  <2> QED
    BY <1>1, <1>2, <1>3, <2>1, <2>2, <2>3, StreamStep
<1>5. CASE opened /\ mode = "v2"
  <2> DEFINE d == AppendAnswer(draft, <<Piece(deltas + 1)>>)
  <2>1. Show(d)
    BY <1>5 DEF Delta
  <2>2. DOMAIN draft = DOMAIN NewDraft
    BY DEF CardInv, DraftSound, IsDraft
  <2>3. DOMAIN d = DOMAIN draft /\ d.steps = draft.steps /\ d.finished = FALSE
    BY <1>3, <2>2 DEF AppendAnswer, NewDraft
  <2> HIDE DEF d
  <2>4. PumpTyped' /\ PumpHolds' /\ draft' = d /\ card' = card
    BY <1>1, <1>5, <2>1, ShowIs
  <2>5. DraftSound'
    BY <1>1, <2>3, <2>4 DEF CardInv, DraftSound, IsDraft, RunsIn
  <2>6. Later(card, card')
    BY <1>3, <2>4 DEF Later
  <2> QED
    BY <1>1, <1>2, <1>3, <1>5, <2>4, <2>5, <2>6, StreamStep
<1> QED
  BY <1>4, <1>5

(* A step of the turn that ends its stream, or pauses it.                  *)
LEMMA StreamEndKeeps ==
    ASSUME CardInv, UNCHANGED <<mode, opened, running>>, stage = "stream", stage' \in {"stream", "respond"},
           TurnTyped', running = {}, NEW resuming \in BOOLEAN, StreamEnd(resuming),
           stage' = "respond" => ~resuming,
           (reply' = reply /\ stage' = "stream") \/ reply'.kind \in Ends
    PROVE  CardInv'
<1>1. /\ Later(card, card') /\ UNCHANGED <<draft, pump>>
      /\ mode # "legacy" => card' = card
      /\ mode = "legacy" /\ opened /\ card'.troubles = {} /\ Streaming(card) =>
            Streaming(card') /\ (~resuming => card'.streamed /\ card'.emoji = "done")
  BY StreamEndIs
<1>2. PumpTyped' /\ PumpHolds'
  BY <1>1, PumpKept
<1>3. draft.finished = FALSE
  BY DEF CardInv, DraftSound
<1>4. DraftSound'
  BY <1>1, <1>3, DraftKept
<1> QED
  BY <1>1, <1>2, <1>4, StreamStep

LEMMA StopsAndEndsKeep ==
    ASSUME CardInv, ToolsStop \/ Blank \/ Answer \/ AnswerGoesOn
    PROVE  CardInv'
<1>1. CASE ToolsStop \/ AnswerGoesOn
  <2>1. /\ stage = "stream" /\ stage' = stage /\ running = {} /\ rounds < ToolRounds /\ rounds' = rounds + 1
        /\ UNCHANGED <<mode, inbound, opened, deltas, running, ran, blanks, reply>> /\ StreamEnd(TRUE)
    BY <1>1 DEF ToolsStop, AnswerGoesOn, TurnStreams, source
  <2>2. TurnTyped'
    BY <2>1, BoundsAre DEF CardInv, TurnTyped
  <2> QED
    BY <2>1, <2>2, StreamEndKeeps
<1>2. CASE Blank
  <2>1. /\ stage = "stream" /\ running = {} /\ blanks < 2 /\ blanks' = blanks + 1
        /\ UNCHANGED <<mode, inbound, opened, deltas, rounds, running, ran>> /\ StreamEnd(FALSE)
        /\ \/ stage' = stage /\ reply' = reply
           \/ stage' = "respond" /\ reply'.kind = "final"
    <3>1. CASE blanks = 0
      BY <1>2, <3>1 DEF Blank, TurnStreams, source
    <3>2. CASE blanks # 0
      <4>1. Respond("final", Final) /\ blanks' = blanks + 1 /\ StreamEnd(FALSE)
        BY <1>2, <3>2 DEF Blank
      <4>2. stage' = "respond" /\ reply'.kind = "final"
        BY <4>1 DEF Respond, Reply
      <4> QED
        BY <1>2, <4>1, <4>2 DEF Blank, TurnStreams, source
    <3> QED
      BY <3>1, <3>2
  <2>2. TurnTyped'
    BY <2>1 DEF CardInv, TurnTyped, Stages, Kinds
  <2>3. (reply' = reply /\ stage' = "stream") \/ reply'.kind \in Ends
    BY <2>1 DEF Ends
  <2> QED
    BY <2>1, <2>2, <2>3, StreamEndKeeps
<1>3. CASE Answer
  <2>1. /\ stage = "stream" /\ running = {} /\ stage' = "respond" /\ reply'.kind = "answer"
        /\ UNCHANGED <<mode, inbound, opened, deltas, rounds, running, ran, blanks>> /\ StreamEnd(FALSE)
    BY <1>3 DEF Answer, TurnStreams, source, Respond, Reply
  <2>2. TurnTyped'
    BY <2>1 DEF CardInv, TurnTyped, Stages, Kinds
  <2>3. (reply' = reply /\ stage' = "stream") \/ reply'.kind \in Ends
    BY <2>1 DEF Ends
  <2> QED
    BY <2>1, <2>2, <2>3, StreamEndKeeps
<1> QED
  BY <1>1, <1>2, <1>3

LEMMA OtherEndKeeps ==
    ASSUME CardInv, OtherEnd
    PROVE  CardInv'
<1>1. /\ stage = "stream" /\ running = {} /\ stage' = "respond"
      /\ reply'.kind \in {"error", "notice", "info", "none", "internal"}
      /\ UNCHANGED <<mode, inbound, opened, deltas, rounds, running, ran, blanks, draft, pump, card>>
  BY DEF OtherEnd, TurnStreams, source, session, Respond, Reply
<1>2. TurnTyped'
  BY <1>1 DEF CardInv, TurnTyped, Stages, Kinds
<1>3. IsCard(card) /\ draft.finished = FALSE
  BY <1>1 DEF CardInv, DraftSound
<1>4. Later(card, card')
  BY <1>1, <1>3 DEF Later
<1>5. PumpTyped' /\ PumpHolds'
  BY <1>1, <1>4, PumpKept
<1>6. DraftSound'
  BY <1>1, <1>3, DraftKept
<1>7. reply'.kind \in Ends
  BY <1>1 DEF Ends
<1> QED
  BY <1>1, <1>2, <1>4, <1>5, <1>6, <1>7, StreamStep

(* What the start and the end of a tool make of the card and of the draft.  *)
LEMMA TriggerStreams ==
    ASSUME NEW c, IsCard(c), NEW name, NEW o, NEW d, d = TriggerEmotion(c, name, o)
    PROVE  Later(c, d) /\ (Streaming(c) => Streaming(d))
<1>1. /\ Later(c, d) /\ d.fin = c.fin /\ d.streamed = c.streamed /\ d.context = c.context
      /\ ~c.context => d = c
  BY TriggerEmotionIs
<1> QED
  BY <1>1 DEF Streaming, SaysDone

LEMMA ToolStartKeeps ==
    ASSUME CardInv, NEW t \in Tools[mode], ToolStart(t)
    PROVE  CardInv'
<1>1. /\ stage = "stream" /\ t \notin ran /\ running' = running \cup {t} /\ ran' = ran \cup {t}
      /\ UNCHANGED <<mode, inbound, opened, stage, deltas, rounds, blanks, reply>>
  BY DEF ToolStart, TurnStreams, source
<1>2. TurnTyped'
  BY <1>1 DEF CardInv, TurnTyped
<1>3. IsCard(card) /\ (opened => mode \in {"v2", "legacy", "sse"}) /\ draft.finished = FALSE
  BY <1>1 DEF CardInv, Staged, DraftSound
<1>4. CASE ~opened \/ mode # "v2"
  <2>1. /\ Later(card, card') /\ UNCHANGED <<draft, pump>>
        /\ mode = "v2" => card' = card
        /\ mode = "legacy" /\ opened /\ card'.troubles = {} /\ Streaming(card) => Streaming(card')
    <3>1. CASE ~opened
      <4>1. NoCard
        BY <3>1 DEF ToolStart
      <4> QED
        BY <1>3, <3>1, <4>1, NoCardIs
    <3>2. CASE opened /\ mode = "legacy"
      <4> DEFINE C == {ToolProgress(card, o) : o \in Failing({"emoji"})}
      <4>1. OnLegacy(C)
        BY <3>2 DEF ToolStart
      <4>2. ASSUME NEW d \in C
            PROVE  Later(card, d) /\ (Streaming(card) => Streaming(d))
        <5>1. PICK o \in Failing({"emoji"}) : d = TriggerEmotion(card, "tool name", o)
          BY DEF ToolProgress
        <5> QED
          BY <1>3, <5>1, TriggerStreams
      <4> HIDE DEF C
      <4>3. /\ Later(card, card') /\ draft' = draft /\ pump' = pump
            /\ card' \in C \/ card'.troubles # {}
        BY <1>3, <4>1, <4>2, OnLegacyIs
      <4> QED
        BY <3>2, <4>2, <4>3
    <3>3. CASE opened /\ mode = "sse"
      <4>1. card' \in SseWrites(card, <<>>) /\ UNCHANGED <<draft, pump>>
        BY <3>3 DEF ToolStart, session
      <4>2. Later(card, card')
        BY <1>3, <4>1, SseWritesIs
      <4> QED
        BY <3>3, <4>1, <4>2
    <3> QED
      BY <1>3, <1>4, <3>1, <3>2, <3>3
  <2>2. PumpTyped' /\ PumpHolds'
    BY <1>1, <2>1, PumpKept
  <2>3. DraftSound'
    BY <1>1, <1>3, <2>1, DraftKept
  <2> QED
    BY <1>1, <1>2, <2>1, <2>2, <2>3, StreamStep
<1>5. CASE opened /\ mode = "v2"
  <2> DEFINE d == ToolStarted(draft, t)
  <2>1. Show(d)
    BY <1>5 DEF ToolStart
  <2>2. IsDraft(draft, Tools[mode]) /\ RunsIn(draft, running) /\ ~draft.finished
    BY <1>3 DEF CardInv, DraftSound
  <2>3. IsDraft(d, Tools[mode]) /\ RunsIn(d, running \cup {t}) /\ d.finished = FALSE
    BY <1>3, <2>2, ToolStartedIs
  <2> HIDE DEF d
  <2>4. PumpTyped' /\ PumpHolds' /\ draft' = d /\ card' = card
    BY <1>1, <1>5, <2>1, ShowIs
  <2>6. DraftSound'
    BY <1>1, <1>3, <1>5, <2>3, <2>4 DEF DraftSound
  <2>7. Later(card, card')
    BY <1>3, <2>4 DEF Later
  <2> QED
    BY <1>1, <1>2, <1>5, <2>4, <2>6, <2>7, StreamStep
<1> QED
  BY <1>4, <1>5

LEMMA ToolEndKeeps ==
    ASSUME CardInv, NEW t \in Tools[mode], NEW ok \in BOOLEAN, ToolEnd(t, ok)
    PROVE  CardInv'
<1>1. /\ t \in running /\ running' = running \ {t}
      /\ UNCHANGED <<mode, inbound, opened, stage, deltas, rounds, ran, blanks, reply>>
  BY DEF ToolEnd, source
<1>2. TurnTyped'
  BY <1>1 DEF CardInv, TurnTyped
<1>3. IsCard(card) /\ stage = "stream" /\ draft.finished = FALSE
  BY <1>1 DEF CardInv, Staged, DraftSound
<1>4. CASE ~(opened /\ mode = "v2")
  <2>1. NoCard
    BY <1>4 DEF ToolEnd
  <2>2. Later(card, card') /\ UNCHANGED <<card, draft, pump>>
    BY <1>3, <2>1, NoCardIs
  <2>3. PumpTyped' /\ PumpHolds'
    BY <1>1, <1>3, <2>2, PumpKept
  <2>4. DraftSound'
    <3>1. draft.steps = <<>>
      BY <1>4 DEF CardInv, DraftSound
    <3> QED
      BY <1>1, <2>2, <3>1 DEF CardInv, DraftSound, RunsIn
  <2> QED
    BY <1>1, <1>2, <1>3, <2>2, <2>3, <2>4, StreamStep
<1>5. CASE opened /\ mode = "v2"
  <2> DEFINE d == ToolFinished(draft, t, ok)
  <2>1. Show(d)
    BY <1>5 DEF ToolEnd
  <2>2. IsDraft(draft, Tools[mode]) /\ RunsIn(draft, running) /\ ~draft.finished
    BY <1>3 DEF CardInv, DraftSound
  <2>3. IsDraft(d, Tools[mode]) /\ RunsIn(d, running \ {t}) /\ d.finished = FALSE
    BY <1>3, <2>2, ToolFinishedIs
  <2> HIDE DEF d
  <2>4. PumpTyped' /\ PumpHolds' /\ draft' = d /\ card' = card
    BY <1>1, <1>3, <1>5, <2>1, ShowIs
  <2>6. DraftSound'
    BY <1>1, <1>3, <1>5, <2>3, <2>4 DEF DraftSound
  <2>7. Later(card, card')
    BY <1>3, <2>4 DEF Later
  <2> QED
    BY <1>1, <1>2, <1>3, <1>5, <2>4, <2>6, <2>7, StreamStep
<1> QED
  BY <1>4, <1>5

-----------------------------------------------------------------------------
(* Before the turn: the message is read, the card is opened.               *)
LEMMA EarlyStep ==
    ASSUME CardInv, UNCHANGED <<mode, deltas, rounds, running, ran, blanks, reply, draft, pump>>,
           stage \in {"received", "open"}, stage' \in {"ignored", "open", "stream"},
           TurnTyped', IsCard(card'), card.troubles \subseteq card'.troubles,
           opened' => mode \in {"v2", "legacy", "sse"} /\ stage' # "open",
           stage' = "open" => mode \in {"v2", "legacy"} /\ ~card'.streamed /\ card'.context = (mode = "legacy"),
           mode = "v2" => ~card'.fin,
           opened' /\ mode = "legacy" => card'.context /\ ~card'.streamed
    PROVE  CardInv'
<1>1. ~opened /\ Later(card, card') /\ draft.finished = FALSE /\ running = {}
  BY DEF CardInv, Staged, Later, DraftSound
<1>2. pump.task = "none"
  BY <1>1 DEF CardInv, PumpHolds
<1>3. PumpTyped' /\ PumpHolds'
  BY <1>1, <1>2, PumpKept
<1>4. DraftSound'
  BY <1>1, DraftKept
<1>5. Staged'
  BY <1>1 DEF CardInv, Staged
<1>6. Finishing'
  BY DEF Finishing, Untroubled
<1>7. EmojiTold'
  BY DEF EmojiTold, Untroubled
<1> QED
  BY <1>3, <1>4, <1>5, <1>6, <1>7 DEF CardInv

LEMMA ReceivedKeeps ==
    ASSUME CardInv, Receive \/ ReceiveHttp \/ ReadLine
    PROVE  CardInv'
<1>1. /\ stage = "received" /\ inbound' = NoMessage
      /\ UNCHANGED <<mode, said, deltas, rounds, running, ran, blanks, reply, draft, pump>>
  BY DEF Receive, ReceiveHttp, ReadLine, turn, session
<1>2. IsCard(card) /\ card.troubles = {} /\ ~opened
  BY <1>1 DEF CardInv, Staged
<1>3. CASE Receive
  <2>1. /\ mode \in {"v2", "legacy"} /\ opened' = opened
        /\ \/ stage' = "ignored" /\ card' = card
           \/ stage' = "open" /\ card' = Thinking
    BY <1>3 DEF Receive, OnDingTalk
  <2>2. TurnTyped'
    BY <1>1, <2>1 DEF CardInv, TurnTyped, Stages
  <2>3. IsCard(Thinking) /\ Thinking.troubles = {} /\ ~Thinking.fin /\ ~Thinking.streamed
        /\ Thinking.context = (mode = "legacy")
    BY DEF Thinking, IsCard, NewCard
  <2>4. mode = "v2" => ~card.fin
    BY <1>1 DEF CardInv, Finishing
  <2> QED
    BY <1>1, <1>2, <2>1, <2>2, <2>3, <2>4, EarlyStep
<1>4. CASE ReceiveHttp
  <2>1. /\ mode \in {"sse", "json"} /\ stage' \in {"ignored", "stream"}
        /\ \/ opened' = opened /\ card' = card
           \/ mode = "sse" /\ opened' = TRUE /\ card' \in SseWrites(card, <<>>)
    BY <1>4, Zenon DEF ReceiveHttp
  <2>2. Later(card, card')
    BY <1>2, <2>1, SseWritesIs DEF Later
  <2>3. TurnTyped'
    BY <1>1, <2>1 DEF CardInv, TurnTyped, Stages
  <2> QED
    BY <1>1, <1>2, <2>1, <2>2, <2>3, EarlyStep DEF Later
<1>5. CASE ReadLine
  <2>1. mode = "cli" /\ stage' = "stream" /\ opened' = opened /\ card' = card
    BY <1>5 DEF ReadLine
  <2>2. TurnTyped'
    BY <1>1, <2>1 DEF CardInv, TurnTyped, Stages
  <2> QED
    BY <1>1, <1>2, <2>1, <2>2, EarlyStep
<1> QED
  BY <1>3, <1>4, <1>5

LEMMA OpenCardKeeps ==
    ASSUME CardInv, OpenCard
    PROVE  CardInv'
<1>1. /\ stage = "open" /\ stage' = "stream"
      /\ UNCHANGED <<mode, inbound, said, deltas, rounds, running, ran, blanks, reply, draft, pump>>
  BY DEF OpenCard, source, turn, session
<1>2. /\ IsCard(card) /\ ~opened /\ mode \in {"v2", "legacy"} /\ ~card.streamed
      /\ card.context = (mode = "legacy") /\ (mode = "v2" => ~card.fin)
  BY <1>1 DEF CardInv, Staged, Finishing
<1>3. PICK create \in Results, deliver \in Results, start \in Results :
        LET created == CreateCard(create, deliver)
        IN IF mode = "legacy" THEN OpenLegacy(created, start) ELSE OpenV2(created)
  BY Zenon DEF OpenCard
<1> DEFINE created == CreateCard(create, deliver)
           more == card.troubles \cup {"unopened"} \cup (IF created.there THEN {"orphan"} ELSE {})
<1>4. opened' \in BOOLEAN
  <2>1. created.ok \in BOOLEAN
    BY DEF CreateCard
  <2> HIDE DEF created
  <2> QED
    BY <1>3, <2>1 DEF OpenLegacy, OpenV2, created
<1>5. /\ IsCard(card') /\ card.troubles \subseteq card'.troubles
      /\ card'.fin = card.fin /\ card'.streamed = card.streamed /\ card'.context = card.context
  <2>1. more \subseteq Troubles /\ card.troubles \subseteq more
    BY <1>2 DEF IsCard, Troubles
  <2>2. CASE mode = "legacy"
    <3>1. card' = [card EXCEPT !.shown = IF opened' THEN <<Greeting>> ELSE <<>>, !.troubles = IF opened' THEN @ ELSE more]
      BY <1>3, <2>2 DEF OpenLegacy, Unopened
    <3> HIDE DEF more
    <3> QED
      BY <1>2, <2>1, <3>1 DEF IsCard, NewCard
  <2>3. CASE mode # "legacy"
    <3>1. card' = [card EXCEPT !.troubles = IF opened' THEN @ ELSE more]
      BY <1>3, <2>3 DEF OpenV2, Unopened
    <3> HIDE DEF more
    <3> QED
      BY <1>2, <2>1, <3>1 DEF IsCard, NewCard
  <2> QED
    BY <2>2, <2>3
<1>6. TurnTyped'
  BY <1>1, <1>4 DEF CardInv, TurnTyped, Stages
<1> QED
  BY <1>1, <1>2, <1>4, <1>5, <1>6, EarlyStep

-----------------------------------------------------------------------------
(* After the turn: the response is delivered.                              *)
LateStages == {"commit", "media", "fallback", "spoilt", "over"}
LEMMA LateStep ==
    ASSUME CardInv, UNCHANGED <<mode, opened, draft, pump>>, stage \notin {"received", "open", "stream"},
           stage # "respond" \/ mode # "v2" \/ ~opened,
           stage' \in LateStages, TurnTyped', running' = {}, reply'.kind = reply.kind, reply.kind # "none",
           Later(card, card'),
           stage' = "commit" => mode = "v2" /\ opened,
           stage' = "media" => reply.kind \in {"answer", "final", "notice"},
           opened /\ card'.troubles = {} /\ stage' \in {"media", "over"} => card'.fin,
           opened /\ card'.troubles = {} /\ stage' = "fallback" => mode = "legacy",
           mode = "v2" /\ card'.fin => stage' # "commit" /\ opened /\ Quiet(card'.steps),
           mode = "legacy" /\ opened /\ card'.troubles = {} =>
              /\ Streaming(card')
              /\ stage' \in {"media", "over"} /\ reply.kind \in {"answer", "final", "notice"} => card'.emoji = "done"
    PROVE  CardInv'
<1>1. running = {} /\ pump.task = "none"
  BY DEF CardInv, Staged, PumpHolds
<1>2. PumpTyped' /\ PumpHolds'
  BY <1>1, PumpKept
<1>3. DraftSound'
  BY <1>1, DraftKept DEF LateStages
<1>4. Staged'
  BY DEF CardInv, Staged, LateStages
<1>5. Finishing'
  BY DEF Finishing, Untroubled, LateStages
<1>6. EmojiTold'
  BY DEF EmojiTold, Untroubled, LateStages, Streaming, SaysDone
<1> QED
  BY <1>2, <1>3, <1>4, <1>5, <1>6 DEF CardInv, Later

(* What a legacy card makes of the response.                               *)
LEMMA DeliverLegacyIs ==
    ASSUME CardInv, stage = "respond", opened, mode = "legacy", reply.kind # "none",
           NEW o \in Outcomes, NEW f, f = DeliverLegacy(o)
    PROVE  /\ Later(card, f.card)
           /\ f.card.troubles = {} =>
                 /\ Streaming(f.card)
                 /\ f.ok => /\ f.card.fin
                            /\ reply.kind \in {"answer", "final", "notice"} => f.card.emoji = "done"
                 /\ ~f.ok => reply.kind # "internal"
<1>1. /\ IsCard(card) /\ reply.kind \in Ends
      /\ card.troubles = {} =>
            /\ Streaming(card)
            /\ reply.kind \in {"answer", "final"} => card.streamed /\ card.emoji = "done"
  BY DEF CardInv, Staged, TurnTyped, Kinds, Ends, EmojiTold, Untroubled, Streaming, SaysDone
<1>2. CASE reply.kind \in {"error", "internal"}
  <2>1. f = Fail(card, reply.text, o)
    BY <1>2 DEF DeliverLegacy, Fails
  <2>2. /\ Later(card, f.card) /\ f.card.context = card.context /\ f.card.emoji = card.emoji
        /\ f.card.troubles = {} => f.ok /\ f.card.fin
    BY <1>1, <2>1, FailIs
  <2> QED
    BY <1>1, <1>2, <2>2 DEF Later, Streaming, SaysDone
<1>3. CASE reply.kind \notin {"error", "internal"} /\ ~HandledByStreaming(card)
  <2>1. f.card = card /\ f.ok = FALSE
    BY <1>3 DEF DeliverLegacy, Fails
  <2> QED
    BY <1>1, <1>3, <2>1 DEF Later
<1>4. CASE reply.kind \notin {"error", "internal"} /\ HandledByStreaming(card)
  <2>1. f = Finish(card, Appends, reply.text, o)
    BY <1>4 DEF DeliverLegacy, Fails
  <2>2. CASE Appends
    <3> DEFINE d == FinalizeWithNotification(card, reply.text, o)
    <3>1. f.card = d /\ f.ok = TRUE
      BY <1>4, <2>1, <2>2 DEF Finish
    <3>2. /\ Later(card, d)
          /\ SaysDone(card) /\ d.troubles = {} => d.fin /\ d.emoji = "done"
      BY <1>1, FinalizeWithNotificationIs
    <3> HIDE DEF d
    <3>3. d.troubles = {} => card.troubles = {}
      BY <3>2 DEF Later
    <3> QED
      BY <1>1, <3>1, <3>2, <3>3 DEF Streaming, SaysDone
  <2>3. CASE ~Appends
    <3>1. f.card = card /\ f.ok = TRUE
      BY <1>4, <2>1, <2>3 DEF Finish
    <3>2. reply.kind \in {"answer", "final"}
      BY <1>1, <1>4, <2>3 DEF Appends, Ends
    <3> QED
      BY <1>1, <3>1, <3>2 DEF Later, Streaming
  <2> QED
    BY <2>2, <2>3
<1> QED
  BY <1>2, <1>3, <1>4

LEMMA TurnGoneIs ==
    ASSUME CardInv, TurnGone
    PROVE  /\ reply'.kind = reply.kind /\ deltas' = 0 /\ rounds' = 0 /\ running' = {} /\ ran' = {} /\ blanks' = 0
           /\ deltas' \in 0 .. MaxDeltas[mode] /\ rounds' \in 0 .. ToolRounds
<1>1. reply'.kind = reply.kind
  <2>1. PICK p : reply' = Reply(reply.kind, reply.text, p)
    BY Zenon DEF TurnGone
  <2> QED
    BY <2>1 DEF Reply
<1>2. deltas' = 0 /\ rounds' = 0 /\ running' = {} /\ ran' = {} /\ blanks' = 0
  BY Zenon DEF TurnGone
<1>3. MaxDeltas[mode] \in Nat /\ ToolRounds \in Nat
  BY BoundsAre DEF CardInv, TurnTyped
<1> QED
  BY <1>1, <1>2, <1>3

LEMMA DeliverKeeps ==
    ASSUME CardInv, Deliver
    PROVE  CardInv'
<1>1. /\ stage = "respond" /\ mode \in {"v2", "legacy"} /\ TurnGone /\ UNCHANGED <<mode, inbound, opened>>
  BY Zenon DEF Deliver, OnDingTalk, source
<1>2. /\ reply'.kind = reply.kind /\ deltas' = 0 /\ rounds' = 0 /\ running' = {} /\ ran' = {} /\ blanks' = 0
      /\ deltas' \in 0 .. MaxDeltas[mode] /\ rounds' \in 0 .. ToolRounds
  BY <1>1, TurnGoneIs
<1>3. IsCard(card) /\ running = {} /\ reply.kind \in Ends
  BY <1>1 DEF CardInv, Staged, TurnTyped, Kinds, Ends
<1>4. ASSUME stage' \in LateStages \cup {"typing"} PROVE TurnTyped'
  BY <1>1, <1>2, <1>4 DEF CardInv, TurnTyped, Stages, LateStages
<1>5. CASE reply.kind = "none"
  <2>1. stage' = "over" /\ NoCard
    BY <1>5, Zenon DEF Deliver
  <2>2. Later(card, card') /\ UNCHANGED <<card, draft, pump>>
    BY <1>3, <2>1, NoCardIs
  <2>3. PumpTyped' /\ PumpHolds'
    BY <1>1, <1>2, <1>5, <2>2, PumpKept
  <2>4. DraftSound'
    BY <1>1, <1>2, <1>3, <2>1, <2>2, DraftKept
  <2>5. Staged'
    BY <1>1, <1>2, <1>5, <2>1 DEF CardInv, Staged
  <2>6. Finishing'
    BY <1>1, <1>2, <1>5, <2>1, <2>2 DEF CardInv, Finishing, Untroubled
  <2>7. EmojiTold'
    BY <1>1, <1>2, <1>5, <2>1, <2>2 DEF CardInv, EmojiTold, Untroubled
  <2>8. TurnTyped' /\ IsCard(card')
    BY <1>4, <2>1, <2>2 DEF Later, LateStages
  <2> QED
    BY <2>3, <2>4, <2>5, <2>6, <2>7, <2>8 DEF CardInv
<1>6. CASE reply.kind # "none" /\ ~opened
  <2>1. stage' = Undelivered /\ NoCard
    BY <1>6, Zenon DEF Deliver
  <2>2. Later(card, card') /\ UNCHANGED <<card, draft, pump>>
    BY <1>3, <2>1, NoCardIs
  <2>3. stage' \in {"over", "fallback"}
    BY <2>1 DEF Undelivered
  <2>4. stage' \in LateStages /\ TurnTyped'
    BY <1>4, <2>3 DEF LateStages
  <2>5. mode = "v2" => ~card'.fin
    BY <1>1, <2>2 DEF CardInv, Finishing
  <2> QED
    BY <1>1, <1>2, <1>6, <2>2, <2>3, <2>4, <2>5, LateStep
<1>7. CASE reply.kind # "none" /\ opened /\ mode = "legacy"
  <2>1. PICK o \in Outcomes : SettleCard(DeliverLegacy(o))
    BY <1>7, Zenon DEF Deliver
  <2>2. UNCHANGED <<draft, pump>>
    BY <1>7, Zenon DEF Deliver, session
  <2> DEFINE f == DeliverLegacy(o)
  <2>3. card' = f.card /\ stage' = IF f.ok THEN Delivered ELSE Undelivered
    BY <2>1 DEF SettleCard
  <2>4. /\ Later(card, f.card)
        /\ f.card.troubles = {} =>
              /\ Streaming(f.card)
              /\ f.ok => /\ f.card.fin
                         /\ reply.kind \in {"answer", "final", "notice"} => f.card.emoji = "done"
              /\ ~f.ok => reply.kind # "internal"
    BY <1>1, <1>7, DeliverLegacyIs
  <2> HIDE DEF f
  <2>5. /\ stage' \in {"media", "fallback", "over"}
        /\ stage' = "media" => reply.kind \in {"answer", "final", "notice"}
        /\ stage' = "over" /\ ~f.ok => reply.kind = "internal"
        /\ stage' = "media" => f.ok
    BY <2>3 DEF Delivered, Undelivered
  <2>6. stage' \in LateStages /\ TurnTyped'
    BY <1>4, <2>5 DEF LateStages
  <2> QED
    BY <1>1, <1>2, <1>7, <2>2, <2>3, <2>4, <2>5, <2>6, LateStep
<1>8. CASE reply.kind # "none" /\ opened /\ mode = "v2"
  <2>0. Drain
    BY <1>8, Zenon DEF Deliver
  <2>1. /\ draft' = FinalDraft /\ pump' = [IdlePump EXCEPT !.closed = TRUE] /\ stage' = "typing"
        /\ card' = card \/ card' = [card EXCEPT !.steps = pump.frame[1].steps]
    BY <2>0 DEF Drain, CancelledReaches
  <2>2. IsDraft(draft, Tools[mode]) /\ RunsIn(draft, running) /\ ~(mode # "v2") /\ ~draft.finished
    BY <1>1, <1>8 DEF CardInv, DraftSound
  <2>3. IsDraft(draft', Tools[mode]) /\ RunsIn(draft', running)
    <3>1. /\ DOMAIN draft = {"steps", "answer", "finished", "failed"}
      BY <2>2 DEF IsDraft, NewDraft
    <3>2. DOMAIN draft' = DOMAIN draft /\ draft'.steps = draft.steps
      BY <2>1, <2>2, <3>1 DEF FinalDraft, Finalize, AppendAnswer, SetAnswer
    <3> QED
      BY <2>2, <3>2 DEF IsDraft, RunsIn
  <2>4. DraftSound'
    BY <1>1, <1>2, <1>3, <1>8, <2>1, <2>3 DEF DraftSound
  <2>5. /\ IsCard(card') /\ card'.fin = card.fin /\ card'.troubles = card.troubles
    BY <1>3, <2>1 DEF IsCard, NewCard
  <2>6. /\ DOMAIN pump' = DOMAIN IdlePump /\ pump'.closed = TRUE /\ pump'.wake = FALSE /\ pump'.task = "none"
        /\ pump'.pending = <<>> /\ pump'.frame = <<>> /\ pump'.tried = <<>>
    BY <2>1 DEF IdlePump
  <2>7. PumpTyped'
    BY <2>6 DEF PumpTyped
  <2>8. PumpHolds'
    BY <2>1, <2>6 DEF PumpHolds
  <2>9. Staged'
    BY <1>1, <1>2, <1>8, <2>1 DEF CardInv, Staged
  <2>10. Finishing'
    BY <1>1, <1>2, <1>8, <2>1, <2>5 DEF CardInv, Finishing
  <2>11. EmojiTold'
    BY <1>1, <1>8 DEF EmojiTold
  <2>12. TurnTyped'
    BY <1>4, <2>1
  <2> QED
    BY <2>4, <2>5, <2>7, <2>8, <2>9, <2>10, <2>11, <2>12 DEF CardInv
<1> QED
  BY <1>1, <1>5, <1>6, <1>7, <1>8

(* A delivery that posts what comes beside the text, or not.               *)
LEMMA OnTheWay ==
    ASSUME CardInv, UNCHANGED <<mode, inbound, opened, turn, draft, pump>>, stage' \in LateStages
    PROVE  TurnTyped' /\ (stage # "stream" => running' = {}) /\ reply' = reply
<1>1. UNCHANGED <<said, deltas, rounds, running, ran, blanks, reply>>
  BY DEF turn
<1> QED
  BY <1>1 DEF CardInv, TurnTyped, Staged, Stages, LateStages

LEMMA CloseStreamKeeps ==
    ASSUME CardInv, CloseStream
    PROVE  CardInv'
<1>1. /\ stage = "respond" /\ mode = "sse" /\ stage' = "over"
      /\ UNCHANGED <<mode, inbound, opened, turn, draft, pump>>
  BY DEF CloseStream, source, session
<1>2. IsCard(card)
  BY DEF CardInv
<1>3. Later(card, card') /\ (card'.troubles = {} => card'.fin)
  <2>1. CASE reply.kind # "internal"
    <3>1. card' \in SseDone(card)
      BY <2>1, Zenon DEF CloseStream
    <3> QED
      BY <1>2, <3>1, SseDoneIs
  <2>2. CASE reply.kind = "internal"
    <3>1. card' \in UNION {SseDone(c) : c \in SseWrites(card, Internal)}
      BY <2>2, Zenon DEF CloseStream
    <3>2. PICK c \in SseWrites(card, Internal) : card' \in SseDone(c)
      BY <3>1, Zenon
    <3>3. Later(card, c)
      BY <1>2, <3>2, SseWritesIs
    <3>4. Later(c, card') /\ (card'.troubles = {} => card'.fin)
      BY <3>2, <3>3, SseDoneIs DEF Later
    <3> QED
      BY <3>3, <3>4, LaterIsTransitive
  <2> QED
    BY <2>1, <2>2
<1>4. stage' \in LateStages /\ TurnTyped' /\ running' = {} /\ reply' = reply
  BY <1>1, OnTheWay DEF LateStages
<1>5. PumpTyped' /\ PumpHolds'
  <2>1. pump.task = "none"
    BY <1>1 DEF CardInv, PumpHolds
  <2> QED
    BY <1>1, <1>3, <2>1, PumpKept
<1>6. DraftSound'
  <2>1. running = {}
    BY <1>1 DEF CardInv, Staged
  <2> QED
    BY <1>1, <1>4, <2>1, DraftKept
<1>7. Staged'
  BY <1>1, <1>4 DEF CardInv, Staged
<1>8. Finishing' /\ EmojiTold'
  BY <1>1, <1>3 DEF Finishing, EmojiTold, Untroubled
<1> QED
  BY <1>3, <1>4, <1>5, <1>6, <1>7, <1>8 DEF CardInv, Later

(* Nothing is known of the card of a reply that has none.                  *)
LEMMA NoCardStep ==
    ASSUME CardInv, UNCHANGED <<mode, inbound, opened, turn, draft, pump>>, stage = "respond",
           mode \in {"json", "cli", "push"}, Later(card, card'),
           stage' = "over" \/ (stage' = "fallback" /\ reply.kind # "none")
    PROVE  CardInv'
<1>1. ~opened /\ running = {} /\ pump.task = "none"
  BY DEF CardInv, Staged, PumpHolds
<1>2. stage' \in LateStages /\ TurnTyped' /\ running' = {} /\ reply' = reply
  BY OnTheWay DEF LateStages
<1>3. PumpTyped' /\ PumpHolds'
  BY <1>1, PumpKept
<1>4. DraftSound'
  BY <1>1, <1>2, DraftKept
<1>5. Staged'
  BY <1>1, <1>2 DEF CardInv, Staged
<1>6. Finishing' /\ EmojiTold'
  BY <1>1 DEF Finishing, EmojiTold, Untroubled
<1> QED
  BY <1>2, <1>3, <1>4, <1>5, <1>6 DEF CardInv, Later

LEMMA ReturnReplyKeeps ==
    ASSUME CardInv, ReturnReply
    PROVE  CardInv'
<1>1. /\ stage = "respond" /\ mode \in {"json", "cli"} /\ stage' = "over"
      /\ UNCHANGED <<mode, inbound, opened, turn, draft, pump>>
  BY DEF ReturnReply, source, session
<1>2. IsCard(card)
  BY DEF CardInv
<1>3. \/ card' = card
      \/ card' = [card EXCEPT !.shown = reply.text]
      \/ card' = [card EXCEPT !.shown = reply.text, !.fin = TRUE]
      \/ card' = Lose(card)
  <2>1. CASE mode = "cli"
    <3>1. card' \in {IF reply.kind = "internal" THEN card ELSE [card EXCEPT !.shown = reply.text]}
      BY <2>1, Zenon DEF ReturnReply
    <3> QED
      BY <3>1
  <2>2. CASE mode # "cli"
    <3>1. card' \in {[card EXCEPT !.shown = reply.text, !.fin = TRUE], Lose(card)}
      BY <2>2, Zenon DEF ReturnReply
    <3> QED
      BY <3>1
  <2> QED
    BY <2>1, <2>2
<1>4. Later(card, card')
  <2>1. CASE card' = card \/ card' = Lose(card)
    BY <1>2, <2>1 DEF Lose, IsCard, Later, NewCard, Troubles
  <2>2. CASE card' = [card EXCEPT !.shown = reply.text]
    BY <1>2, <2>2 DEF IsCard, Later, NewCard
  <2>3. CASE card' = [card EXCEPT !.shown = reply.text, !.fin = TRUE]
    BY <1>2, <2>3 DEF IsCard, Later, NewCard
  <2> QED
    BY <1>3, <2>1, <2>2, <2>3
<1> QED
  BY <1>1, <1>4, NoCardStep

LEMMA PushReplyKeeps ==
    ASSUME CardInv, PushReply
    PROVE  CardInv'
<1>1. /\ stage = "respond" /\ mode = "push" /\ UNCHANGED <<mode, inbound, opened, turn, draft, pump>>
  BY DEF PushReply, source, session
<1>2. IsCard(card) /\ reply.kind = "pushed"
  BY <1>1 DEF CardInv, Staged
<1>3. CASE stage' = "fallback" /\ card' = [card EXCEPT !.troubles = @ \cup {"unopened"}]
  <2>1. Later(card, card')
    BY <1>2, <1>3 DEF IsCard, Later, NewCard, Troubles
  <2> QED
    BY <1>1, <1>2, <1>3, <2>1, NoCardStep
<1>4. CASE \E o \in Outcomes : SettleCard(SendViaCard(o))
  <2>1. PICK o \in Outcomes : SettleCard(SendViaCard(o))
    BY <1>4
  <2> DEFINE f == SendViaCard(o)
             rendered == StreamContent(card, reply.text, o.stream)
             finished == FinishStreaming(rendered, o.finish)
  <2>2. card' = f.card /\ stage' = IF f.ok THEN Delivered ELSE Undelivered
    BY <2>1 DEF SettleCard
  <2>3. o.stream \in Results /\ o.finish \in Results
    BY OutcomeParts
  <2>4. Later(card, rendered)
    BY <1>2, <2>3, StreamContentIs
  <2>5. Later(rendered, finished)
    BY <2>3, <2>4, FinishCardStatusIs DEF FinishStreaming, Later
  <2>6. Later(finished, PostFiles(finished))
    BY <2>5, PostIs DEF PostFiles, Later
  <2>7. f.card \in {rendered, finished, PostFiles(finished)}
    BY DEF SendViaCard
  <2> HIDE DEF f, rendered, finished
  <2>8. Later(card, finished) /\ Later(card, PostFiles(finished))
    BY <2>4, <2>5, <2>6, LaterIsTransitive
  <2>9. Later(card, card')
    BY <2>2, <2>4, <2>7, <2>8
  <2>10. stage' = "over" \/ stage' = "fallback"
    BY <1>2, <2>2 DEF Delivered, Undelivered
  <2> QED
    BY <1>1, <1>2, <2>9, <2>10, NoCardStep
<1> QED
  BY <1>3, <1>4 DEF PushReply

(* A text that goes out as markdown, with what comes beside it.            *)
LEMMA SendFallbackKeeps ==
    ASSUME CardInv, SendFallback
    PROVE  CardInv'
<1> DEFINE onCard == opened /\ mode = "legacy"
           processed == ProcessMarkers(reply.items)
           C == {Post(SendText(card, onCard, reply.text, o), processed) : o \in Outcomes}
<1>1. /\ stage = "fallback" /\ UNCHANGED <<mode, inbound, opened, turn>> /\ OnLegacy(C)
      /\ stage' = IF card'.posted = card.posted THEN "over" ELSE AfterFiles
  BY DEF SendFallback, source
<1>2. IsCard(card) /\ reply.kind # "none" /\ onCard \in BOOLEAN
  BY <1>1 DEF CardInv, Staged
<1> HIDE DEF onCard, processed
<1>3. ASSUME NEW d \in C
      PROVE  /\ Later(card, d)
             /\ ~onCard => d.fin = card.fin /\ d.steps = card.steps
             /\ onCard /\ SaysDone(card) /\ d.troubles = {} => d.fin /\ d.emoji = "done"
  <2>1. PICK o \in Outcomes : d = Post(SendText(card, onCard, reply.text, o), processed)
    OBVIOUS
  <2> DEFINE s == SendText(card, onCard, reply.text, o)
  <2>2. /\ Later(card, s)
        /\ ~onCard => s.fin = card.fin /\ s.steps = card.steps
        /\ onCard /\ SaysDone(card) /\ s.troubles = {} => s.fin /\ s.emoji = "done"
    BY <1>2, SendTextIs
  <2> HIDE DEF s, C
  <2>3. d = Post(s, processed) /\ IsCard(s)
    BY <2>1, <2>2 DEF s, Later
  <2>4. /\ Later(s, d) /\ d.fin = s.fin /\ d.emoji = s.emoji /\ d.steps = s.steps /\ d.troubles = s.troubles
    BY <2>3, PostIs
  <2>5. Later(card, d)
    BY <2>2, <2>4, LaterIsTransitive
  <2> QED
    BY <2>2, <2>4, <2>5
<1> HIDE DEF C
<1>4. /\ Later(card, card') /\ draft' = draft /\ pump' = pump
      /\ card' \in C \/ (card'.troubles # {} /\ card'.fin = card.fin /\ card'.steps = card.steps)
  BY <1>1, <1>2, <1>3, OnLegacyIs
<1>5. stage' \in {"over", "spoilt"}
  BY <1>1 DEF AfterFiles
<1>6. stage' \in LateStages /\ TurnTyped' /\ running' = {} /\ reply' = reply
  BY <1>1, <1>4, <1>5, OnTheWay DEF LateStages
<1>7. opened /\ card'.troubles = {} => onCard /\ mode = "legacy" /\ card'.fin /\ card'.emoji = "done"
  <2> SUFFICES ASSUME opened, card'.troubles = {} PROVE onCard /\ mode = "legacy" /\ card'.fin /\ card'.emoji = "done"
    OBVIOUS
  <2>1. card.troubles = {} /\ card' \in C
    BY <1>4 DEF Later
  <2>2. mode = "legacy" /\ SaysDone(card)
    BY <1>1, <2>1 DEF CardInv, Finishing, EmojiTold, Untroubled, SaysDone
  <2>3. onCard
    BY <2>2 DEF onCard
  <2> QED
    BY <1>3, <2>1, <2>2, <2>3
<1>8. mode = "v2" => card'.fin = card.fin /\ card'.steps = card.steps
  <2>1. mode = "v2" => ~onCard
    BY DEF onCard
  <2> QED
    BY <1>3, <1>4, <2>1
<1>9. mode = "v2" /\ card'.fin => opened /\ Quiet(card'.steps)
  BY <1>8 DEF CardInv, Finishing
<1>10. card'.troubles = {} /\ opened => Streaming(card')
  BY <1>7 DEF Streaming, SaysDone
<1> QED
  BY <1>1, <1>2, <1>4, <1>5, <1>6, <1>7, <1>9, <1>10, LateStep

LEMMA SendMediaKeeps ==
    ASSUME CardInv, SendMedia
    PROVE  CardInv'
<1>1. /\ stage = "media" /\ UNCHANGED <<mode, inbound, opened, turn, draft, pump>>
      /\ \/ stage' = "over" /\ card' = card
         \/ stage' = AfterFiles
            /\ card' = PostFiles(IF mode = "legacy" THEN CleanupChatContext(MarkCardStreamed(card)) ELSE card)
         \/ stage' = "over" /\ card' = [card EXCEPT !.troubles = @ \cup {"token"}]
  BY DEF SendMedia, source, session
<1>2. /\ IsCard(card) /\ reply.kind \in {"answer", "final", "notice"}
      /\ opened /\ card.troubles = {} => card.fin
      /\ opened /\ card.troubles = {} /\ mode = "legacy" => card.emoji = "done"
      /\ mode = "v2" /\ card.fin => opened /\ Quiet(card.steps)
  BY <1>1 DEF CardInv, Staged, Finishing, EmojiTold, Untroubled
<1>3. /\ Later(card, card') /\ card'.fin = card.fin /\ card'.emoji = card.emoji /\ card'.steps = card.steps
  <2>1. CASE card' = card
    BY <1>2, <2>1 DEF Later
  <2>2. CASE card' = [card EXCEPT !.troubles = @ \cup {"token"}]
    BY <1>2, <2>2 DEF IsCard, Later, NewCard, Troubles
  <2>3. CASE card' = PostFiles(IF mode = "legacy" THEN CleanupChatContext(MarkCardStreamed(card)) ELSE card)
    <3> DEFINE m == MarkCardStreamed(card)
               k == CleanupChatContext(m)
               c == IF mode = "legacy" THEN k ELSE card
    <3>1. Later(card, m) /\ m.fin = card.fin /\ m.emoji = card.emoji /\ m.steps = card.steps
      BY <1>2, MarkCardStreamedIs
    <3> HIDE DEF m
    <3>2. Later(m, k) /\ k.fin = m.fin /\ k.emoji = m.emoji /\ k.steps = m.steps
      BY <3>1, CleanupIs DEF Later
    <3> HIDE DEF k
    <3>3. Later(card, k)
      BY <3>1, <3>2, LaterIsTransitive
    <3>4. Later(card, c) /\ c.fin = card.fin /\ c.emoji = card.emoji /\ c.steps = card.steps
      BY <1>2, <3>1, <3>2, <3>3 DEF Later
    <3>5. card' = PostFiles(c)
      BY <2>3 DEF k, m
    <3> HIDE DEF c
    <3>6. Later(c, card') /\ card'.fin = c.fin /\ card'.emoji = c.emoji /\ card'.steps = c.steps
      BY <3>4, <3>5, PostIs DEF PostFiles, Later
    <3> QED
      BY <3>4, <3>6, LaterIsTransitive
  <2> QED
    BY <1>1, <2>1, <2>2, <2>3
<1>4. stage' \in {"over", "spoilt"}
  BY <1>1 DEF AfterFiles
<1>5. stage' \in LateStages /\ TurnTyped' /\ running' = {} /\ reply' = reply
  BY <1>1, <1>4, OnTheWay DEF LateStages
<1>6. opened /\ card'.troubles = {} => card.troubles = {}
  BY <1>3 DEF Later
<1>7. opened /\ card'.troubles = {} /\ mode = "legacy" => Streaming(card')
  BY <1>2, <1>3, <1>6 DEF Streaming, SaysDone
<1> QED
  BY <1>1, <1>2, <1>3, <1>4, <1>5, <1>6, <1>7, LateStep

LEMMA FailPendingCardKeeps ==
    ASSUME CardInv, FailPendingCard
    PROVE  CardInv'
<1>1. stage = "spoilt" /\ stage' = "over" /\ UNCHANGED <<mode, inbound, opened, turn, draft, pump>>
  BY DEF FailPendingCard, source, session
<1>2. IsCard(card) /\ reply.kind # "none" /\ (mode = "v2" /\ card.fin => opened /\ Quiet(card.steps))
  BY <1>1 DEF CardInv, Staged, Finishing
<1> DEFINE spoilt == [card EXCEPT !.troubles = @ \cup {"broken"}]
<1>3. PICK o \in Failing({"stream", "finish", "again"}) :
        card' = IF mode = "legacy" /\ opened THEN Fail(spoilt, Internal, o).card ELSE spoilt
  BY Zenon DEF FailPendingCard
<1>4. Later(card, spoilt) /\ spoilt.fin = card.fin /\ spoilt.steps = card.steps /\ spoilt.troubles # {}
  BY <1>2 DEF IsCard, Later, NewCard, Troubles
<1> HIDE DEF spoilt
<1>5. o \in Outcomes
  BY FailingAreOutcomes
<1>6. Later(card, card') /\ card'.troubles # {} /\ (mode = "v2" => card'.fin = card.fin /\ card'.steps = card.steps)
  <2>1. CASE mode = "legacy" /\ opened
    <3>1. Later(spoilt, card')
      BY <1>3, <1>4, <1>5, <2>1, FailIs DEF Later
    <3>2. Later(card, card')
      BY <1>4, <3>1, LaterIsTransitive
    <3> QED
      BY <1>4, <2>1, <3>1, <3>2 DEF Later
  <2>2. CASE ~(mode = "legacy" /\ opened)
    BY <1>3, <1>4, <2>2
  <2> QED
    BY <2>1, <2>2
<1>7. stage' \in LateStages /\ TurnTyped' /\ running' = {} /\ reply' = reply
  BY <1>1, OnTheWay DEF LateStages
<1> QED
  BY <1>1, <1>2, <1>6, <1>7, LateStep

LEMMA TerminalTypesKeeps ==
    ASSUME CardInv, TerminalTypes
    PROVE  CardInv'
<1>1. stage = "typing" /\ UNCHANGED <<mode, inbound, opened, turn, draft, pump>>
  BY DEF TerminalTypes, source, session
<1>2. /\ IsCard(card) /\ reply.kind # "none" /\ mode = "v2" /\ opened /\ ~card.fin
  BY <1>1 DEF CardInv, Staged, Finishing, IsCard
<1>3. PICK result \in PushResults :
        /\ card' = Worse(result)
        /\ stage' = CASE result \in Results -> "commit"
                      [] result = "token" -> Undelivered
                      [] result = "broken" -> "over"
  BY DEF TerminalTypes
<1>4. /\ stage' \in {"commit", "fallback", "over"}
      /\ stage' # "commit" => result # "ok"
  BY <1>3 DEF Undelivered, PushResults, Results
<1>5. /\ Later(card, card') /\ card'.fin = card.fin
      /\ result # "ok" => card'.troubles # {}
  BY <1>2, <1>3 DEF Worse, Failures, PushResults, Results, IsCard, Later, NewCard, Troubles
<1>6. stage' \in LateStages /\ TurnTyped' /\ running' = {} /\ reply' = reply
  BY <1>1, <1>4, OnTheWay DEF LateStages
<1> QED
  BY <1>1, <1>2, <1>4, <1>5, <1>6, LateStep

LEMMA TerminalCommitsKeeps ==
    ASSUME CardInv, TerminalCommits
    PROVE  CardInv'
<1>1. stage = "commit" /\ UNCHANGED <<mode, inbound, opened, turn, draft, pump>>
  BY DEF TerminalCommits, source, session
<1>2. /\ IsCard(card) /\ reply.kind # "none" /\ mode = "v2" /\ opened /\ ~card.fin /\ Quiet(draft.steps)
  BY <1>1 DEF CardInv, Staged, Finishing, IsCard, DraftSound, RunsIn, Quiet
<1>3. PICK result \in Results :
        /\ card' = IF Arrives(result)
                   THEN [Worse(result) EXCEPT !.shown = FlattenSeq(Frame(draft, TRUE).blocks),
                                              !.steps = draft.steps, !.fin = TRUE]
                   ELSE Worse(result)
        /\ stage' = IF result = "ok" THEN Delivered ELSE Undelivered
  BY DEF TerminalCommits
<1>4. /\ stage' \in {"media", "fallback", "over"}
      /\ stage' = "media" => reply.kind \in {"answer", "final", "notice"}
  BY <1>3 DEF Undelivered, Delivered
<1> DEFINE w == Worse(result)
<1>5. /\ Later(card, w) /\ w.fin = card.fin
      /\ result # "ok" => w.troubles # {}
  BY <1>2, <1>3 DEF Worse, Failures, Results, IsCard, Later, NewCard, Troubles
<1> HIDE DEF w
<1>6. CASE Arrives(result)
  <2> DEFINE text == FlattenSeq(Frame(draft, TRUE).blocks)
  <2>1. card' = [w EXCEPT !.shown = text, !.steps = draft.steps, !.fin = TRUE]
    BY <1>3, <1>6 DEF w
  <2> HIDE DEF text
  <2>2. Later(w, card') /\ card'.fin = TRUE /\ card'.steps = draft.steps
    BY <1>5, <2>1 DEF IsCard, Later, NewCard
  <2>3. Later(card, card') /\ (result # "ok" => card'.troubles # {})
    BY <1>5, <2>2, LaterIsTransitive DEF Later
  <2>4. stage' \in LateStages /\ TurnTyped' /\ running' = {} /\ reply' = reply
    BY <1>1, <1>4, OnTheWay DEF LateStages
  <2>5. stage' = "fallback" => result # "ok"
    BY <1>3 DEF Delivered
  <2> QED
    BY <1>1, <1>2, <1>4, <2>2, <2>3, <2>4, <2>5, LateStep
<1>7. CASE ~Arrives(result)
  <2>1. card' = w /\ result # "ok"
    BY <1>3, <1>7 DEF w, Arrives
  <2>2. stage' \in LateStages /\ TurnTyped' /\ running' = {} /\ reply' = reply
    BY <1>1, <1>4, OnTheWay DEF LateStages
  <2> QED
    BY <1>1, <1>2, <1>4, <1>5, <2>1, <2>2, LateStep
<1> QED
  BY <1>6, <1>7

-----------------------------------------------------------------------------
(* The steps of the pump.                                                  *)
LEMMA PumpSteps ==
    ASSUME CardInv, UNCHANGED <<mode, inbound, opened, stage, turn, draft>>, pump.task # "none",
           PumpTyped', PumpHolds', Later(card, card'), card'.fin = card.fin
    PROVE  CardInv'
<1>1. UNCHANGED <<said, deltas, rounds, running, ran, blanks, reply>>
  BY DEF turn
<1>2. /\ mode = "v2" /\ opened /\ (mode = "v2" /\ card.fin => stage \in {"media", "fallback", "over", "spoilt"} /\ reply.kind # "none")
      /\ stage \in {"stream", "respond"} \/ reply.kind = "none"
  BY DEF CardInv, PumpHolds, Finishing
<1>3. TurnTyped' /\ DraftSound'
  BY <1>1 DEF CardInv, TurnTyped, DraftSound
<1>4. Staged'
  BY <1>1, <1>2 DEF CardInv, Staged
<1>5. Finishing'
  BY <1>1, <1>2 DEF CardInv, Finishing, Untroubled, Later
<1>6. EmojiTold'
  BY <1>2 DEF EmojiTold
<1> QED
  BY <1>3, <1>4, <1>5, <1>6 DEF CardInv, Later

LEMMA PumpTakesKeeps ==
    ASSUME CardInv, PumpTakes \/ PumpWakes
    PROVE  CardInv'
<1>1. /\ UNCHANGED <<mode, inbound, opened, stage, turn, draft, card>>
  BY DEF PumpTakes, PumpWakes, source
<1>2. /\ PumpTyped /\ PumpHolds /\ IsCard(card) /\ reply' = reply /\ DOMAIN pump = DOMAIN IdlePump
  BY <1>1 DEF CardInv, PumpHolds, turn
<1>3. /\ pump.task # "none" /\ DOMAIN pump' = DOMAIN IdlePump
      /\ pump'.closed = pump.closed /\ pump'.tried = pump.tried /\ pump'.pending = <<>>
      /\ pump'.wake \in BOOLEAN /\ pump'.task # "none"
      /\ pump'.task \in {"waits", "sleeps", "types"}
      /\ pump'.task = "waits" => pump.pending = <<>> /\ pump.frame = <<>> /\ pump'.frame = <<>>
      /\ pump'.task # "waits" => pump'.frame # <<>>
      /\ pump'.frame \in {pump.frame, pump.pending}
      /\ pump.pending # <<>> => pump'.frame = pump.pending
      /\ pump.pending = <<>> => pump'.frame = pump.frame
  <2>1. CASE PumpTakes
    <3>1. pump.task = "waits" /\ pump.frame = <<>>
      BY <1>2, <2>1 DEF PumpTakes, PumpTyped
    <3>2. PICK task \in {"sleeps", "types"} :
             pump' = IF pump.pending = <<>> THEN [pump EXCEPT !.wake = FALSE]
                     ELSE [pump EXCEPT !.wake = FALSE, !.frame = pump.pending, !.pending = <<>>, !.task = task]
      BY <2>1 DEF PumpTakes
    <3> QED
      BY <1>2, <3>1, <3>2 DEF IdlePump
  <2>2. CASE PumpWakes
    <3>1. pump.task = "sleeps" /\ pump.frame # <<>> /\ pump.wake \in BOOLEAN
      BY <1>2, <2>2 DEF PumpWakes, PumpTyped, PumpHolds
    <3>2. pump' = [pump EXCEPT !.task = "types", !.pending = <<>>,
                               !.frame = IF pump.pending = <<>> THEN @ ELSE pump.pending]
      BY <2>2 DEF PumpWakes
    <3> QED
      BY <1>2, <3>1, <3>2 DEF IdlePump
  <2> QED
    BY <2>1, <2>2
<1>4. ~pump.closed
  BY <1>2, <1>3 DEF PumpHolds, IdlePump
<1>5. PumpTyped'
  BY <1>2, <1>3 DEF PumpTyped
<1>6. PumpHolds'
  BY <1>1, <1>2, <1>3, <1>4 DEF PumpHolds
<1>7. Later(card, card') /\ card'.fin = card.fin
  BY <1>1, <1>2 DEF Later
<1> QED
  BY <1>1, <1>3, <1>5, <1>6, <1>7, PumpSteps

LEMMA PumpEndsIs ==
    ASSUME PumpTyped, PumpHolds, NEW task \in {"none", "waits"}, PumpEnds(task), pump.task \in {"types", "commits"},
           UNCHANGED <<mode, opened, stage, reply, draft>>, Later(card, card'),
           task = "none" => "broken" \in card'.troubles
    PROVE  PumpTyped' /\ PumpHolds'
<1>1. /\ DOMAIN pump' = DOMAIN IdlePump /\ pump'.task = task /\ pump'.tried = pump.frame /\ pump'.frame = <<>>
      /\ pump'.closed = pump.closed /\ pump'.pending = pump.pending /\ pump'.wake = pump.wake
  BY DEF PumpHolds, PumpEnds, IdlePump
<1>2. ~pump.closed /\ pump.frame # <<>>
  BY DEF PumpHolds, PumpTyped, IdlePump
<1>3. PumpTyped'
  BY <1>1 DEF PumpTyped
<1>4. PumpHolds'
  BY <1>1, <1>2 DEF PumpHolds, Later
<1> QED
  BY <1>3, <1>4

LEMMA PumpTypesKeeps ==
    ASSUME CardInv, PumpTypes
    PROVE  CardInv'
<1>1. pump.task = "types" /\ UNCHANGED <<mode, inbound, opened, stage, turn, draft>>
  BY DEF PumpTypes, source
<1>2. PumpTyped /\ PumpHolds /\ IsCard(card) /\ reply' = reply /\ DOMAIN pump = DOMAIN IdlePump
  BY <1>1 DEF CardInv, PumpHolds, turn
<1>3. PICK result \in PushResults :
         /\ card' = Missed(result)
         /\ CASE result = "ok" -> pump' = [pump EXCEPT !.task = "commits"]
              [] result = "broken" -> PumpEnds("none")
              [] result \notin {"ok", "broken"} -> PumpEnds("waits")
  BY DEF PumpTypes
<1>4. Later(card, card') /\ card'.fin = card.fin /\ (result = "broken" => "broken" \in card'.troubles)
  BY <1>2, <1>3 DEF Missed, IsCard, Later, NewCard, Troubles
<1>5. PumpTyped' /\ PumpHolds'
  <2>1. CASE result = "ok"
    <3>1. pump' = [pump EXCEPT !.task = "commits"]
      BY <1>3, <2>1
    <3>2. /\ DOMAIN pump' = DOMAIN IdlePump /\ pump'.task = "commits" /\ pump'.tried = pump.tried /\ pump'.frame = pump.frame
          /\ pump'.closed = pump.closed /\ pump'.pending = pump.pending /\ pump'.wake = pump.wake
      BY <1>2, <3>1 DEF IdlePump
    <3>3. ~pump.closed
      BY <1>1, <1>2 DEF PumpHolds, IdlePump
    <3>4. PumpTyped'
      BY <1>1, <1>2, <3>2 DEF PumpTyped
    <3>5. PumpHolds'
      BY <1>1, <1>2, <1>4, <3>2, <3>3 DEF PumpHolds
    <3> QED
      BY <3>4, <3>5
  <2>2. CASE result = "broken"
    <3>1. PumpEnds("none")
      BY <1>3, <2>2
    <3> QED
      BY <1>1, <1>2, <1>4, <2>2, <3>1, PumpEndsIs
  <2>3. CASE result \notin {"ok", "broken"}
    <3>1. PumpEnds("waits")
      BY <1>3, <2>3
    <3> QED
      BY <1>1, <1>2, <1>4, <3>1, PumpEndsIs
  <2> QED
    BY <2>1, <2>2, <2>3
<1> QED
  BY <1>1, <1>4, <1>5, PumpSteps

LEMMA PumpCommitsKeeps ==
    ASSUME CardInv, PumpCommits
    PROVE  CardInv'
<1>1. pump.task = "commits" /\ PumpEnds("waits") /\ UNCHANGED <<mode, inbound, opened, stage, turn, draft>>
  BY DEF PumpCommits, source
<1>2. PumpTyped /\ PumpHolds /\ IsCard(card) /\ reply' = reply
  BY <1>1 DEF CardInv, PumpHolds, turn
<1>3. PICK result \in Results :
         card' = IF Arrives(result)
                 THEN [Missed(result) EXCEPT !.steps = pump.frame[1].steps] ELSE Missed(result)
  BY DEF PumpCommits
<1>4. Later(card, card') /\ card'.fin = card.fin
  <2> DEFINE m == Missed(result)
  <2>1. Later(card, m) /\ m.fin = card.fin
    BY <1>2 DEF Missed, IsCard, Later, NewCard, Troubles
  <2> HIDE DEF m
  <2>2. CASE Arrives(result)
    <3>1. card' = [m EXCEPT !.steps = pump.frame[1].steps]
      BY <1>3, <2>2 DEF m
    <3>2. Later(m, card') /\ card'.fin = m.fin
      BY <2>1, <3>1 DEF IsCard, Later, NewCard
    <3> QED
      BY <2>1, <3>2, LaterIsTransitive
  <2>3. CASE ~Arrives(result)
    BY <1>3, <2>1, <2>3 DEF m
  <2> QED
    BY <2>2, <2>3
<1>5. PumpTyped' /\ PumpHolds'
  BY <1>1, <1>2, <1>4, PumpEndsIs
<1> QED
  BY <1>1, <1>4, <1>5, PumpSteps

-----------------------------------------------------------------------------
LEMMA CardInvInit == ReplyInit => CardInv
<1> SUFFICES ASSUME ReplyInit PROVE CardInv
  OBVIOUS
<1>1. /\ mode \in Modes /\ opened = FALSE /\ stage = (IF mode = "push" THEN "respond" ELSE "received")
      /\ deltas = 0 /\ rounds = 0 /\ running = {} /\ ran = {} /\ blanks = 0
      /\ draft = NewDraft /\ pump = IdlePump /\ card = NewCard
      /\ inbound \in Received[mode] \cup {NoMessage}
  BY DEF ReplyInit
<1>2. reply.kind = (IF mode = "push" THEN "pushed" ELSE "open")
  BY DEF ReplyInit, Reply, NoReply
<1>3. MaxDeltas[mode] \in Nat /\ ToolRounds \in Nat
  BY <1>1, BoundsAre
<1>4. TurnTyped
  <2>1. mode \in Modes /\ opened \in BOOLEAN /\ inbound \in Received[mode] \cup {NoMessage}
    BY <1>1
  <2>2. stage \in Stages
    BY <1>1 DEF Stages
  <2>3. deltas \in 0 .. MaxDeltas[mode] /\ rounds \in 0 .. ToolRounds /\ blanks \in 0 .. 2
    BY <1>1, <1>3
  <2>4. running \subseteq Tools[mode] /\ ran \subseteq Tools[mode]
    BY <1>1
  <2>5. reply.kind \in Kinds \cup {"open"}
    BY <1>2 DEF Kinds
  <2> QED
    BY <2>1, <2>2, <2>3, <2>4, <2>5 DEF TurnTyped
<1>5. PumpTyped /\ PumpHolds
  BY <1>1 DEF PumpTyped, PumpHolds, IdlePump
<1>6. IsCard(card)
  BY <1>1 DEF IsCard, NewCard
<1>7. DraftSound
  BY <1>1, DraftAssumption DEF DraftSound, IsDraft, RunsIn, NewDraft
<1>8. Staged
  BY <1>1, <1>2 DEF Staged, NewCard
<1>9. Finishing /\ EmojiTold
  BY <1>1 DEF Finishing, EmojiTold, Untroubled, NewCard
<1> QED
  BY <1>4, <1>5, <1>6, <1>7, <1>8, <1>9 DEF CardInv

LEMMA CardInvStep == CardInv /\ [ReplyNext]_replyVars => CardInv'
<1> SUFFICES ASSUME CardInv, [ReplyNext]_replyVars PROVE CardInv'
  OBVIOUS
<1>1. CASE UNCHANGED replyVars
  <2>1. /\ UNCHANGED <<mode, inbound, opened, stage, deltas, rounds, running, ran, blanks>>
        /\ UNCHANGED <<reply, draft, pump, card>>
    BY <1>1 DEF replyVars, source, turn, session
  <2>2. TurnTyped' /\ PumpTyped'
    BY <2>1 DEF CardInv, TurnTyped, PumpTyped
  <2>3. IsCard(card)' /\ DraftSound'
    BY <2>1 DEF CardInv, DraftSound, IsCard
  <2>4. PumpHolds'
    BY <2>1 DEF CardInv, PumpHolds
  <2>5. Staged' /\ Finishing' /\ EmojiTold'
    BY <2>1 DEF CardInv, Staged, Finishing, Untroubled, EmojiTold
  <2> QED
    BY <2>2, <2>3, <2>4, <2>5 DEF CardInv
<1>2. CASE Receive \/ ReceiveHttp \/ ReadLine
  BY <1>2, ReceivedKeeps
<1>3. CASE OpenCard
  BY <1>3, OpenCardKeeps
<1>4. CASE Delta
  BY <1>4, DeltaKeeps
<1>5. CASE ToolsStop \/ Blank \/ Answer \/ AnswerGoesOn
  BY <1>5, StopsAndEndsKeep
<1>6. CASE OtherEnd
  BY <1>6, OtherEndKeeps
<1>7. ASSUME NEW t \in Tools[mode], ToolStart(t) PROVE CardInv'
  BY <1>7, ToolStartKeeps
<1>8. ASSUME NEW t \in Tools[mode], NEW ok \in BOOLEAN, ToolEnd(t, ok) PROVE CardInv'
  BY <1>8, ToolEndKeeps
<1>9. CASE Deliver
  BY <1>9, DeliverKeeps
<1>10. CASE PushReply
  BY <1>10, PushReplyKeeps
<1>11. CASE CloseStream
  BY <1>11, CloseStreamKeeps
<1>12. CASE ReturnReply
  BY <1>12, ReturnReplyKeeps
<1>13. CASE SendMedia
  BY <1>13, SendMediaKeeps
<1>14. CASE SendFallback
  BY <1>14, SendFallbackKeeps
<1>15. CASE FailPendingCard
  BY <1>15, FailPendingCardKeeps
<1>16. CASE TerminalTypes
  BY <1>16, TerminalTypesKeeps
<1>17. CASE TerminalCommits
  BY <1>17, TerminalCommitsKeeps
<1>18. CASE PumpTakes \/ PumpWakes
  BY <1>18, PumpTakesKeeps
<1>19. CASE PumpTypes
  BY <1>19, PumpTypesKeeps
<1>20. CASE PumpCommits
  BY <1>20, PumpCommitsKeeps
<1>21. CASE Rest
  BY <1>1, <1>21 DEF Rest
<1> QED
  BY <1>1, <1>2, <1>3, <1>4, <1>5, <1>6, <1>7, <1>8, <1>9, <1>10, <1>11, <1>12, <1>13, <1>14, <1>15,
     <1>16, <1>17, <1>18, <1>19, <1>20, <1>21, Zenon DEF ReplyNext, TurnStep, PumpStep

LEMMA CardInvAlways == ReplySpec => []CardInv
  BY CardInvInit, CardInvStep, PTL DEF ReplySpec

(* The types of the turn, the pump, the draft and the card.                *)
LEMMA CardInvTypes == CardInv => ReplyTypeOK
  BY DEF CardInv, TurnTyped, Stages, PumpTyped, IsCard, Troubles, DraftSound, IsDraft, ReplyTypeOK

(* For any messages, modes, tools and rounds, and whatever requests fail:   *)
(* a frame that waits will be taken, and a pump at rest has tried the frame *)
(* of the present draft (DingTalkV2CardClient._run).                       *)
THEOREM PumpMissesNothing == ReplySpec => []PumpSound
<1>1. CardInv => PumpSound
  <2> SUFFICES ASSUME CardInv PROVE PumpSound
    OBVIOUS
  <2>1. ReplyTypeOK
    BY CardInvTypes
  <2>2. PumpTyped /\ PumpHolds
    BY DEF CardInv
  <2> QED
    BY <2>1, <2>2 DEF PumpSound, PumpHolds, PumpTyped
<1> QED
  BY <1>1, CardInvAlways, PTL

(* For any messages, modes, tools and rounds, and whatever requests fail:   *)
(* a reply that was delivered leaves no pump behind, no row that runs on a  *)
(* finished card, and no untroubled card unfinished or without the emoji   *)
(* that says so (_deliver_response, V2CardSession.finish).                 *)
THEOREM CardsSettle == ReplySpec => []CardSettles
<1>1. CardInv => CardSettles
  <2> SUFFICES ASSUME CardInv, stage = "over", reply.kind # "none" PROVE CardSettles
    BY DEF CardSettles, Over
  <2>1. pump.task = "none"
    BY DEF CardInv, PumpHolds
  <2>2. card.troubles = {} /\ opened => card.fin
    BY DEF CardInv, Finishing, Untroubled
  <2>3. mode = "v2" /\ card.fin => \A i \in DOMAIN card.steps : card.steps[i].state # "running"
    BY DEF CardInv, Finishing, Quiet
  <2>4. mode = "legacy" /\ opened /\ card.troubles = {} /\ reply.kind \in {"answer", "notice"} => card.emoji = "done"
    BY DEF CardInv, EmojiTold, Untroubled
  <2> QED
    BY <2>1, <2>2, <2>3, <2>4 DEF CardSettles
<1> QED
  BY <1>1, CardInvAlways, PTL
=============================================================================
