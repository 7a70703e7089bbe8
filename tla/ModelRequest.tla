---------------------------- MODULE ModelRequest ----------------------------
(***************************************************************************)
(* A request to the model: AgentRunner._request_model asks chat_with_retry *)
(* or chat_stream_with_retry, _run_with_retry repeats the call while the   *)
(* error is transient, each call of a FallbackProvider walks from the      *)
(* primary model to the fallback models, and the primary one, an           *)
(* OpenAICompatProvider, may use the Responses endpoint before the Chat    *)
(* Completions endpoint.  The requests of several turns run at the same    *)
(* time and share the two circuit breakers.                                *)
(*                                                                         *)
(* A pause of a retry may last any time (the server's Retry-After wins     *)
(* over the delay of the code), so it is not tied to the clock, which only *)
(* the breakers read.                                                      *)
(***************************************************************************)
EXTENDS Integers, FiniteSets, VendorMessages

CONSTANTS Request,          \* the requests in flight
          Streams,          \* those made with chat_stream_with_retry
          WithImages,       \* those whose messages hold an image
          Fallbacks,        \* number of fallback presets
          Broken,           \* presets whose provider cannot be created
          Errors,           \* the error responses a model may give
          Retries,          \* length of _CHAT_RETRY_DELAYS (3 in the code)
          Threshold,        \* failures that open a breaker (3 in the code)
          Cooldown,         \* _PRIMARY_COOLDOWN_S, in ticks of the clock
          ProbeInterval,    \* _RESPONSES_PROBE_INTERVAL_S, in ticks
          MaxNow            \* bound of the clock

ASSUME RequestAssumption ==
    /\ Streams \subseteq Request /\ WithImages \subseteq Request
    /\ Fallbacks \in Nat \ {0} /\ Broken \subseteq 1 .. Fallbacks
    /\ Retries \in Nat /\ Threshold \in Nat \ {0}
    /\ Cooldown \in Nat \ {0} /\ ProbeInterval \in Nat \ {0} /\ MaxNow \in Nat

VARIABLES now,              \* time.monotonic()
          breaker,          \* _primary_failures, _primary_tripped_at
          circuit,          \* _responses_failures, _responses_tripped_at
          pc,               \* where each request is
          attempt,          \* number of the call in _run_with_retry
          target,           \* the model of the call, 0 the primary
          asked,            \* the models asked in this call
          voices,           \* the models whose text was streamed in this call
          images,           \* "none", "sent", "stripped" for this call, or "gone"
          answer            \* the last response of the model chain

requestVars == <<pc, attempt, target, asked, voices, images, answer>>
vars == <<now, breaker, circuit, requestVars>>

Never == -1
Primary == 0
Preset == 1 .. Fallbacks
NoAnswer == [kind |-> "none"]
Good(m) == [kind |-> "ok", by |-> m]
Failed(m, e) == [kind |-> "error", by |-> m, error |-> e]
Nobody == Fallbacks + 1
Breaker == [failures : Nat, trippedAt : {Never} \cup 0 .. MaxNow]

(* What tells error responses apart: x-should-retry, the status, and what  *)
(* the type, the code and the text speak of.                               *)
CircuitOpenError == [retry |-> "unset", status |-> "none", speaksOf |-> "nothing"]
TimeoutError == [retry |-> "unset", status |-> "none", speaksOf |-> "timeout"]
Error == [retry : {"unset", "yes", "no"},
          status : {"none", "400", "408", "429", "500"},
          speaksOf : {"nothing", "timeout", "quota", "rate", "refusal"}]

ASSUME ErrorAssumption == Errors \subseteq Error

TypeOK ==
    /\ now \in 0 .. MaxNow
    /\ breaker \in Breaker /\ circuit \in Breaker
    /\ pc \in [Request -> {"idle", "responses", "chat", "fallback", "pause", "strip", "done"}]
    /\ attempt \in [Request -> 0 .. Retries + 1]
    /\ target \in [Request -> 0 .. Fallbacks]
    /\ asked \in [Request -> SUBSET (0 .. Fallbacks)]
    /\ voices \in [Request -> SUBSET (0 .. Fallbacks)]
    /\ images \in [Request -> {"none", "sent", "stripped", "gone"}]
    /\ \A r \in Request : 
          \/ answer[r] = NoAnswer
          \/ answer[r] \in {Good(m) : m \in 0 .. Fallbacks}
          \/ answer[r] \in {Failed(m, e) : m \in 0 .. Nobody, e \in Error}

Init ==
    /\ now = 0
    /\ breaker = [failures |-> 0, trippedAt |-> Never]
    /\ circuit = [failures |-> 0, trippedAt |-> Never]
    /\ pc = [r \in Request |-> "idle"]
    /\ attempt = [r \in Request |-> 0]
    /\ target = [r \in Request |-> Primary]
    /\ asked = [r \in Request |-> {}]
    /\ voices = [r \in Request |-> {}]
    /\ images = [r \in Request |-> IF r \in WithImages THEN "sent" ELSE "none"]
    /\ answer = [r \in Request |-> NoAnswer]

-----------------------------------------------------------------------------
(* _is_transient_response: the header wins, then the status, where an      *)
(* exhausted quota is final, then what the text speaks of.                 *)
Transient(e) ==
    CASE e.retry # "unset" -> e.retry = "yes"
      [] e.retry = "unset" /\ e.status = "429" -> e.speaksOf # "quota"
      [] e.retry = "unset" /\ e.status \in {"408", "500"} -> TRUE
      [] e.retry = "unset" /\ e.status \in {"none", "400"} -> e.speaksOf \in {"timeout", "rate"}

(* _should_fallback: a request no model would take is not passed on.       *)
ShouldFallback(e) ==
    /\ e.retry # "no"
    /\ e.status # "400"
    /\ e.speaksOf # "refusal"
    /\ \/ e.retry = "yes"
       \/ e.status \in {"408", "429", "500"}
       \/ e.speaksOf \in {"timeout", "rate", "quota"}

(* _primary_available and the breaker's part of _should_use_responses_api. *)
Open(b, wait) == b.trippedAt # Never /\ now - b.trippedAt < wait

(* Slip: the breaker is not asked before a call.                           *)
PrimaryAvailable == ~Open(breaker, Cooldown)

Reset == [failures |-> 0, trippedAt |-> Never]
Failure(b) == [failures |-> b.failures + 1,
               trippedAt |-> IF b.failures + 1 >= Threshold THEN now ELSE b.trippedAt]

(* Slip: the loop over the presets does not look at what was streamed.     *)
Slip_FallbackAnyway(heard, from) ==
    LET next == {p \in Preset : p >= from /\ p \notin Broken}
    IN  IF next = {} THEN Nobody ELSE CHOOSE p \in next : \A q \in next : p <= q

(* Slip: the loop does not leave the preset that failed.                   *)
Slip_SamePreset(heard, from) ==
    LET next == {p \in Preset : p >= from - 1 /\ p \notin Broken}
    IN  IF heard # {} \/ next = {} THEN Nobody ELSE CHOOSE p \in next : \A q \in next : p <= q

(* The preset the loop of _try_with_fallback asks next, from the given one *)
(* on: none once something was heard; one whose provider cannot be created *)
(* is passed over.                                                         *)
NextPreset(heard, from) ==
    LET next == {p \in Preset : p >= from /\ p \notin Broken}
    IN  IF heard # {} \/ next = {} THEN Nobody ELSE CHOOSE p \in next : \A q \in next : p <= q

Goto(r, where) == pc' = [pc EXCEPT ![r] = where]

(* Slip: the images are removed from the turn's messages when the request  *)
(* without them is made, not when it succeeded.                            *)

(* The images of the turn's messages go when a request without them was    *)
(* answered, and only then.                                                *)
ImagesAfter(r, where, ok) ==
    CASE images[r] = "stripped" -> IF ok THEN "gone" ELSE "sent"
      [] images[r] = "sent" /\ where = "strip" -> "stripped"
      [] OTHER -> images[r]

(* Slip: the first call does not count as an attempt.                      *)

(* What _run_with_retry does with a response: an answer ends the request;  *)
(* after a lasting error the request is made once more without its images, *)
(* after a passing one again, when there are attempts left.                *)
Settle(r, response) ==
    LET ok == response.kind = "ok"
        where == CASE ok \/ images[r] = "stripped" -> "done"
                   [] ~ok /\ images[r] # "stripped" /\ ~Transient(response.error) ->
                        IF images[r] = "sent" THEN "strip" ELSE "done"
                   [] ~ok /\ images[r] # "stripped" /\ Transient(response.error) ->
                        IF attempt[r] > Retries THEN "done" ELSE "pause"
    IN  /\ Goto(r, where)
        /\ images' = [images EXCEPT ![r] = ImagesAfter(r, where, ok)]
        /\ answer' = [answer EXCEPT ![r] = response]

(* The loop over the presets goes on from the given one, or ends with the  *)
(* last response of a fallback model, or with an error of its own.         *)
GoOn(r, heard, from, last, sofar) ==
    LET p == NextPreset(heard, from)
    IN  \/ /\ p # Nobody
           /\ target' = [target EXCEPT ![r] = p]
           /\ asked' = [asked EXCEPT ![r] = sofar \cup {p}]
           /\ answer' = [answer EXCEPT ![r] = last]
           /\ Goto(r, "fallback")
           /\ UNCHANGED images
        \/ /\ p = Nobody
           /\ asked' = [asked EXCEPT ![r] = sofar]
           /\ Settle(r, IF last = NoAnswer THEN Failed(Nobody, CircuitOpenError) ELSE last)
           /\ UNCHANGED target

-----------------------------------------------------------------------------
(* One call of the chain begins, the first of chat_with_retry or           *)
(* chat_stream_with_retry, one after a pause or the one without images:    *)
(* the primary model is asked if its breaker lets the call through, by the *)
(* Responses endpoint if that one's breaker does.                          *)
BeginCall(r) ==
    /\ pc[r] \in {"idle", "pause", "strip"}
    /\ attempt' = [attempt EXCEPT ![r] = IF pc[r] = "strip" THEN @ ELSE @ + 1]
    /\ voices' = [voices EXCEPT ![r] = {}]
    /\ \/ /\ PrimaryAvailable
          /\ asked' = [asked EXCEPT ![r] = {Primary}]
          /\ target' = [target EXCEPT ![r] = Primary]
          /\ Goto(r, IF Open(circuit, ProbeInterval) THEN "chat" ELSE "responses")
          /\ UNCHANGED <<answer, images>>
       \/ ~PrimaryAvailable /\ GoOn(r, {}, 1, NoAnswer, {})
    /\ UNCHANGED <<now, breaker, circuit>>

(* on_content_delta: the first text of a model reaches the user.           *)
Speak(r) ==
    /\ r \in Streams /\ pc[r] \in {"responses", "chat", "fallback"}
    /\ target[r] \notin voices[r]
    /\ voices' = [voices EXCEPT ![r] = @ \cup {target[r]}]
    /\ UNCHANGED <<now, breaker, circuit, pc, attempt, target, asked, images, answer>>

(* The Responses endpoint refuses the request as such (before it streams   *)
(* anything): its breaker counts, the Chat endpoint is asked.              *)
ResponsesRefused(r) ==
    /\ pc[r] = "responses" /\ voices[r] = {}
    /\ circuit' = Failure(circuit)
    /\ Goto(r, "chat")
    /\ UNCHANGED <<now, breaker, attempt, target, asked, voices, images, answer>>

(* The primary model answers.                                              *)
PrimaryAnswers(r) ==
    /\ pc[r] \in {"responses", "chat"}
    /\ circuit' = IF pc[r] = "responses" THEN Reset ELSE circuit
    /\ breaker' = Reset
    /\ Settle(r, Good(Primary))
    /\ UNCHANGED <<now, attempt, target, asked, voices>>

(* The primary model fails: the error is the response when text was        *)
(* streamed or no other model is worth asking; else the breaker counts and *)
(* the fallback models come next.                                          *)
PrimaryFails(r, e) ==
    /\ pc[r] \in {"responses", "chat"}
    /\ \/ /\ voices[r] # {} \/ ~ShouldFallback(e)
          /\ Settle(r, Failed(Primary, e))
          /\ UNCHANGED <<breaker, target, asked>>
       \/ /\ voices[r] = {} /\ ShouldFallback(e)
          /\ breaker' = Failure(breaker)
          /\ GoOn(r, {}, 1, NoAnswer, asked[r])
    /\ UNCHANGED <<now, circuit, attempt, voices>>

FallbackAnswers(r) ==
    /\ pc[r] = "fallback"
    /\ Settle(r, Good(target[r]))
    /\ UNCHANGED <<now, breaker, circuit, attempt, target, asked, voices>>

(* A fallback model fails: whatever the error, the next one is asked.      *)
FallbackFails(r, e) ==
    /\ pc[r] = "fallback"
    /\ GoOn(r, voices[r], target[r] + 1, Failed(target[r], e), asked[r])
    /\ UNCHANGED <<now, breaker, circuit, attempt, voices>>

(* wait_for of _request_model: a request that does not stream ends when    *)
(* the time for the model is over, wherever it waits.                      *)
OuterTimeout(r) ==
    /\ r \notin Streams /\ pc[r] \in {"responses", "chat", "fallback", "pause"}
    /\ Goto(r, "done")
    /\ answer' = [answer EXCEPT ![r] = Failed(Nobody, TimeoutError)]
    /\ images' = [images EXCEPT ![r] = IF @ = "stripped" THEN "sent" ELSE @]
    /\ UNCHANGED <<now, breaker, circuit, attempt, target, asked, voices>>

Tick ==
    /\ now < MaxNow
    /\ now' = now + 1
    /\ UNCHANGED <<breaker, circuit, requestVars>>

Step(r) ==
    \/ Speak(r) \/ ResponsesRefused(r) \/ PrimaryAnswers(r) \/ FallbackAnswers(r)
    \/ \E e \in Errors : PrimaryFails(r, e) \/ FallbackFails(r, e)
    \/ OuterTimeout(r)

Next == Tick \/ \E r \in Request : BeginCall(r) \/ Step(r)

Spec == Init /\ [][Next]_vars

(* A model that is asked answers, fails or is cut off by a timeout of the  *)
(* client (the idle timeout of a stream, the timeout of a plain request),  *)
(* and a sleeping request wakes; nothing makes a new request come.         *)
LiveSpec ==
    /\ Spec
    /\ \A r \in Request : WF_vars(Step(r)) /\ WF_vars(pc[r] # "idle" /\ BeginCall(r))

-----------------------------------------------------------------------------
(* "Skipped when content was already streamed to avoid duplicate output":  *)
(* in one call of the chain the user hears one model at most.              *)
OneVoice == \A r \in Request : Cardinality(voices[r]) <= 1

(* A request ends with an error another model might not have given only    *)
(* when every fallback model there is was asked in its last call, unless   *)
(* text was streamed or the time was over.                                 *)
AllAskedBeforeError ==
    \A r \in Request :
        /\ pc[r] = "done" /\ answer[r].kind = "error" /\ voices[r] = {}
        /\ answer[r].by = Primary => ShouldFallback(answer[r].error)
        /\ answer[r] # Failed(Nobody, TimeoutError)
        => Preset \ Broken \subseteq asked[r]

(* The images of a turn are given up only when a model has answered the    *)
(* request without them: the next iteration of the turn sends them else.   *)
ImagesGoOnSuccess ==
    \A r \in Request : images[r] = "gone" => pc[r] = "done" /\ answer[r].kind = "ok"

(* Whatever the order in which models fail, time out and stream, failover  *)
(* neither mixes two models' text, nor gives up early, nor costs the turn  *)
(* its images.                                                             *)
FailoverSound == TypeOK /\ OneVoice /\ AllAskedBeforeError /\ ImagesGoOnSuccess

(* A request that was made comes back, with an answer or an error.         *)
Returns == \A r \in Request : pc[r] # "idle" ~> pc[r] = "done"
=============================================================================
