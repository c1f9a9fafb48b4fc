------------------------------ MODULE LLMCalls ------------------------------
(***************************************************************************)
(* agents/llm.py: one-shot chat() and the conversation of an LLMClient.    *)
(* Requests are retried on transient errors and on empty replies; an       *)
(* Ollama request runs in a daemon thread that is given up after a         *)
(* wall-clock timeout and may still answer later.                          *)
(*                                                                         *)
(* A reply is one of six kinds; prompts and messages are only told apart   *)
(* by the call they belong to.                                             *)
(***************************************************************************)
EXTENDS Naturals, Sequences, FiniteSets

CONSTANTS
    Models,     \* model names, each as the set of prefix families it matches
    Sessions,   \* the models an LLMClient is made for
    MaxCalls,   \* bound: calls of chat() and send()
    None        \* Python's None

ASSUME CallsAssumption == MaxCalls \in Nat
ASSUME NoneAssumption == None # "transient"

VARIABLES
    phase,      \* "idle", "attempt" (about to call fn), "join" (waiting for it)
    call,       \* the call being served: number, kind and provider
    calls,      \* calls so far
    attempt,    \* _with_retry's loop variable
    waited,     \* seconds this call slept between its attempts
    requests,   \* every request sent, oldest first
    count,      \* _call_count
    history,    \* LLMClient._history
    outcome     \* how the last call ended

callVars == <<phase, call, calls, attempt, waited, requests, count, history, outcome>>

-----------------------------------------------------------------------------
(* _provider: families are tried in this order, so that a Groq name, which *)
(* also matches an Ollama prefix, goes to Groq.                            *)
Order == <<"google", "anthropic", "openai", "groq", "ollama">>

Provider(families) ==
    LET found == {i \in DOMAIN Order : Order[i] \in families}
    IN  IF found = {} THEN None
        ELSE Order[CHOOSE i \in found : \A j \in found : i <= j]

(* What one attempt can come to.  "thought" is a reply that holds nothing  *)
(* but a thinking block; "transient" an error with one of the markers.     *)
Replies == {"text", "thought", "blank", "none", "transient", "fatal"}
Empty == {"blank", "none"}

Least(a, b) == IF a <= b THEN a ELSE b

(* _with_retry's parameters: six attempts from 15 s, for Ollama three from *)
(* one second.                                                             *)
MaxRetries(p) == IF p = "ollama" THEN 3 ELSE 6
BaseDelay(p) == IF p = "ollama" THEN 1 ELSE 15

UncappedDelay(p, n) == BaseDelay(p) * 2^n

Delay(p, n) == Least(BaseDelay(p) * 2^n, 120)
EmptyDelay(n) == Least(2 * 2^n, 10)

Own(r) == r.call = calls
Raised(why) == [ok |-> FALSE, why |-> why, reply |-> None, by |-> Len(requests)]
Returned(reply, by) == [ok |-> TRUE, why |-> None, reply |-> reply, by |-> by]

-----------------------------------------------------------------------------
CallInit ==
    /\ phase = "idle" /\ call = None /\ calls = 0
    /\ attempt = 0 /\ waited = 0
    /\ requests = <<>> /\ count = 0
    /\ history = <<>> /\ outcome = None

StartedInPlace == phase' = "attempt" /\ waited' = 0 /\ outcome' = None /\ UNCHANGED attempt

Started == phase' = "attempt" /\ attempt' = 0 /\ waited' = 0 /\ outcome' = None
Refused(why) == outcome' = Raised(why) /\ UNCHANGED <<phase, attempt, waited>>

(* _key: every provider but Ollama wants a key in the environment.         *)
Keyed(p) == IF p = "ollama" THEN {TRUE} ELSE BOOLEAN

(* chat(): the call is counted before its model is looked at.              *)
Chat(families) ==
    /\ phase = "idle" /\ calls < MaxCalls
    /\ calls' = calls + 1
    /\ count' = count + 1
    /\ LET p == Provider(families)
       IN  /\ call' = [kind |-> "chat", provider |-> p]
           /\ IF p = None
                THEN Refused("ValueError")
                ELSE \E key \in Keyed(p) : IF key THEN Started ELSE Refused("EnvironmentError")
    /\ UNCHANGED <<requests, history>>

UserTurn(n) == [role |-> "user", call |-> n, text |-> "text"]
AssistantTurn(n, reply) == [role |-> "assistant", call |-> n, text |-> reply]

(* send(): the user turn is in the conversation before anything can fail,  *)
(* and stays there.                                                        *)
Send(families) ==
    /\ phase = "idle" /\ calls < MaxCalls
    /\ Provider(families) # None
    /\ calls' = calls + 1
    /\ call' = [kind |-> "send", provider |-> Provider(families)]
    /\ history' = Append(history, UserTurn(calls + 1))
    /\ \E key \in Keyed(Provider(families)) :
           IF key THEN Started ELSE Refused("EnvironmentError")
    /\ UNCHANGED <<requests, count>>

Reset ==
    /\ phase = "idle" /\ history # <<>>
    /\ history' = <<>>
    /\ UNCHANGED <<phase, call, calls, attempt, waited, requests, count, outcome>>

ResetCallCount ==
    /\ phase = "idle" /\ count > 0
    /\ count' = 0
    /\ UNCHANGED <<phase, call, calls, attempt, waited, requests, history, outcome>>

-----------------------------------------------------------------------------
(* One attempt.                                                            *)
Request ==
    /\ phase = "attempt"
    /\ requests' = Append(requests, [call |-> calls, reply |-> None, late |-> FALSE])
    /\ phase' = "join"
    /\ UNCHANGED <<call, calls, attempt, waited, count, history, outcome>>

(* The answer reaches the box of its own attempt, whether or not somebody  *)
(* still waits for it; of what comes too late one kind is enough.          *)
Answer(i) ==
    /\ requests[i].reply = None
    /\ \E reply \in IF requests[i].late THEN {"text"} ELSE Replies :
           requests' = [requests EXCEPT ![i].reply = reply]
    /\ UNCHANGED <<phase, call, calls, attempt, waited, count, history, outcome>>

(* _strip_thinking comes after the retries and only for these providers:   *)
(* a bare thought becomes an empty reply, and None is a TypeError.         *)
Strips(p) == p \in {"groq", "ollama"}

StrippedReply(reply) ==
    IF Strips(call.provider) /\ reply \in {"thought", "blank"} THEN "empty" ELSE reply

Return(reply, by) ==
    IF Strips(call.provider) /\ reply = "none"
      THEN outcome' = Raised("TypeError") /\ UNCHANGED history
      ELSE /\ outcome' = Returned(StrippedReply(reply), by)
           /\ history' = IF call.kind = "send"
                           THEN Append(history, AssistantTurn(calls, StrippedReply(reply)))
                           ELSE history

CanRetry(p, n) == n < MaxRetries(p) - 1

(* _with_retry's body once fn() has returned or raised.                    *)
Judge(reply, by) ==
    IF reply \in Empty \cup {"transient"} /\ CanRetry(call.provider, attempt)
      THEN /\ phase' = "attempt"
           /\ attempt' = attempt + 1
           /\ waited' = waited + (IF reply \in Empty THEN EmptyDelay(attempt)
                                                      ELSE Delay(call.provider, attempt))
           /\ UNCHANGED <<history, outcome>>
      ELSE /\ phase' = "idle"
           /\ IF reply \in {"transient", "fatal"}
                THEN outcome' = Raised(reply) /\ UNCHANGED history
                ELSE Return(reply, by)
           /\ UNCHANGED <<attempt, waited>>

(* One box for every attempt of the call: the first answer wins.           *)
SharedBox ==
    LET answered == {i \in DOMAIN requests : requests[i].reply # None}
    IN  IF answered = {} THEN Len(requests) ELSE CHOOSE i \in answered : \A j \in answered : i <= j

Box == Len(requests)

JoinReturns ==
    /\ phase = "join"
    /\ requests[Box].reply # None
    /\ Judge(requests[Box].reply, Box)
    /\ requests' = [requests EXCEPT ![Box].reply = "judged"]
    /\ UNCHANGED <<call, calls, count>>

TimesOutNever == FALSE

(* Only Ollama calls go through _call_with_timeout; its TimeoutError is a  *)
(* transient error, and the thread is left to itself.                      *)
TimesOut ==
    /\ phase = "join" /\ call.provider = "ollama"
    /\ requests[Len(requests)].reply = None
    /\ requests' = [requests EXCEPT ![Len(requests)].late = TRUE]
    /\ Judge("transient", Len(requests))
    /\ UNCHANGED <<call, calls, count>>

Client == Request \/ JoinReturns \/ TimesOut

CallNext ==
    \/ \E families \in Models : Chat(families)
    \/ \E families \in Sessions : Send(families)
    \/ Reset \/ ResetCallCount
    \/ Client
    \/ \E i \in DOMAIN requests : Answer(i)

CallSpec == CallInit /\ [][CallNext]_callVars

(* The calling thread runs and Thread.join returns after its timeout;      *)
(* nothing is assumed of the services.                                     *)
FairCallSpec == CallSpec /\ WF_callVars(Client)

-----------------------------------------------------------------------------
(* Properties.                                                             *)

Outcomes == {"ValueError", "EnvironmentError", "TypeError", "transient", "fatal"}

(* The loop variable stays below the attempts of the provider in use, and  *)
(* replies, turns and outcomes have their types.                           *)
CallTypeOK ==
    /\ phase \in {"idle", "attempt", "join"}
    /\ calls \in 0..MaxCalls /\ count \in 0..calls
    /\ phase # "idle" => attempt \in 0..(MaxRetries(call.provider) - 1)
    /\ \A i \in DOMAIN requests :
          requests[i].reply \in Replies \cup {None, "judged"} /\ requests[i].call \in 1..calls
    /\ \A i \in DOMAIN history :
          history[i].role \in {"user", "assistant"} /\ history[i].call \in 1..calls
    /\ outcome # None => outcome.ok \/ outcome.why \in Outcomes

(* A call returns the answer to its own last request, never one that an    *)
(* abandoned thread delivers late; in a conversation the answer stands     *)
(* directly after the turn that asked for it, failed turns before it       *)
(* included.                                                               *)
OwnReply ==
    /\ outcome # None /\ outcome.ok =>
          LET r == requests[outcome.by] IN Own(r) /\ ~r.late /\ outcome.by = Len(requests)
    /\ \A i \in DOMAIN history :
          history[i].role = "assistant" =>
              /\ i > 1 /\ history[i - 1].role = "user"
              /\ history[i - 1].call = history[i].call

Sent(n) == Cardinality({i \in DOMAIN requests : requests[i].call = n})

(* "6 retries gives up to ~7 minutes of wait before failing": a call never *)
(* sleeps longer than that, however errors and empty replies alternate,    *)
(* and a transient error reaches the caller only when all attempts the     *)
(* provider has are used up.                                               *)
RetriesWithinBudget ==
    /\ waited <= 7 * 60
    /\ call # None => (call.provider # None => Sent(calls) <= MaxRetries(call.provider))
    /\ outcome # None => (outcome.why = "transient" => Sent(calls) = MaxRetries(call.provider))

(* A call to Ollama returns or raises though the service never answers and *)
(* earlier requests still hang.                                            *)
BoundedCall == phase # "idle" /\ call.provider = "ollama" ~> phase = "idle"

-----------------------------------------------------------------------------
(* "An empty/whitespace-only response is also treated as transient ... On  *)
(* exhaustion the empty result is returned unchanged": an empty text is    *)
(* returned only after the last attempt.  Stripping the thinking block     *)
(* afterwards makes an empty reply of one the retry accepted.              *)
EmptyOnlyWhenExhausted ==
    outcome # None /\ outcome.ok =>
        (outcome.reply \in Empty \cup {"empty"} => Sent(calls) = MaxRetries(call.provider))

=============================================================================
