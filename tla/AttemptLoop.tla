------------------------------ MODULE AttemptLoop ------------------------------
(***************************************************************************)
(* One request of the public-data adapter with its bounded retries          *)
(* (civicgate/adapters/usaspending.py, USAspending._request).               *)
(*                                                                          *)
(* Each attempt may end without response headers, after them, or with a     *)
(* body; it leaves records, and the loop sleeps, returns or raises.  A      *)
(* response is told apart only by what the loop does next.  Time is counted *)
(* from the start of the call; every step may come up to Lag too late.      *)
(***************************************************************************)
EXTENDS Integers, Sequences, FiniteSetsExt

CONSTANTS MaxAttempts,      \* max_attempts
          AttemptTimeout,   \* ATTEMPT_TIMEOUT_SECONDS
          Backoff,          \* RETRY_BACKOFF_SECONDS
          Budget,           \* DEFAULT_RETRY_BUDGET_SECONDS
          Advices,          \* what a Retry-After header can say
          NoAdvice,         \* there is none, or it cannot be parsed
          Lag               \* bound: how late a timeout or a sleep can end

ASSUME AttemptAssumption == /\ MaxAttempts \in Nat \ {0}
                            /\ AttemptTimeout \in Nat \ {0}
                            /\ Backoff \in [1..MaxAttempts - 1 -> Nat]
                            /\ Budget \in Nat \ {0}
                            /\ Advices \subseteq Nat
                            /\ NoAdvice \notin Nat
                            /\ Lag \in Nat

VARIABLES attempt,      \* the loop variable
          elapsed,      \* monotonic() - started
          phase,        \* where the loop is
          deadline,     \* when the attempt's timeout or the sleep ends
          response,     \* the response bound in this attempt: its class
          retryAfter,   \* the parsed Retry-After of this attempt
          attempts,     \* the records
          result,       \* what _request() returned or raised
          requests,     \* history: attempts that entered the transport
          headers       \* history: attempts with response headers -> advice seen

loopVars == <<attempt, elapsed, phase, deadline, response, retryAfter, attempts, result,
              requests, headers>>

\* Status 429 or 5xx; another status or content that is refused; status 200 with JSON.
Responses == {"unavailable", "refused", "accepted"}
Results == {"TIMEOUT", "NETWORK_ERROR", "UPSTREAM_UNAVAILABLE", "REFUSED",
            "MALFORMED_RESPONSE", "OUTCOME", "CANCELLED"}

\* AttemptRecord.
Records == [attempt : 1..MaxAttempts,
            dispatch : {"REQUEST_CONFIRMED", "DISPATCH_UNKNOWN"},
            response : {"RESPONSE_RECEIVED", "TRANSPORT_ERROR"},
            retryAfter : Advices \cup {NoAdvice},
            decision : {"NONE", "RETRY_ALLOWED", "RETRY_BLOCKED"}]

LoopInit == /\ attempt = 1
            /\ elapsed = 0
            /\ phase = "top" /\ deadline = 0
            /\ response = "none" /\ retryAfter = NoAdvice
            /\ attempts = <<>>
            /\ result = "NONE"
            /\ requests = 0
            /\ headers = [a \in {} |-> NoAdvice]

-------------------------------------------------------------------------------
Block(records) == IF records = <<>> THEN records
                  ELSE [records EXCEPT ![Len(records)].decision = "RETRY_BLOCKED"]

\* _request() leaves with result r and the records.
Leave(r, records) == /\ phase' = "done"
                     /\ result' = r
                     /\ attempts' = records
                     /\ UNCHANGED deadline

\* The moments at which something that may happen by the deadline d is over.
Until(d) == elapsed..d + Lag

\* mutant: an attempt starts with what the previous one left behind
StartStale ==
    /\ phase = "top"
    /\ elapsed < Budget
    /\ phase' = "sent"
    /\ deadline' = elapsed + Min({AttemptTimeout, Budget - elapsed})
    /\ requests' = requests + 1
    /\ UNCHANGED <<attempt, elapsed, response, retryAfter, attempts, result, headers>>

\* mutant: every attempt has the full timeout
StartUnbudgeted ==
    /\ phase = "top"
    /\ elapsed < Budget
    /\ phase' = "sent"
    /\ response' = "none" /\ retryAfter' = NoAdvice
    /\ deadline' = elapsed + AttemptTimeout
    /\ requests' = requests + 1
    /\ UNCHANGED <<attempt, elapsed, attempts, result, headers>>

\* An attempt starts and enters the transport.
Start ==
    /\ phase = "top"
    /\ elapsed < Budget
    /\ phase' = "sent"
    /\ response' = "none" /\ retryAfter' = NoAdvice
    /\ deadline' = elapsed + Min({AttemptTimeout, Budget - elapsed})
    /\ requests' = requests + 1
    /\ UNCHANGED <<attempt, elapsed, attempts, result, headers>>

\* mutant: the pending retry of the previous record is left as it was
ExhaustedSilently ==
    /\ phase = "top"
    /\ elapsed >= Budget
    /\ Leave("UPSTREAM_UNAVAILABLE", attempts)
    /\ UNCHANGED <<attempt, elapsed, response, retryAfter, requests, headers>>

\* mutant: the attempt that the budget prevented is recorded as well
ExhaustedRecorded ==
    /\ phase = "top"
    /\ elapsed >= Budget
    /\ Leave("UPSTREAM_UNAVAILABLE",
             Append(attempts, [attempt |-> attempt, dispatch |-> "DISPATCH_UNKNOWN",
                               response |-> "TRANSPORT_ERROR", retryAfter |-> NoAdvice,
                               decision |-> "RETRY_BLOCKED"]))
    /\ UNCHANGED <<attempt, elapsed, response, retryAfter, requests, headers>>

\* The budget is gone before the attempt entered the transport: no record of it, and the
\* pending retry of the previous one is what was blocked.
Exhausted ==
    /\ phase = "top"
    /\ elapsed >= Budget
    /\ Leave("UPSTREAM_UNAVAILABLE", Block(attempts))
    /\ UNCHANGED <<attempt, elapsed, response, retryAfter, requests, headers>>

\* Response headers arrive; Retry-After is read of a retryable status only.
Headers(kind, advice, t) ==
    /\ phase = "sent"
    /\ kind # "unavailable" => advice = NoAdvice
    /\ phase' = "answered"
    /\ elapsed' = t
    /\ response' = kind
    /\ retryAfter' = advice
    /\ headers' = [a \in DOMAIN headers \cup {attempt} |->
                      IF a = attempt THEN advice ELSE headers[a]]
    /\ UNCHANGED <<attempt, deadline, attempts, result, requests>>

-------------------------------------------------------------------------------
\* The record of this attempt.
Record(state, advice, decision) ==
    [attempt |-> attempt,
     dispatch |-> IF response = "none" THEN "DISPATCH_UNKNOWN" ELSE "REQUEST_CONFIRMED",
     response |-> state, retryAfter |-> advice, decision |-> decision]

Pending == IF attempt < MaxAttempts THEN "RETRY_ALLOWED" ELSE "RETRY_BLOCKED"

\* A retryable failure r at time t, recorded: the loop sleeps for the delay unless this
\* was the last attempt or the sleep would end beyond the budget.
Retry(r, record, delay, t) ==
    /\ elapsed' = t
    /\ IF attempt = MaxAttempts THEN Leave(r, Append(attempts, record))
       ELSE IF t + delay[attempt] >= Budget THEN Leave(r, Block(Append(attempts, record)))
       ELSE /\ phase' = "asleep"
            /\ deadline' = t + delay[attempt]
            /\ attempts' = Append(attempts, record)
            /\ UNCHANGED result
    /\ UNCHANGED <<attempt, response, retryAfter, requests, headers>>

Advised == [a \in DOMAIN Backoff |-> IF retryAfter = NoAdvice THEN Backoff[a] ELSE retryAfter]

\* A timeout of the client or of the attempt, before or after the headers.
TimedOut(t) ==
    /\ phase \in {"sent", "answered"}
    /\ Retry("TIMEOUT", Record("TRANSPORT_ERROR", retryAfter, Pending), Advised, t)

\* A network error; its record and its delay disregard Retry-After.
Broken(t) ==
    /\ phase \in {"sent", "answered"}
    /\ Retry("NETWORK_ERROR", Record("TRANSPORT_ERROR", NoAdvice, Pending), Backoff, t)

\* 429 or 5xx.
Unavailable(t) ==
    /\ phase = "answered" /\ response = "unavailable"
    /\ Retry("UPSTREAM_UNAVAILABLE", Record("RESPONSE_RECEIVED", retryAfter, Pending), Advised, t)

\* The end of the call with result r at time t, with records appended.
Conclude(r, records, t) ==
    /\ elapsed' = t
    /\ Leave(r, attempts \o records)
    /\ UNCHANGED <<attempt, response, retryAfter, requests, headers>>

\* Another status, another content type, or a body beyond MAX_BYTES.
Refuse(t) ==
    /\ phase = "answered" /\ response \in {"refused", "accepted"}
    /\ Conclude("REFUSED", <<Record("RESPONSE_RECEIVED", NoAdvice, "NONE")>>, t)

\* The body is JSON.
Succeed(t) ==
    /\ phase = "answered" /\ response = "accepted"
    /\ Conclude("OUTCOME", <<Record("RESPONSE_RECEIVED", NoAdvice, "NONE")>>, t)

\* The body is not JSON: the success is recorded before the body is parsed, and the error
\* this raises is recorded by its handler as well.
Malformed(t) ==
    /\ phase = "answered" /\ response = "accepted"
    /\ LET record == Record("RESPONSE_RECEIVED", NoAdvice, "NONE")
       IN  Conclude("MALFORMED_RESPONSE", <<record, record>>, t)

\* The sleep is over.
Wake(t) ==
    /\ phase = "asleep"
    /\ t >= deadline
    /\ phase' = "top"
    /\ elapsed' = t
    /\ attempt' = attempt + 1
    /\ UNCHANGED <<deadline, response, retryAfter, attempts, result, requests, headers>>

\* The caller's task is cancelled at an await: nothing is recorded or returned.
Cancel(t) ==
    /\ phase \in {"sent", "answered", "asleep"}
    /\ Conclude("CANCELLED", <<>>, t)

LoopNext == \/ Start
            \/ Exhausted
            \/ \E kind \in Responses, advice \in Advices \cup {NoAdvice},
                  t \in elapsed..deadline : Headers(kind, advice, t)
            \/ \E t \in Until(deadline) : \/ TimedOut(t) \/ Broken(t) \/ Unavailable(t)
                                          \/ Refuse(t) \/ Succeed(t) \/ Malformed(t)
                                          \/ Wake(t) \/ Cancel(t)

LoopSpec == LoopInit /\ [][LoopNext]_loopVars

-------------------------------------------------------------------------------
\* Every variable keeps its range; no call makes more than max_attempts requests.
LoopTypeOK == /\ attempt \in 1..MaxAttempts
              /\ elapsed \in Nat /\ deadline \in Nat
              /\ phase \in {"top", "sent", "answered", "asleep", "done"}
              /\ response \in Responses \cup {"none"}
              /\ retryAfter \in Advices \cup {NoAdvice}
              /\ attempts \in Seq(Records)
              /\ result \in Results \cup {"NONE"}
              /\ requests \in 0..MaxAttempts
              /\ DOMAIN headers \subseteq 1..requests

\* The call returned or raised, and was not cancelled.
Completed == phase = "done" /\ result # "CANCELLED"

\* Every request that entered the transport is on record, and nothing else: an attempt
\* the budget prevented leaves no record (the comment at the top of the loop).
RecordedAreRequested ==
    /\ LoopTypeOK
    /\ Completed => {attempts[i].attempt : i \in DOMAIN attempts} = 1..requests

\* A record speaks of its own attempt: the request is confirmed if and only if this
\* attempt saw response headers, and the Retry-After in it is one this attempt received.
RecordsAreTheirOwn ==
    \A i \in DOMAIN attempts :
        LET r == attempts[i] IN
        /\ r.dispatch = "REQUEST_CONFIRMED" <=> r.attempt \in DOMAIN headers
        /\ r.retryAfter # NoAdvice =>
             r.attempt \in DOMAIN headers /\ r.retryAfter = headers[r.attempt]

\* A retry that a record announces really happened, unless the call was cancelled.
AnnouncedRetriesHappen ==
    Completed => \A i \in DOMAIN attempts :
                    attempts[i].decision = "RETRY_ALLOWED" <=> attempts[i].attempt < requests

\* However attempts, delays and Retry-After add up, the call is over within the budget,
\* but for the lateness of the timer that ends it.
OverInBudget == elapsed <= Budget + Lag

\* One record per request sent, as attempt_count is read by the evidence console.
OneRecordPerRequest == Completed => Len(attempts) = requests
===============================================================================
