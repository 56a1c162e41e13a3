------------------------------ MODULE MistWrites ------------------------------
\* One write sent to Mist, with its retries (integrations/mist_mutation.py).
\*
\* Mist may apply a request and lose its answer.  What the client reports is
\* all a restore knows of it: done, refused, or possibly applied.
EXTENDS Integers

CONSTANT MAX_ATTEMPTS

VARIABLES
    method,
    there,      \* the object targeted exists
    applied,    \* how often Mist applied the write
    attempt,    \* the attempt being made, 0 once the client has answered
    ambiguous,  \* an earlier attempt may have been applied
    outcome     \* what the client answers

vars == <<method, there, applied, attempt, ambiguous, outcome>>

Init ==
    /\ method \in {"POST", "PUT", "DELETE"}
    /\ there \in IF method = "POST" THEN {FALSE} ELSE BOOLEAN
    /\ applied = 0 /\ attempt = 1 /\ ambiguous = FALSE /\ outcome = "none"

------------------------
\* What Mist does with a request, and what reaches the client.
Possible == method = "POST" \/ there
Apply ==
    /\ Possible
    /\ applied' = applied + 1
    /\ there' = (method # "DELETE")
Ignore == UNCHANGED <<there, applied>>

_RETRYABLE_STATUSES == {"429", "502"}
\* "lost": the transport failed; "unusable": another protocol error; "garbled":
\* an accepted write answered without the JSON expected of it.
Mist(answer) ==
    CASE answer \in {"200", "garbled"} -> Apply
      [] answer \in {"lost", "unusable", "500", "502"} -> Apply \/ Ignore
      [] answer = "404" -> ~Possible /\ Ignore
      [] answer \in {"400", "429"} -> Ignore
Answers == {"200", "garbled", "lost", "unusable", "500", "502", "404", "400", "429"}

------------------------
\* _send, and the method that reads its answer.
RetriesSlip(answer) ==
    /\ attempt < MAX_ATTEMPTS
    /\ answer \in _RETRYABLE_STATUSES \union {"lost"}
Retries(answer) ==
    /\ attempt < MAX_ATTEMPTS
    /\ IF method = "POST" THEN answer = "429" ELSE answer \in _RETRYABLE_STATUSES \union {"lost"}

DoubtSlip(answer) == answer = "lost"
Doubt(answer) == answer \in {"lost", "502"}

\* _response_payload; delete takes a 404 after a doubtful attempt for its own.
Reported(answer) ==
    CASE answer = "200" -> "done"
      [] answer = "404" /\ method = "DELETE" /\ ambiguous -> "done"
      [] answer \in {"lost", "unusable", "garbled", "500", "502"} -> "unknown"
      [] OTHER -> IF ambiguous THEN "unknown" ELSE "refused"

Send(answer) ==
    /\ attempt > 0
    /\ Mist(answer)
    /\ IF Retries(answer)
       THEN /\ attempt' = attempt + 1
            /\ ambiguous' = (ambiguous \/ Doubt(answer))
            /\ UNCHANGED outcome
       ELSE /\ attempt' = 0 /\ outcome' = Reported(answer)
            /\ UNCHANGED ambiguous
    /\ UNCHANGED method

Next == \E answer \in Answers : Send(answer)
Spec == Init /\ [][Next]_vars

------------------------
\* Properties.
TypeOK ==
    /\ applied \in 0 .. MAX_ATTEMPTS /\ attempt \in 0 .. MAX_ATTEMPTS
    /\ outcome \in {"none", "done", "refused", "unknown"} /\ (outcome = "none" <=> attempt > 0)

\* However its attempts end, one create makes one object (_send retries a POST
\* only where Mist says it did not process it).
CreatedOnce == method = "POST" => applied <= 1

\* A write reported refused was not applied by any attempt, and one reported
\* done holds in Mist: only what is reported unknown leaves a doubt
\* (outcome_unknown).
TheAnswerIsTrue ==
    /\ outcome = "refused" => applied = 0
    /\ outcome = "done" => IF method = "DELETE" THEN ~there ELSE applied > 0
=============================================================================
