--------------------------- MODULE UploadProtocol ---------------------------
(***************************************************************************)
(* uploadToS3 (internal/telemetry/telemetry.go): ask the backend for a     *)
(* presigned URL, PUT the payload, verify a 200 that does not come from    *)
(* S3, notify the backend, each with its own bounded retries, over a       *)
(* network that loses requests and answers, and under a context that may   *)
(* expire.  The proxy, S3 and the backend are external.                    *)
(***************************************************************************)
EXTENDS Integers

CONSTANT Networks   \* what stands between the agent and S3: sets of perils

Perils == {
    "proxy",      \* something may answer 200 in place of S3
    "oldBackend"} \* the backend has no confirm-upload route

UploadAssumption == Networks \subseteq SUBSET Perils

uploadURLAttempts == 3
maxRetries        == 3
notifyAttempts    == 2

VARIABLES
    perils,    \* what stands between this agent and S3
    pc,        \* the request in progress, or "done"
    attempt,   \* which try of it this is
    expired,   \* the phase context is done
    object,    \* S3 holds the payload
    inFlight,  \* a body the agent stopped waiting for may still land
    stored,    \* the backend persisted it
    answer     \* what uploadToS3 returns, "none" until it does

vars == <<perils, pc, attempt, expired, object, inFlight, stored, answer>>

Init ==
    /\ perils \in Networks
    /\ pc = "url" /\ attempt = 1 /\ expired = FALSE
    /\ object = FALSE /\ inFlight = FALSE /\ stored = FALSE /\ answer = "none"

Goto(step)  == pc' = step /\ attempt' = 1 /\ UNCHANGED answer
Return(a)   == pc' = "done" /\ attempt' = attempt /\ answer' = a

(* A failed try waits out a backoff and tries again, unless it was the     *)
(* last one; a context that is done ends the wait.                         *)
RetryOnceMore(step, limit) ==                               \* mutant
    \/ attempt <= limit /\ pc' = step /\ attempt' = attempt + 1 /\ UNCHANGED answer
    \/ (attempt > limit \/ expired) /\ Return("error")
RetryUncounted(step, limit) ==                              \* mutant
    \/ attempt < limit /\ pc' = step /\ UNCHANGED <<attempt, answer>>
    \/ (attempt = limit \/ expired) /\ Return("error")
RetryOrFail(step, limit) ==
    \/ attempt < limit /\ pc' = step /\ attempt' = attempt + 1 /\ UNCHANGED answer
    \/ (attempt = limit \/ expired) /\ Return("error")

Expire ==
    /\ pc # "done" /\ ~expired
    /\ expired' = TRUE
    /\ UNCHANGED <<perils, pc, attempt, object, inFlight, stored, answer>>

-----------------------------------------------------------------------------
\* Any transport error is final once the context is done; a 4xx or an empty
\* URL always is.
RequestURL(reply) ==
    /\ pc = "url"
    /\ reply = "ok" => ~expired
    /\ CASE reply = "ok"      -> Goto("put")
         [] reply = "refused" -> Return("error")
         [] reply = "lost"    -> IF expired THEN Return("error")
                                 ELSE RetryOrFail("url", uploadURLAttempts)
         [] reply = "broken"  -> RetryOrFail("url", uploadURLAttempts)
    /\ UNCHANGED <<perils, expired, object, inFlight, stored>>

(* What a PUT does to the bucket: a lost one may have landed, may still     *)
(* land, or never will; a proxy forwards the body or swallows it.          *)
Deliver(reply) ==
    CASE reply = "ok"    -> object' = TRUE /\ UNCHANGED inFlight
      [] reply = "error" -> UNCHANGED <<object, inFlight>>
      [] reply = "proxy" -> object' \in {object, TRUE} /\ UNCHANGED inFlight
      [] reply = "lost"  -> \/ object' \in {object, TRUE} /\ UNCHANGED inFlight
                            \/ inFlight' = TRUE /\ UNCHANGED object

Land ==
    /\ inFlight
    /\ object' = TRUE /\ inFlight' = FALSE
    /\ UNCHANGED <<perils, pc, attempt, expired, stored, answer>>

\* The PUT itself: S3 answers 200, S3 answers an error, the answer is lost
\* with or without the body having landed, or a proxy answers 200.
PutTrusting(reply) ==                                       \* mutant
    /\ pc = "put"
    /\ reply = "ok" => ~expired
    /\ reply = "proxy" => "proxy" \in perils /\ ~expired
    /\ CASE reply \in {"ok", "proxy"} -> Goto("notify")
         [] OTHER          -> RetryOrFail("put", maxRetries)
    /\ Deliver(reply)
    /\ UNCHANGED <<perils, expired, stored>>
Put(reply) ==
    /\ pc = "put"
    /\ reply = "ok" => ~expired
    /\ reply = "proxy" => "proxy" \in perils /\ ~expired
    /\ CASE reply = "ok"    -> Goto("notify")
         [] reply = "proxy" -> pc' = "confirm" /\ UNCHANGED <<attempt, answer>>
         [] OTHER           -> RetryOrFail("put", maxRetries)
    /\ Deliver(reply)
    /\ UNCHANGED <<perils, expired, stored>>

\* checkUploadInS3, asked only about a 200 without AWS request ids.
Confirm(reply) ==
    /\ pc = "confirm"
    /\ reply = "confirmed"   => "oldBackend" \notin perils /\ object /\ ~expired
    /\ reply = "missing"     => "oldBackend" \notin perils /\ ~object /\ ~expired
    /\ reply = "unsupported" => "oldBackend" \in perils /\ ~expired
    /\ IF reply \in {"confirmed", "unsupported"}
       THEN Goto("notify")
       ELSE RetryOrFail("put", maxRetries)
    /\ UNCHANGED <<perils, expired, object, inFlight, stored>>

(* process-uploaded: the backend persists the payload, leaves it queued,   *)
(* or refuses it, and its answer arrives, is a 5xx, is lost, or is a 4xx.  *)
Ingest(status) ==
    CASE status = "processed" -> object /\ stored' = TRUE
      [] status = "rejected"  -> ~stored /\ stored' = FALSE
      [] OTHER                -> stored' \in {stored, object}

NotifyAnswered(status) ==
    /\ pc = "notify" /\ ~expired
    /\ Ingest(status)
    /\ Return(status)
    /\ UNCHANGED <<perils, expired, object, inFlight>>

NotifyFailsOnce(reply) ==                                   \* mutant
    /\ pc = "notify"
    /\ reply \in {"5xx", "4xx"} => ~expired
    /\ Return("rejected")
    /\ Ingest("queued")
    /\ UNCHANGED <<perils, expired, object, inFlight>>
NotifyFails(reply) ==
    /\ pc = "notify"
    /\ reply \in {"5xx", "4xx"} => ~expired
    /\ IF reply = "4xx" \/ (reply = "lost" /\ expired)
       THEN Return("error")
       ELSE RetryOrFail("notify", notifyAttempts)
    /\ Ingest("queued")
    /\ UNCHANGED <<perils, expired, object, inFlight>>

Step ==
    \/ \E r \in {"ok", "refused", "lost", "broken"} : RequestURL(r)
    \/ \E r \in {"ok", "error", "lost", "proxy"} : Put(r)
    \/ \E r \in {"confirmed", "missing", "unsupported", "indeterminate"} : Confirm(r)
    \/ \E s \in {"processed", "queued", "rejected"} : NotifyAnswered(s)
    \/ \E r \in {"5xx", "4xx", "lost"} : NotifyFails(r)

\* External: a queued payload may still be persisted later.
LateStore ==
    /\ pc = "done" /\ answer \in {"queued", "error"} /\ object /\ ~stored
    /\ stored' = TRUE
    /\ UNCHANGED <<perils, pc, attempt, expired, object, inFlight, answer>>

Next == Expire \/ Step \/ Land \/ LateStore

(* Every request carries a client timeout, so the call in progress ends.   *)
Spec == Init /\ [][Next]_vars /\ WF_vars(Step)
-----------------------------------------------------------------------------
(* Properties.                                                             *)

TypeOK ==
    /\ perils \in Networks
    /\ pc \in {"url", "put", "confirm", "notify", "done"}
    /\ attempt \in 1 .. (CASE pc = "url"    -> uploadURLAttempts
                           [] pc = "notify" -> notifyAttempts
                           [] OTHER         -> maxRetries)
    /\ {expired, object, inFlight, stored} \subseteq BOOLEAN
    /\ answer \in {"none", "processed", "queued", "rejected", "error"}
    /\ answer = "none" <=> pc # "done"

\* The agent never reports an upload whose body did not reach S3, however a
\* proxy answers in S3's place, if the backend can be asked
\* (telemetry.go:1731-1770).
UploadedMeansObject ==
    "oldBackend" \notin perils =>
        (pc = "notify" \/ answer \in {"processed", "queued", "rejected"} => object)

\* The caller may conclude exactly what UploadOutcome promises: a refusal is
\* reported only of a payload that was never stored, however many of the
\* notifications before it were lost.
Outcome == INSTANCE UploadOutcome
ImplementsOutcome == Outcome!Spec

\* Every upload ends, even one whose context never expires.
Terminates == <>(pc = "done")
=============================================================================
