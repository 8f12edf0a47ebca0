---------------------------- MODULE BeaconClient ----------------------------
(***************************************************************************)
(* One request of the Beacon API client (client.go, appended to            *)
(* src/internal/beacon/duties.go) with the Backoff it uses                 *)
(* (src/pkg/backoff/backoff.go).                                           *)
(*                                                                         *)
(* A GET runs doRequest: a loop of at most maxRetries + 1 attempts, each   *)
(* waiting on the rate limiter, sending, and classifying the answer, with  *)
(* a Backoff wait before every retry.  A POST runs doRequestWithBody: one  *)
(* attempt.  The server answers each attempt with a transport error, a     *)
(* status code, or a 200 whose body may fail to decode; the root context   *)
(* may be cancelled at any time.  The rate limiter                         *)
(* (golang.org/x/time/rate) is abstracted to "Wait returns at once, or     *)
(* fails once the context is cancelled".  Delays are in milliseconds; the  *)
(* jitter factor rand.Float64() is represented by a small set of its       *)
(* values, in percent.                                                     *)
(***************************************************************************)
EXTENDS Naturals, Sequences, SequencesExt

CONSTANTS
    MaxRetries,     \* c.maxRetries = cfg.ScyllaDB.MaxRetries (default 3)
    Statuses,       \* HTTP status codes the server may answer with
    InitialDelay,   \* DefaultConfig().InitialDelay in ms (100)
    MaxDelay,       \* DefaultConfig().MaxDelay in ms (30000)
    Multiplier,     \* DefaultConfig().Multiplier (2.0)
    JitterPercents  \* values of 1 + (2*rand.Float64()-1)*0.2, in percent

ASSUME MaxRetries \in Nat
ASSUME 200 \in Statuses

VARIABLES
    method,      \* "GET" (doRequest) or "POST" (doRequestWithBody)
    pc,          \* "limiter", "send", "backoff", "sleep" or "done"
    attempt,     \* the loop variable of doRequest
    boAttempts,  \* b.attempts of the Backoff created by doRequest
    delay,       \* the delay NextDelay returned for the current sleep
    cancelled,   \* ctx.Done() is ready
    result,      \* what the call returned, "none" while it runs
    answers,     \* history: the server's answer to every attempt
    waits,       \* history: the delay of every completed backoff wait
    bodies       \* response bodies whose deferred Close waits for the return:
                 \* "eof" (read to the end) or "unread"

vars == <<method, pc, attempt, boAttempts, delay, cancelled, result, answers, waits, bodies>>

(* Answers of one attempt: a transport error (resp is nil), or a status    *)
(* with a body that decodes or not (only a 200 body is ever decoded).      *)
TransportError == [err |-> TRUE, status |-> 0, decodes |-> FALSE]

Reply(status, decodes) == [err |-> FALSE, status |-> status, decodes |-> decodes]

Answers == {TransportError} \cup {Reply(s, s = 200) : s \in Statuses} \cup {Reply(200, FALSE)}

(* Values of result: nil, or the error doRequest/doRequestWithBody wraps.  *)
Results == {"ok", "limiter", "transport", "retryable", "status", "decode", "cancelled"}

-----------------------------------------------------------------------------
(* Backoff (backoff.go).                                                   *)

(* Seeded fault for RetriesOnlyTransient: every 5xx is taken as transient. *)
ShouldRetryAny5xx(status) == status = 429 \/ status >= 500

(* ShouldRetry: 429 Too Many Requests and 503 Service Unavailable.         *)
ShouldRetry(status) == status \in {429, 503}

(* Seeded fault for BackoffSchedule: the exponent is one ahead of the      *)
(* attempt counter.                                                        *)
NextDelayAhead(jitter) ==
    IF boAttempts = 0 THEN InitialDelay
    ELSE LET d == (InitialDelay * Multiplier^(boAttempts + 1) * jitter) \div 100
         IN  IF d > MaxDelay THEN MaxDelay ELSE d

(* NextDelay: InitialDelay on the first call, afterwards                   *)
(* InitialDelay * Multiplier^attempts * jitter capped at MaxDelay;         *)
(* time.Duration(delay) truncates.                                         *)
NextDelay(jitter) ==
    IF boAttempts = 0 THEN InitialDelay
    ELSE LET d == (InitialDelay * Multiplier^boAttempts * jitter) \div 100
         IN  IF d > MaxDelay THEN MaxDelay ELSE d

-----------------------------------------------------------------------------
(* doRequest (GET).                                                        *)

(* A return runs every deferred resp.Body.Close().                        *)
Return(res) ==
    /\ pc' = "done"
    /\ result' = res
    /\ bodies' = << >>

(* c.limiter.Wait(ctx): fails with the context's error once cancelled.     *)
LimiterWait ==
    /\ pc = "limiter"
    /\ IF cancelled THEN Return("limiter") ELSE pc' = "send" /\ UNCHANGED <<result, bodies>>
    /\ UNCHANGED <<method, attempt, boAttempts, delay, cancelled, answers, waits>>

(* Seeded fault for TypeOK: the attempts-left test is off by one.          *)
RetryOrOneMore(res) ==
    IF attempt <= MaxRetries THEN pc' = "backoff" /\ UNCHANGED result
    ELSE Return(res)

(* Retry after a failed attempt if attempts remain, else return res.       *)
RetryOr(res) ==
    IF attempt < MaxRetries THEN pc' = "backoff" /\ UNCHANGED result
    ELSE Return(res)

(* Seeded fault for ResultMatchesAnswers: the status is tested for 200     *)
(* before the retryable statuses.                                          *)
ClassifyStatusFirst(ans) ==
    CASE ans.err                -> RetryOr("transport")
      [] ans.status # 200       -> Return("status")
      [] ShouldRetry(ans.status) -> RetryOr("retryable")
      [] ~ans.decodes           -> Return("decode")
      [] OTHER                  -> Return("ok")

(* The answer to an attempt, in the order doRequest tests it: a transport  *)
(* error is retried, then a 429/503 is retried, then any other non-200     *)
(* fails, then the body is decoded.                                        *)
Classify(ans) ==
    CASE ans.err                -> RetryOr("transport")
      [] ShouldRetry(ans.status) -> RetryOr("retryable")
      [] ans.status # 200       -> Return("status")
      [] ~ans.decodes           -> Return("decode")
      [] OTHER                  -> Return("ok")

(* Seeded fault for NoConnectionHeldAcrossRetry: the 429/503 body is not  *)
(* read before the retry.                                                  *)
RetainedBodyUnread(ans) == IF ans.err THEN << >> ELSE << "unread" >>

(* The body an attempt that is retried leaves behind: none after a         *)
(* transport error (resp is nil); after a 429/503, defer resp.Body.Close() *)
(* and io.ReadAll(resp.Body) for the error message, so the body is at EOF. *)
RetainedBody(ans) ==
    IF ans.err THEN << >>
    ELSE << IF ShouldRetry(ans.status) THEN "eof" ELSE "unread" >>

(* c.httpClient.Do(req): once the context is cancelled the request is not  *)
(* sent and Do fails.                                                      *)
SendGet ==
    /\ method = "GET"
    /\ pc = "send"
    /\ \E ans \in IF cancelled THEN {TransportError} ELSE Answers :
          /\ answers' = Append(answers, ans)
          /\ Classify(ans)
          /\ pc' # "done" => bodies' = bodies \o RetainedBody(ans)
    /\ UNCHANGED <<method, attempt, boAttempts, delay, cancelled, waits>>

(* b.Wait(ctx), first half: NextDelay and time.NewTimer.                   *)
BackoffStart ==
    /\ pc = "backoff"
    /\ \E jitter \in JitterPercents : delay' = NextDelay(jitter)
    /\ boAttempts' = boAttempts + 1
    /\ pc' = "sleep"
    /\ UNCHANGED <<method, attempt, cancelled, result, answers, waits, bodies>>

(* select case <-timer.C: the wait completes and the loop continues.       *)
BackoffFired ==
    /\ pc = "sleep"
    /\ waits' = Append(waits, delay)
    /\ attempt' = attempt + 1
    /\ pc' = "limiter"
    /\ UNCHANGED <<method, boAttempts, delay, cancelled, result, answers, bodies>>

(* select case <-ctx.Done(): doRequest returns ctx.Err().                  *)
BackoffCancelled ==
    /\ pc = "sleep"
    /\ cancelled
    /\ Return("cancelled")
    /\ UNCHANGED <<method, attempt, boAttempts, delay, cancelled, answers, waits>>

-----------------------------------------------------------------------------
(* doRequestWithBody (POST): one attempt, no retry.                        *)

SendPost ==
    /\ method = "POST"
    /\ pc = "send"
    /\ \E ans \in IF cancelled THEN {TransportError} ELSE Answers :
          /\ answers' = Append(answers, ans)
          /\ Return(CASE ans.err          -> "transport"
                      [] ans.status # 200 -> "status"
                      [] ~ans.decodes     -> "decode"
                      [] OTHER            -> "ok")
    /\ UNCHANGED <<method, attempt, boAttempts, delay, cancelled, waits>>

-----------------------------------------------------------------------------

(* The caller's context is cancelled (shutdown).                           *)
Cancel ==
    /\ ~cancelled
    /\ cancelled' = TRUE
    /\ UNCHANGED <<method, pc, attempt, boAttempts, delay, result, answers, waits, bodies>>

(* The call has returned; the caller goes on with its result.              *)
Returned ==
    /\ pc = "done"
    /\ UNCHANGED vars

Init ==
    /\ method \in {"GET", "POST"}
    /\ pc = "limiter"
    /\ attempt = 0
    /\ boAttempts = 0
    /\ delay = 0
    /\ cancelled = FALSE
    /\ result = "none"
    /\ answers = << >>
    /\ waits = << >>
    /\ bodies = << >>

Next ==
    \/ LimiterWait \/ SendGet \/ SendPost
    \/ BackoffStart \/ BackoffFired \/ BackoffCancelled
    \/ Cancel \/ Returned

Spec == Init /\ [][Next]_vars

-----------------------------------------------------------------------------
(* Properties.                                                             *)

TypeOK ==
    /\ method \in {"GET", "POST"}
    /\ pc \in {"limiter", "send", "backoff", "sleep", "done"}
    /\ attempt \in 0..MaxRetries
    /\ boAttempts \in 0..MaxRetries
    /\ delay \in 0..MaxDelay
    /\ cancelled \in BOOLEAN
    /\ result \in Results \cup {"none"}
    /\ answers \in Seq(Answers)
    /\ waits \in Seq(0..MaxDelay)

(* Spec 4.1: exactly 429 and 503 are retryable statuses.                   *)
RetryableStatuses == {429, 503}

Retryable(ans) == ans.err \/ ans.status \in RetryableStatuses

(* Retry policy (doRequest 135-171, doRequestWithBody): a GET is sent      *)
(* again only after a transport error or a 429/503, never after another    *)
(* status or a body that failed to decode; a POST is sent at most once.    *)
RetriesOnlyTransient ==
    /\ \A i \in 1..(Len(answers) - 1) : Retryable(answers[i])
    /\ method = "POST" => Len(answers) <= 1

(* When doRequest or doRequestWithBody returns, its result is the one the  *)
(* last answer calls for: nil only after a 200 that decoded; a status      *)
(* error only after a non-200 status (for a GET, not 429/503); a retryable or transport error *)
(* only after such an answer, and for a GET only once every attempt was    *)
(* used; a cancellation only while waiting between attempts.               *)
ResultMatchesAnswers ==
    pc = "done" =>
        CASE result = "ok"        -> answers # << >> /\ Last(answers) = Reply(200, TRUE)
          [] result = "decode"    -> answers # << >> /\ Last(answers) = Reply(200, FALSE)
          [] result = "status"    -> answers # << >> /\ ~Last(answers).err
                                     /\ Last(answers).status # 200
                                     /\ (method = "GET" => Last(answers).status \notin RetryableStatuses)
          [] result = "retryable" -> answers # << >> /\ Last(answers).status \in RetryableStatuses
                                     /\ Len(answers) = MaxRetries + 1
          [] result = "transport" -> answers # << >> /\ Last(answers).err
                                     /\ (method = "GET" => Len(answers) = MaxRetries + 1)
          [] result = "cancelled" -> method = "GET" /\ cancelled
                                     /\ Len(answers) = Len(waits) + 1
          [] result = "limiter"   -> cancelled
          [] OTHER                -> FALSE

(* Backoff schedule (spec 4.1 and scenario 5): the first wait between      *)
(* attempts is InitialDelay exactly; the n-th later one lies within the    *)
(* +/-20% jitter band around InitialDelay * Multiplier^n, capped at        *)
(* MaxDelay.                                                               *)
BackoffSchedule ==
    \A i \in DOMAIN waits :
        IF i = 1 THEN waits[i] = InitialDelay
        ELSE LET nominal == InitialDelay * Multiplier^(i - 1)
                 low == (nominal * 80) \div 100
                 high == (nominal * 120) \div 100
             IN  waits[i] \in (IF low > MaxDelay THEN {MaxDelay}
                               ELSE low..(IF high > MaxDelay THEN MaxDelay ELSE high))

(* Each retried attempt leaves its response body open until doRequest     *)
(* returns (defer inside the loop).  While the call is still under way --  *)
(* backing off, at the rate limiter, sending the next attempt -- every     *)
(* body it holds has been read to EOF, so its connection is back in the    *)
(* transport's pool rather than held across the wait.                      *)
NoConnectionHeldAcrossRetry ==
    pc # "done" => \A k \in DOMAIN bodies : bodies[k] = "eof"

(* Spec 4.2: GET requests are sent "up to max_retries attempts".           *)
AttemptsWithinMaxRetries == Len(answers) <= MaxRetries

=============================================================================
