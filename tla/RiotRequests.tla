----------------------------- MODULE RiotRequests -----------------------------
(***************************************************************************)
(* One call of the Riot client, internal/riot/client.go get, and what the  *)
(* importer makes of the error it returns: which answers are retried in    *)
(* place, which end the call, which stop the batch, and when the job may   *)
(* be tried again.  Pure: no state is kept between calls.                  *)
(*                                                                         *)
(* Abstractions: of a Retry-After header, what it parses to; of a body     *)
(* only whether it could be read, and was not too long; a document that    *)
(* does not decode is "malformed".  A duration is a signed integer with a  *)
(* width, and only the product of parseRetryAfter can leave it: RetryDelay *)
(* doubles nothing that is above half of MaxRetryWait.                     *)
(***************************************************************************)
EXTENDS Integers

CONSTANTS
  Second,          \* time.Second, in the unit of durations
  MaxDuration,     \* the largest time.Duration, math.MaxInt64
  MaxAttempts,     \* 3 unless NewClient is told otherwise
  RetryBaseDelay,  \* 200 ms
  MaxRetryWait,    \* 5 s
  PollInterval     \* of the settings; 0 without polling

Minute == 60 * Second

Limits ==
  /\ Second \in Nat \ {0}
  /\ MaxDuration \in Nat /\ Minute <= MaxDuration
  /\ MaxAttempts \in Nat \ {0}
  /\ RetryBaseDelay \in 1..MaxDuration
  /\ MaxRetryWait \in 1..MaxDuration
  /\ PollInterval \in 0..MaxDuration

-----------------------------------------------------------------------------
(* What a Retry-After header holds: an integer, a date, given by its time  *)
(* from now, or nothing that parses as either.                             *)
Header == [form : {"seconds", "date", "none"}, value : Int]

(* A product of int64s: its value modulo two to the width, signed. *)
Wrapped(x) == ((x + MaxDuration + 1) % (2 * (MaxDuration + 1))) - (MaxDuration + 1)

(* The second result of parseRetryAfter. *)
HasDelay(h) == h.form = "date" \/ (h.form = "seconds" /\ h.value >= 0)

ParseRetryAfter(h) ==
  IF ~HasDelay(h) THEN 0
  ELSE IF h.form = "seconds" THEN Wrapped(h.value * Second)
  ELSE IF h.value < 0 THEN 0
  ELSE IF h.value > MaxDuration THEN MaxDuration ELSE h.value

(* Status 0: no response. *)
Answer == [status : Nat, cancelled : BOOLEAN, header : Header,
           body : {"whole", "malformed", "cut", "large"}]

Succeeds(a)   == a.status \in 200..299
RetryAfter(a) == ParseRetryAfter(a.header)

ErrorKindForStatus(status) ==
  CASE status = 400 -> "bad_request"
    [] status = 401 -> "unauthorized"
    [] status = 403 -> "forbidden"
    [] status = 404 -> "not_found"
    [] status = 429 -> "rate_limited"
    [] status \in 500..599 -> "server_error"
    [] OTHER -> "http_error"

NetworkError(a) == IF a.cancelled THEN "canceled" ELSE "network_error"

BodyError(a) ==
  CASE a.body = "whole"     -> "none"
    [] a.body = "malformed" -> "malformed_json"
    [] a.body = "cut"       -> "network_error"
    [] a.body = "large"     -> "response_too_large"

Kind(a) ==
  IF a.status = 0 THEN NetworkError(a)
  ELSE IF Succeeds(a) THEN BodyError(a)
  ELSE ErrorKindForStatus(a.status)

Retryable(a) == Kind(a) \in {"network_error", "rate_limited"} \/ a.status >= 500

(* The loop of retryDelay: where it returns MaxRetryWait, one more turn    *)
(* would give MaxRetryWait again.                                          *)
Doubled(delay) == IF delay >= MaxRetryWait \div 2 THEN MaxRetryWait ELSE 2 * delay

Loop[step \in Nat] == IF step <= 1 THEN RetryBaseDelay ELSE Doubled(Loop[step - 1])

RetryDelay(attempt) ==
  IF Loop[attempt] > MaxRetryWait THEN MaxRetryWait ELSE Loop[attempt]

Delay(attempt, a) ==
  IF a.status = 429 /\ HasDelay(a.header) THEN RetryAfter(a) ELSE RetryDelay(attempt)

(* The client returns instead of waiting and trying once more. *)
Final(attempt, a) ==
  ~Retryable(a) \/ attempt = MaxAttempts \/ Delay(attempt, a) > MaxRetryWait

(* A call that gets these answers, unless cancelled, returns the n-th. *)
EndsWith(answers, n) ==
  /\ Final(n, answers[n])
  /\ \A i \in 1..(n - 1) : ~Final(i, answers[i])

-----------------------------------------------------------------------------
StopKinds == {"bad_request", "unauthorized", "forbidden", "server_error",
              "network_error", "canceled"}

(* What ImportPipeline distinguishes of an error. *)
Cause(a) ==
  CASE Kind(a) = "rate_limited"  -> "rate_limited"
    [] Kind(a) \in StopKinds     -> "stop"
    [] OTHER                     -> "soft"

(* From now to next_attempt_at, of a rate-limited job. *)
NextAttempt(a) ==
  LET delay == IF RetryAfter(a) > 0 THEN RetryAfter(a) ELSE PollInterval IN
  IF delay < Minute THEN Minute ELSE delay
==============================================================================
