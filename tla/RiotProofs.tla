------------------------------ MODULE RiotProofs ------------------------------
(***************************************************************************)
(* Proofs about RiotRequests and MatchDocuments: how long a call waits,    *)
(* what the scheduler gets to know of a rate limit, and which documents    *)
(* pass the normalizer and then the store.                                 *)
(***************************************************************************)
EXTENDS RiotRequests, MatchDocuments, WellFoundedInduction, TLAPS

(* Every set of naturals that is not empty has a least element. *)
LEMMA LeastElement ==
  ASSUME NEW T, T \subseteq Nat, T # {}
  PROVE  \E i \in T : \A j \in T : i <= j
<1> DEFINE Below == {ss \in Nat \X Nat : ss[1] < ss[2]}
<1>1. IsWellFoundedOn(Below, Nat)
  BY NatLessThanWellFounded DEF OpToRel
<1>2. PICK x \in T : \A y \in T : <<y, x>> \notin Below
  <2> HIDE DEF Below
  <2> QED BY <1>1, WFMin
<1>3. \A y \in T : ~(y < x)
  <2> TAKE y \in T
  <2>1. <<y, x>> \in Nat \X Nat /\ <<y, x>>[1] = y /\ <<y, x>>[2] = x
    OBVIOUS
  <2> QED BY <1>2, <2>1
<1> QED BY <1>3

-----------------------------------------------------------------------------
(***************************************************************************)
(* The loop of retryDelay.  Its recursive function exists: its values up   *)
(* to n are a trace, every n has one, and two traces agree.                *)
(***************************************************************************)
Trace(g, n) == /\ g \in [1..n -> 1..MaxDuration]
               /\ 1 <= n => g[1] = RetryBaseDelay
               /\ \A i \in 2..n : g[i] = Doubled(g[i - 1])

LEMMA DoubledIsADuration ==
  ASSUME Limits, NEW d \in 1..MaxDuration
  PROVE  Doubled(d) \in 1..MaxDuration
BY DEF Doubled, Limits

LEMMA TracesExist ==
  ASSUME Limits, NEW n \in Nat
  PROVE  \E g : Trace(g, n)
<1> DEFINE T == {k \in Nat : ~\E g : Trace(g, k)}
<1> SUFFICES ASSUME T # {} PROVE FALSE
  OBVIOUS
<1>1. PICK k \in T : \A i \in T : k <= i
  <2>1. T \subseteq Nat
    OBVIOUS
  <2> HIDE DEF T
  <2> QED BY <2>1, LeastElement
<1>2. k \in Nat /\ ~\E g : Trace(g, k)
  OBVIOUS
<1>3. CASE k = 0
  <2>1. Trace([i \in 1..k |-> 1], k)
    BY <1>3 DEF Trace
  <2> QED BY <1>2, <2>1
<1>4. CASE k # 0
  <2>1. k - 1 \in Nat /\ ~(k <= k - 1)
    BY <1>2, <1>4
  <2>2. PICK g : Trace(g, k - 1)
    BY <1>1, <2>1
  <2> DEFINE h == [i \in 1..k |-> IF i = 1 THEN RetryBaseDelay
                                  ELSE IF i = k THEN Doubled(g[k - 1]) ELSE g[i]]
  <2>3. \A i \in 1..(k - 1) : g[i] \in 1..MaxDuration
    BY <2>2 DEF Trace
  <2>4. \A i \in 1..k : h[i] \in 1..MaxDuration
    <3>1. k # 1 => Doubled(g[k - 1]) \in 1..MaxDuration
      BY <1>2, <1>4, <2>3, DoubledIsADuration
    <3> QED BY <1>2, <2>3, <3>1 DEF Limits
  <2>5. \A i \in 2..k : h[i] = Doubled(h[i - 1])
    <3> TAKE i \in 2..k
    <3>1. h[i - 1] = g[i - 1]
      BY <1>2, <2>2 DEF Trace
    <3>2. h[i] = IF i = k THEN Doubled(g[k - 1]) ELSE g[i]
      BY <1>2
    <3>3. i # k => g[i] = Doubled(g[i - 1])
      BY <1>2, <2>2 DEF Trace
    <3> QED BY <3>1, <3>2, <3>3
  <2>6. h \in [1..k -> 1..MaxDuration] /\ h[1] = RetryBaseDelay
    BY <1>2, <1>4, <2>4
  <2>7. Trace(h, k)
    <3> HIDE DEF h
    <3> QED BY <2>5, <2>6 DEF Trace
  <2> QED BY <1>2, <2>7
<1> QED BY <1>3, <1>4

LEMMA TracesAgree ==
  ASSUME Limits, NEW m \in Nat, NEW n \in Nat, NEW g, NEW h, Trace(g, m), Trace(h, n),
         NEW i \in Nat \ {0}, i <= m, i <= n
  PROVE  g[i] = h[i]
<1> DEFINE T == {k \in 1..i : g[k] # h[k]}
<1> SUFFICES ASSUME T # {} PROVE FALSE
  OBVIOUS
<1>1. PICK k \in T : \A j \in T : k <= j
  <2>1. T \subseteq Nat
    OBVIOUS
  <2> HIDE DEF T
  <2> QED BY <2>1, LeastElement
<1>2. k \in 1..i /\ g[k] # h[k]
  OBVIOUS
<1>3. k # 1
  BY <1>2 DEF Trace
<1>4. g[k] = Doubled(g[k - 1]) /\ h[k] = Doubled(h[k - 1])
  <2>1. k \in 2..m /\ k \in 2..n
    BY <1>2, <1>3
  <2> QED BY <2>1 DEF Trace
<1>5. g[k - 1] = h[k - 1]
  BY <1>1, <1>2, <1>3
<1> QED BY <1>2, <1>4, <1>5

(* The delay of each turn of the loop is the base, and then what the loop  *)
(* makes of the one before; none is ever above MaxDuration.                *)
LEMMA TheLoop ==
  ASSUME Limits
  PROVE  /\ Loop = [n \in Nat |-> IF n <= 1 THEN RetryBaseDelay ELSE Doubled(Loop[n - 1])]
         /\ \A n \in Nat : Loop[n] \in 1..MaxDuration
<1> DEFINE TheTrace(n) == CHOOSE g : Trace(g, n)
           f == [n \in Nat |-> IF n <= 1 THEN RetryBaseDelay ELSE TheTrace(n)[n]]
<1>1. \A n \in Nat : Trace(TheTrace(n), n)
  BY TracesExist
<1> HIDE DEF TheTrace
<1>2. \A n \in Nat : n >= 1 => f[n] = TheTrace(n)[n]
  <2> TAKE n \in Nat
  <2>1. n = 1 => TheTrace(n)[n] = RetryBaseDelay
    BY <1>1 DEF Trace
  <2> QED BY <2>1
<1>3. \A n \in Nat : n > 1 => f[n] = Doubled(f[n - 1])
  <2> SUFFICES ASSUME NEW n \in Nat, n > 1 PROVE f[n] = Doubled(f[n - 1])
    OBVIOUS
  <2>1. TheTrace(n)[n] = Doubled(TheTrace(n)[n - 1])
    BY <1>1 DEF Trace
  <2>2. TheTrace(n)[n - 1] = TheTrace(n - 1)[n - 1]
    <3>1. n - 1 \in Nat \ {0} /\ n - 1 <= n /\ n - 1 <= n - 1
      OBVIOUS
    <3> QED BY <1>1, <3>1, TracesAgree
  <2>3. f[n] = TheTrace(n)[n] /\ f[n - 1] = TheTrace(n - 1)[n - 1]
    <3> HIDE DEF f
    <3> QED BY <1>2
  <2> QED BY <2>1, <2>2, <2>3
<1>4. f = [n \in Nat |-> IF n <= 1 THEN RetryBaseDelay ELSE Doubled(f[n - 1])]
  <2> DEFINE e == [n \in Nat |-> IF n <= 1 THEN RetryBaseDelay ELSE Doubled(f[n - 1])]
  <2>1. \A n \in Nat : f[n] = e[n]
    BY <1>3
  <2> QED BY <2>1
<1>5. Loop = [n \in Nat |-> IF n <= 1 THEN RetryBaseDelay ELSE Doubled(Loop[n - 1])]
  <2> HIDE DEF f
  <2> QED BY <1>4 DEF Loop
<1>6. \A n \in Nat : Loop[n] \in 1..MaxDuration
  <2> DEFINE T == {n \in Nat : Loop[n] \notin 1..MaxDuration}
  <2> SUFFICES ASSUME T # {} PROVE FALSE
    OBVIOUS
  <2>1. PICK k \in T : \A i \in T : k <= i
    <3>1. T \subseteq Nat
      OBVIOUS
    <3> HIDE DEF T
    <3> QED BY <3>1, LeastElement
  <2>2. CASE k <= 1
    BY <1>5, <2>2 DEF Limits
  <2>3. CASE k > 1
    <3>1. Loop[k] = Doubled(Loop[k - 1])
      BY <1>5, <2>3
    <3>2. k - 1 \in Nat /\ ~(k <= k - 1)
      BY <2>3
    <3>3. Loop[k - 1] \in 1..MaxDuration
      BY <2>1, <3>2
    <3> QED BY <3>1, <3>3, DoubledIsADuration
  <2> QED BY <2>2, <2>3
<1> QED BY <1>5, <1>6

(* However many attempts there are, the delay before the next one is a     *)
(* duration that does not exceed MaxRetryWait and is twice the one before  *)
(* unless the loop stops at MaxRetryWait: the doubling cannot leave the    *)
(* width of a duration (retryDelay).                                       *)
THEOREM BackoffIsBounded ==
  ASSUME Limits, NEW n \in Nat \ {0}
  PROVE  /\ RetryDelay(n) \in 1..MaxRetryWait
         /\ RetryDelay(n + 1) = Doubled(RetryDelay(n))
         /\ RetryDelay(n) <= RetryDelay(n + 1)
<1>1. Loop[n] \in 1..MaxDuration /\ Loop[n + 1] = Doubled(Loop[n])
  <2>1. n \in Nat /\ n + 1 \in Nat /\ ~(n + 1 <= 1) /\ n + 1 - 1 = n
    OBVIOUS
  <2> QED BY <2>1, TheLoop
<1> QED BY <1>1 DEF RetryDelay, Doubled, Limits

LEMMA RetryDelayIsCapped ==
  ASSUME Limits, NEW n \in Nat \ {0}
  PROVE  RetryDelay(n) <= MaxRetryWait
BY BackoffIsBounded DEF Limits

-----------------------------------------------------------------------------
(***************************************************************************)
(* Retry-After.                                                            *)
(***************************************************************************)
LEMMA WrappedIsADuration ==
  ASSUME Limits, NEW x \in Int
  PROVE  Wrapped(x) \in (-(MaxDuration + 1))..MaxDuration
<1> DEFINE w == 2 * (MaxDuration + 1)
           y == x + MaxDuration + 1
<1>1. w \in Nat \ {0} /\ y \in Int
  BY DEF Limits
<1>2. y % w \in 0..(w - 1)
  <2> HIDE DEF w, y
  <2> QED BY <1>1
<1> QED BY <1>2 DEF Wrapped, Limits

LEMMA WrappedFits ==
  ASSUME Limits, NEW x \in 0..MaxDuration
  PROVE  Wrapped(x) = x
<1> DEFINE w == 2 * (MaxDuration + 1)
           y == x + MaxDuration + 1
<1>1. w \in Nat \ {0} /\ y \in 0..(w - 1)
  BY DEF Limits
<1>2. y % w = y
  <2> HIDE DEF w, y
  <2> QED BY <1>1
<1> QED BY <1>2 DEF Wrapped, Limits

LEMMA RetryAfterIsADuration ==
  ASSUME Limits, NEW a \in Answer
  PROVE  /\ RetryAfter(a) \in (-(MaxDuration + 1))..MaxDuration
         /\ ~HasDelay(a.header) => RetryAfter(a) = 0
<1>1. a.header.value \in Int /\ Second \in Int
  BY DEF Answer, Header, Limits
<1>2. a.header.value * Second \in Int
  BY <1>1
<1>3. Wrapped(a.header.value * Second) \in (-(MaxDuration + 1))..MaxDuration
  BY <1>2, WrappedIsADuration
<1>4. 0 \in (-(MaxDuration + 1))..MaxDuration /\ MaxDuration \in Nat
  BY DEF Limits
<1> DEFINE product == Wrapped(a.header.value * Second)
<1> HIDE DEF product
<1>5. product \in (-(MaxDuration + 1))..MaxDuration
  BY <1>3 DEF product
<1> QED BY <1>1, <1>4, <1>5 DEF RetryAfter, ParseRetryAfter, product

(* What Riot asks for is what the client reads, up to the largest          *)
(* duration: seconds as they are, a date as the time until it, or no delay *)
(* when it has passed (parseRetryAfter).                                   *)
THEOREM RetryAfterIsExact ==
  ASSUME Limits, NEW h \in Header
  PROVE  /\ h.form = "seconds" /\ h.value >= 0 /\ h.value * Second <= MaxDuration
              => ParseRetryAfter(h) = h.value * Second
         /\ h.form = "date" /\ h.value \in 0..MaxDuration => ParseRetryAfter(h) = h.value
<1>1. h.value \in Int
  BY DEF Header
<1>2. ASSUME h.form = "seconds", h.value >= 0, h.value * Second <= MaxDuration
      PROVE  ParseRetryAfter(h) = h.value * Second
  <2>1. h.value * Second \in Nat
    <3>1. h.value \in Nat /\ Second \in Nat
      BY <1>1, <1>2 DEF Limits
    <3> QED BY <3>1
  <2>2. Wrapped(h.value * Second) = h.value * Second
    <3>1. h.value * Second \in 0..MaxDuration
      BY <1>2, <2>1 DEF Limits
    <3> QED BY <3>1, WrappedFits
  <2> QED BY <1>2, <2>2 DEF ParseRetryAfter, HasDelay
<1>3. ASSUME h.form = "date", h.value \in 0..MaxDuration PROVE ParseRetryAfter(h) = h.value
  BY <1>1, <1>3 DEF ParseRetryAfter, HasDelay, Limits
<1> QED BY <1>2, <1>3

(* A call always returns, after at most MaxAttempts answers (get).         *)
THEOREM EveryCallEnds ==
  ASSUME Limits, NEW answers \in [1..MaxAttempts -> Answer]
  PROVE  \E n \in 1..MaxAttempts : EndsWith(answers, n)
<1> DEFINE T == {n \in 1..MaxAttempts : Final(n, answers[n])}
<1>1. MaxAttempts \in T
  BY DEF Final, Limits
<1>2. T \subseteq Nat /\ T # {}
  BY <1>1 DEF Limits
<1>3. PICK n \in T : \A i \in T : n <= i
  <2> HIDE DEF T
  <2> QED BY <1>2, LeastElement
<1>4. \A i \in 1..(n - 1) : ~Final(i, answers[i])
  BY <1>3 DEF Limits
<1> QED BY <1>3, <1>4 DEF EndsWith

(* Before its last answer a call has waited, each time, no longer than     *)
(* MaxRetryWait, and only for an answer that may be better next time.      *)
THEOREM WaitsAreShort ==
  ASSUME Limits, NEW answers \in [1..MaxAttempts -> Answer],
         NEW n \in 1..MaxAttempts, EndsWith(answers, n), NEW i \in 1..(n - 1)
  PROVE  Retryable(answers[i]) /\ Delay(i, answers[i]) <= MaxRetryWait
<1>1. ~Final(i, answers[i])
  BY DEF EndsWith
<1>2. i \in Nat \ {0} /\ i \in 1..MaxAttempts
  BY DEF Limits
<1>3. RetryDelay(i) <= MaxRetryWait
  BY <1>2, RetryDelayIsCapped
<1>4. RetryAfter(answers[i]) \in Int /\ MaxRetryWait \in Int
  BY <1>2, RetryAfterIsADuration DEF Limits
<1>5. CASE answers[i].status = 429 /\ HasDelay(answers[i].header)
  BY <1>1, <1>4, <1>5 DEF Final, Delay
<1>6. CASE ~(answers[i].status = 429 /\ HasDelay(answers[i].header))
  BY <1>1, <1>3, <1>6 DEF Final, Delay
<1> QED BY <1>5, <1>6

(* "A long server-directed pause belongs in the durable import scheduler,  *)
(* not inside one HTTP call" (get): the answer that asks for it ends the   *)
(* call, whatever attempt it is, and the job waits at least that long.     *)
THEOREM LongPauseIsScheduled ==
  ASSUME Limits, NEW answers \in [1..MaxAttempts -> Answer],
         NEW n \in 1..MaxAttempts, EndsWith(answers, n), NEW i \in 1..n,
         answers[i].status = 429, RetryAfter(answers[i]) > MaxRetryWait
  PROVE  /\ i = n
         /\ Cause(answers[n]) = "rate_limited"
         /\ NextAttempt(answers[n]) >= RetryAfter(answers[n])
<1>1. answers[i] \in Answer
  BY DEF Limits
<1>2. RetryAfter(answers[i]) \in Int /\ MaxRetryWait \in Nat
  BY <1>1, RetryAfterIsADuration DEF Limits
<1>3. HasDelay(answers[i].header)
  BY <1>1, <1>2, RetryAfterIsADuration
<1>4. Final(i, answers[i])
  BY <1>3 DEF Final, Delay
<1>5. i = n
  <2>1. i \notin 1..(n - 1)
    BY <1>4 DEF EndsWith
  <2> QED BY <2>1 DEF Limits
<1>6. Kind(answers[i]) = "rate_limited"
  BY DEF Kind, Succeeds, ErrorKindForStatus
<1>7. Cause(answers[i]) = "rate_limited"
  BY <1>6 DEF Cause, StopKinds
<1>8. NextAttempt(answers[i]) >= RetryAfter(answers[i])
  BY <1>2 DEF NextAttempt, Minute, Limits
<1> QED BY <1>5, <1>7, <1>8

(* What may be better next time is never taken for a fault of the one      *)
(* match that was asked for: the batch stops, or waits for the limit, and  *)
(* does not run into the same outage job after job.                        *)
THEOREM OutagesStopTheBatch ==
  ASSUME NEW a \in Answer, a.status < 600, Retryable(a)
  PROVE  Cause(a) # "soft"
<1>1. Kind(a) \in {"network_error", "rate_limited"} => Cause(a) # "soft"
  BY DEF Cause, StopKinds
<1>2. ASSUME a.status >= 500 PROVE Kind(a) = "server_error"
  <2>1. a.status \in Nat
    BY DEF Answer
  <2> QED BY <1>2, <2>1 DEF Kind, Succeeds, ErrorKindForStatus
<1>3. Kind(a) = "server_error" => Cause(a) # "soft"
  BY DEF Cause, StopKinds
<1> QED BY <1>1, <1>2, <1>3 DEF Retryable
-----------------------------------------------------------------------------
LEMMA TheParticipant ==
  ASSUME NEW m \in MatchDocument, NEW puuid, Normalizes(m, puuid)
  PROVE  ParticipantByPUUID(m, puuid) \in Participant
<1>1. m.participants \in Seq(Participant)
  BY DEF MatchDocument
<1>2. PlacesOf(m, puuid) \subseteq Nat /\ PlacesOf(m, puuid) # {}
  BY <1>1 DEF PlacesOf, Normalizes
<1>3. \E i \in PlacesOf(m, puuid) : \A j \in PlacesOf(m, puuid) : i <= j
  BY <1>2, LeastElement
<1>4. \A i \in PlacesOf(m, puuid) : m.participants[i] \in Participant
  BY <1>1 DEF PlacesOf
<1> QED BY <1>3, <1>4 DEF ParticipantByPUUID

LEMMA Times ==
  ASSUME NEW m \in MatchDocument, NEW p \in Participant
  PROVE  /\ StartedAt(m) \in Int /\ GivenDuration(m, p) \in Int
         /\ EndedAt(m, p) \in Int /\ Duration(m, p) \in Int
<1>1. /\ m.start \in Int /\ m.creation \in Int /\ m.end \in Int
      /\ m.gameDuration \in Int /\ p.timePlayed \in Int
  BY DEF MatchDocument, Participant
<1>2. StartedAt(m) \in Int
  BY <1>1 DEF StartedAt
<1>3. GivenDuration(m, p) \in Int
  BY <1>1 DEF GivenDuration, NormalizedDuration, Day
<1>4. EndedAt(m, p) \in Int
  BY <1>1, <1>2, <1>3 DEF EndedAt
<1>5. Duration(m, p) \in Int
  BY <1>2, <1>3, <1>4 DEF Duration, RoundedSeconds
<1> QED BY <1>2, <1>3, <1>4, <1>5

(* Whatever fields a document lacks, a match is stored with a duration of  *)
(* zero only if its times are less than half a second apart                *)
(* (NormalizeMatch).  An end or a duration that is missing is derived from *)
(* the other one, to half a second; when the document gives both, as Riot  *)
(* does today, both are stored as they are and nothing reconciles them:    *)
(* the match then ends where the document says, not startedAt + duration.  *)
THEOREM DurationIsKnown ==
  ASSUME NEW m \in MatchDocument, NEW puuid, Normalizes(m, puuid),
         NEW n, n = NormalizeMatch(m, puuid)
  PROVE  LET given == GivenDuration(m, ParticipantByPUUID(m, puuid))
             gap   == n.endedAt - n.startedAt - 1000 * n.duration
         IN /\ n.duration >= 0 /\ n.endedAt >= n.startedAt
            /\ n.duration = 0 => n.endedAt - n.startedAt < 500
            /\ IF m.end > 0 /\ given # 0
                 THEN n.endedAt = m.end /\ n.duration = given
                 ELSE -500 <= gap /\ gap <= 500
<1> DEFINE p == ParticipantByPUUID(m, puuid)
<1>1. p \in Participant
  BY TheParticipant
<1>2. /\ n.startedAt = StartedAt(m) /\ n.endedAt = EndedAt(m, p)
      /\ n.duration = Duration(m, p)
  BY DEF NormalizeMatch
<1>3. Duration(m, p) >= 0 /\ EndedAt(m, p) >= StartedAt(m)
  BY DEF Normalizes
<1> HIDE DEF p
<1>4. /\ StartedAt(m) \in Int /\ GivenDuration(m, p) \in Int
      /\ EndedAt(m, p) \in Int /\ Duration(m, p) \in Int /\ m.end \in Int
  BY <1>1, Times DEF MatchDocument
<1>5. CASE GivenDuration(m, p) = 0
  <2>1. Duration(m, p) = (EndedAt(m, p) - StartedAt(m) + 500) \div 1000
    BY <1>3, <1>4, <1>5 DEF Duration, RoundedSeconds
  <2> QED BY <1>2, <1>3, <1>4, <1>5, <2>1 DEF p
<1>6. CASE GivenDuration(m, p) # 0 /\ ~(m.end > 0)
  <2>1. Duration(m, p) = GivenDuration(m, p)
    BY <1>6 DEF Duration
  <2>2. EndedAt(m, p) = StartedAt(m) + GivenDuration(m, p) * 1000
    BY <1>6 DEF EndedAt
  <2> QED BY <1>2, <1>3, <1>4, <1>6, <2>1, <2>2 DEF p
<1>7. CASE GivenDuration(m, p) # 0 /\ m.end > 0
  <2>1. Duration(m, p) = GivenDuration(m, p) /\ EndedAt(m, p) = m.end
    BY <1>7 DEF Duration, EndedAt
  <2> QED BY <1>2, <1>3, <1>4, <1>7, <2>1 DEF p
<1> QED BY <1>5, <1>6, <1>7

(* "A later ordinary surrender is never excluded from review as a remake"  *)
(* (NormalizeMatch): a game of ten minutes is none, whatever its flags     *)
(* say, and counts as surrendered if they say so.                          *)
THEOREM LongGamesAreReviewed ==
  ASSUME NEW m \in MatchDocument, NEW puuid, Normalizes(m, puuid),
         NEW n, n = NormalizeMatch(m, puuid), n.duration >= 600
  PROVE  LET p == ParticipantByPUUID(m, puuid) IN
         /\ ~n.isRemake
         /\ n.surrendered <=> (p.surrender \/ p.earlySurrender \/ m.endsEarly)
<1> DEFINE p == ParticipantByPUUID(m, puuid)
<1>1. p \in Participant
  BY TheParticipant
<1>2. /\ n.duration = Duration(m, p) /\ n.isRemake = IsRemake(m, p)
      /\ n.surrendered = ((p.surrender \/ ExplicitRemake(m, p)) /\ ~IsRemake(m, p))
  BY DEF NormalizeMatch
<1> HIDE DEF p
<1>3. Duration(m, p) \in Int
  BY <1>1, Times
<1>4. ~IsRemake(m, p)
  BY <1>2, <1>3 DEF IsRemake
<1> QED BY <1>2, <1>4 DEF ExplicitRemake, p

-----------------------------------------------------------------------------
(* Of what the normalizer lets pass, the store refuses exactly a document  *)
(* without the player's champion, or with a negative queue, map, team or   *)
(* champion (prepareImportedMatch): that class of documents is all the     *)
(* "rejected" of ImportPipeline stands for in a match document.            *)
THEOREM WhatTheStoreRefuses ==
  ASSUME NEW m \in MatchDocument, NEW puuid, Normalizes(m, puuid)
  PROVE  LET p == ParticipantByPUUID(m, puuid) IN
         StoreAccepts(NormalizeMatch(m, puuid))
           <=> /\ p.champion # Blank
               /\ m.queue >= 0 /\ m.map >= 0 /\ p.team >= 0 /\ p.championId >= 0
<1> DEFINE p == ParticipantByPUUID(m, puuid)
           n == NormalizeMatch(m, puuid)
<1>1. p \in Participant
  BY TheParticipant
<1>2. /\ n.id = m.id /\ n.queue = m.queue /\ n.map = m.map
      /\ n.participant = p.id /\ n.team = p.team /\ n.championId = p.championId
      /\ n.champion = p.champion /\ n.counts = p.counts
      /\ n.ids = CompactPositive(p.ids)
      /\ n.completeness = "detail_only"
      /\ n.skillOrder = << >> /\ n.events = << >>
  BY DEF NormalizeMatch
<1>3. /\ m.id # Blank /\ p.id >= 1 /\ \A c \in p.counts : c >= 0
  BY DEF Normalizes
<1>4. n.duration >= 0 /\ n.endedAt >= n.startedAt
  BY DurationIsKnown
<1> HIDE DEF p, n
<1>5. \A v \in n.counts \cup n.ids : v >= 0
  <2>1. p.counts \subseteq Int /\ p.ids \subseteq Int
    BY <1>1 DEF Participant
  <2> QED BY <1>2, <1>3, <2>1 DEF CompactPositive
<1>6. n.participant >= 0
  BY <1>1, <1>2, <1>3 DEF Participant
<1>7. AcceptsEvents(n) /\ \A i \in DOMAIN n.skillOrder : n.skillOrder[i] >= 0
  BY <1>2 DEF AcceptsEvents
<1>8. StoreAccepts(n) <=> /\ n.champion # Blank
                          /\ n.queue >= 0 /\ n.map >= 0 /\ n.team >= 0 /\ n.championId >= 0
  BY <1>2, <1>3, <1>4, <1>5, <1>6, <1>7 DEF StoreAccepts, AcceptsStats
<1> QED BY <1>2, <1>8 DEF p, n

(* Of the timelines that fit a match the store has accepted, it refuses    *)
(* exactly those with a selected event before the start of the game: no    *)
(* sequence number, skill or type that ApplyTimeline produces is refused.  *)
THEOREM WhichTimelinesTheStoreRefuses ==
  ASSUME NEW m \in MatchDocument, NEW puuid, Normalizes(m, puuid),
         NEW n, n = NormalizeMatch(m, puuid), StoreAccepts(n),
         NEW t \in TimelineDocument
  PROVE  StoreAccepts(ApplyTimeline(n, t))
           <=> \A i \in DOMAIN t.events :
                 t.events[i].type \in Selected => t.events[i].timestamp >= 0
<1> DEFINE x == ApplyTimeline(n, t)
<1>1. /\ x.id = n.id /\ x.champion = n.champion /\ x.queue = n.queue /\ x.map = n.map
      /\ x.duration = n.duration /\ x.endedAt = n.endedAt /\ x.startedAt = n.startedAt
      /\ x.participant = n.participant /\ x.team = n.team /\ x.championId = n.championId
      /\ x.counts = n.counts /\ x.ids = n.ids
      /\ x.completeness = "complete" /\ x.events = EventsOf(t)
      /\ x.skillOrder = [i \in SkillUps(n, t) |-> t.events[i].skill]
  BY DEF ApplyTimeline, NormalizeMatch
<1>2. t.events \in Seq(Event)
  BY DEF TimelineDocument
<1> HIDE DEF x
<1>3. \A i \in DOMAIN x.skillOrder : x.skillOrder[i] >= 0
  <2>1. \A i \in SkillUps(n, t) : t.events[i].skill \in Int /\ t.events[i].skill > 0
    <3>1. \A i \in DOMAIN t.events : t.events[i] \in Event
      BY <1>2
    <3> QED BY <3>1 DEF SkillUps, Event
  <2> QED BY <1>1, <2>1
<1>4. AcceptsStats(x)
  BY <1>1, <1>3 DEF AcceptsStats, StoreAccepts
<1>5. AcceptsEvents(x) <=> \A i \in DOMAIN t.events :
                             t.events[i].type \in Selected => t.events[i].timestamp >= 0
  <2>1. DOMAIN x.events = {i \in DOMAIN t.events : t.events[i].type \in Selected}
    BY <1>1 DEF EventsOf
  <2>2. \A i \in DOMAIN x.events : x.events[i].timestamp = t.events[i].timestamp
    <3> TAKE i \in DOMAIN x.events
    <3>1. x.events[i] = NormalizeTimelineEvent(t.events[i])
      BY <1>1, <2>1 DEF EventsOf
    <3> QED BY <3>1 DEF NormalizeTimelineEvent
  <2>3. \A i \in DOMAIN t.events : i \in Nat
    BY <1>2
  <2> QED BY <2>1, <2>2, <2>3 DEF AcceptsEvents
<1>6. StoreAccepts(x) <=> AcceptsEvents(x)
  BY <1>1, <1>4 DEF StoreAccepts
<1> QED BY <1>5, <1>6 DEF x
==============================================================================
