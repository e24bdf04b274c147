------------------------------ MODULE RestSession ------------------------------
(***************************************************************************)
(* The requests of one REST client: request_with_retry (session/retry.py), *)
(* the hooks of the client (session/rest.py), its buckets                  *)
(* (session/rate_limit.py) and the adaptive limiter (session/adaptive.py)  *)
(* that learns from the answers.  A pass is one task: it has one request   *)
(* under way at a time, but the limiter lives as long as the client, over  *)
(* all channels and guilds of an account.                                  *)
(*                                                                         *)
(* Durations are abstract: Sleep, CooldownElapses and FiveExpires end a    *)
(* period.  A rate is that of the settings or a reduced one.               *)
(***************************************************************************)
EXTENDS Integers, Sequences, FiniteSets

CONSTANTS
  Hosts,              \* Keys of the buckets ...
  Known,              \* ... those that http.per_host_rate_per_sec lists ...
  Api,                \* ... and that of discord.com/api.
  Attempts,           \* request_with_retry's attempts.
  Max429,             \* MAX_429_RETRIES.
  Cluster,            \* degrade_on_5xx_in_window.
  Streak429,          \* cooldown_on_consecutive_429.
  Streak403,          \* cooldown_on_403_streak.
  Recovery,           \* recover_after_successes.
  Window,             \* Bound: _LATENCY_WINDOW_SIZE, 50 in the code.
  Samples,            \* Bound: latencies that make a p95, 10 in the code.
  MaxFives            \* Bound: 5xx answers in the window.

ASSUME HostsAssumption == Known \subseteq Hosts /\ Api \in Known
ASSUME LimitsAssumption ==
  /\ Attempts \in Nat \ {0} /\ Max429 \in Nat \ {0}
  /\ Cluster \in Nat \ {0} /\ Streak429 \in Nat \ {0} /\ Streak403 \in Nat \ {0}
  /\ Recovery \in Nat \ {0} /\ MaxFives \in Nat
  /\ Samples \in Nat \ {0} /\ Window \in Nat /\ Window >= Samples

VARIABLES
  pc,                 \* Of the request under way.
  attempt, streak,    \* Its attempts, and consecutive_429.
  outcome,            \* What the last request came to.
  answers,            \* Answers of the request that call for another attempt.
  mode,               \* The state of the adaptive limiter ...
  counts,             \* ... its streaks and the 5xx in the window ...
  latencies,          \* ... and its last latencies: TRUE is one over the limit.
  rates, default,     \* The rates of the buckets, and that of a new one.
  cooling,            \* cooldown_until is in the future.
  row                 \* Successes in a row, counted by the environment.

request == <<pc, attempt, streak, outcome, answers>>
limiter == <<mode, counts, latencies, rates, default, cooling>>
vars    == <<request, limiter, row>>

Success == {"ok"}
Retried == {"429", "5xx"}                  \* RETRY_STATUSES.
\* A challenge has the marker as a JSON key, a mention elsewhere in its text.
\* "501" stands for the 5xx that are not retried.
Returned == {"ok", "401", "403", "404", "501", "mention401", "mention403"}
Statuses == Retried \cup Returned
ServerErrors == {"5xx", "501"}

\* Nothing depends on how far the successes in a row are above Recovery.
OneMore(n) == IF n < Recovery THEN n + 1 ELSE n

Fresh == [streak429 |-> 0, streak403 |-> 0, successes |-> 0, fives |-> 0]

--------------------------------------------------------------------------------
(* The adaptive limiter: record_response.                                  *)

\* p95 is the element max(0, int(0.95 n) - 1) of the n sorted latencies.
P95IsHigh(l) ==
  LET n   == Len(l)
      p95 == IF (95 * n) \div 100 = 0 THEN 1 ELSE (95 * n) \div 100
  IN  n >= Samples /\ Cardinality({i \in 1 .. n : ~ l[i]}) < p95

Remember(l, slow) ==
  LET longer == Append(l, slow)
  IN  IF Len(longer) > Window THEN Tail(longer) ELSE longer

\* The streaks after an answer; 5xx and other statuses leave them alone.
Count(c, status) ==
  CASE status = "429" -> [c EXCEPT !.streak429 = @ + 1, !.successes = 0]
    [] status \in {"403", "mention403"} -> [c EXCEPT !.streak403 = @ + 1, !.successes = 0]
    [] status \in Success -> [c EXCEPT !.streak429 = 0, !.streak403 = 0, !.successes = OneMore(@)]
    [] status \in ServerErrors -> [c EXCEPT !.fives = @ + 1]
    [] OTHER -> c

CoolsDown(c, status) ==
  \/ status \in {"mention401", "mention403"}
  \/ c.streak429 >= Streak429
  \/ c.streak403 >= Streak403

\* _enter_cooldown: from any mode; the buckets keep their rates.
EnterCooldown(c) ==
  /\ mode' = "COOLDOWN" /\ cooling' = TRUE
  /\ counts' = [Fresh EXCEPT !.fives = c.fives]
  /\ UNCHANGED <<rates, default>>

\* _enter_degraded scales the buckets of the listed hosts, and the rate of new ones.
EnterDegraded(c) ==
  /\ mode' = "DEGRADED"
  /\ counts' = [c EXCEPT !.successes = 0]
  /\ rates' = [h \in Hosts |-> IF h \in Known THEN "reduced" ELSE rates[h]]
  /\ default' = "reduced"
  /\ UNCHANGED cooling

\* A bug: hosts met for the first time stay slow.
EnterNormalKeepingDefault(c) ==
  /\ mode' = "NORMAL" /\ cooling' = FALSE
  /\ counts' = c
  /\ rates' = [h \in Hosts |-> IF h \in Known THEN "full" ELSE rates[h]]
  /\ UNCHANGED default

\* _enter_normal.
EnterNormal(c) ==
  /\ mode' = "NORMAL" /\ cooling' = FALSE
  /\ counts' = c
  /\ rates' = [h \in Hosts |-> IF h \in Known THEN "full" ELSE rates[h]]
  /\ default' = "full"

Record(status, slow) ==
  LET c == Count(counts, status)
      l == Remember(latencies, slow)
  IN  /\ latencies' = l
      /\ \/ CoolsDown(c, status) /\ EnterCooldown(c)
         \/ /\ ~ CoolsDown(c, status)
            /\ \/ /\ mode = "NORMAL" /\ (c.fives >= Cluster \/ P95IsHigh(l))
                  /\ EnterDegraded(c)
               \/ /\ mode = "DEGRADED" /\ c.successes >= Recovery
                  /\ EnterNormal(c)
               \/ /\ ~ (mode = "NORMAL" /\ (c.fives >= Cluster \/ P95IsHigh(l)))
                  /\ ~ (mode = "DEGRADED" /\ c.successes >= Recovery)
                  /\ counts' = c
                  /\ UNCHANGED <<mode, rates, default, cooling>>

--------------------------------------------------------------------------------
(* Bugs this code could have had.                                          *)

\* A 5xx leaves the streak of 429s as it is.
FailKeepingStreak ==
  /\ pc = "sent" /\ counts.fives < MaxFives
  /\ \E slow \in BOOLEAN : Record("5xx", slow)
  /\ answers' = Append(answers, "5xx")
  /\ IF attempt < Attempts THEN pc' = "backoff" /\ UNCHANGED outcome
                           ELSE pc' = "idle" /\ outcome' = "exhausted"
  /\ row' = 0
  /\ UNCHANGED <<attempt, streak>>

\* After a 5xx the request begins again, with all its attempts.
BackoffAgain ==
  /\ pc = "backoff"
  /\ pc' = "send"
  /\ IF answers[Len(answers)] = "5xx" THEN attempt' = 1 /\ answers' = <<>>
                                      ELSE attempt' = attempt + 1 /\ UNCHANGED answers
  /\ UNCHANGED <<streak, outcome, limiter, row>>

--------------------------------------------------------------------------------
(* A request.                                                              *)

\* _bucket_for: a bucket for an unknown host is created at the default rate.
Bucket(h) ==
  rates' = IF rates[h] = "none" THEN [rates EXCEPT ![h] = default] ELSE rates

BeginRequest ==
  /\ pc = "idle"
  /\ pc' = "send" /\ attempt' = 1 /\ streak' = 0
  /\ outcome' = "none" /\ answers' = <<>>
  /\ UNCHANGED <<limiter, row>>

\* The request hook: it waits for the bucket, not for the limiter's acquire().
Send ==
  /\ pc = "send"
  /\ pc' = "sent"
  /\ Bucket(Api)
  /\ UNCHANGED <<attempt, streak, outcome, answers, mode, counts, latencies, default,
                 cooling, row>>

\* An attachment is streamed through the same hook, once, whatever comes of it; the
\* limiter does not hear of it.
Download(h) ==
  /\ pc = "idle"
  /\ Bucket(h)
  /\ UNCHANGED <<request, mode, counts, latencies, default, cooling, row>>

\* A status that is handed to the caller.
Respond ==
  /\ pc = "sent"
  /\ \E status \in Returned, slow \in BOOLEAN :
       /\ status \in ServerErrors => counts.fives < MaxFives
       /\ Record(status, slow)
       /\ row' = IF status \in Success THEN OneMore(row) ELSE 0
  /\ pc' = "idle" /\ outcome' = "response" /\ streak' = 0
  /\ UNCHANGED <<attempt, answers>>

\* A captcha challenge: the response hook raises before the limiter hears of it.
Challenge ==
  /\ pc = "sent"
  /\ pc' = "idle" /\ outcome' = "captcha"
  /\ row' = 0
  /\ UNCHANGED <<attempt, streak, answers, limiter>>

\* 429: the third in a row ends the request; else its Retry-After is slept out.
Refuse ==
  /\ pc = "sent"
  /\ \E slow \in BOOLEAN : Record("429", slow)
  /\ answers' = Append(answers, "429")
  /\ streak' = streak + 1
  /\ IF streak + 1 >= Max429 THEN pc' = "idle" /\ outcome' = "abort"
                             ELSE pc' = "sleep" /\ UNCHANGED outcome
  /\ row' = 0
  /\ UNCHANGED attempt

\* _sleep_retry_after is over, after what the header said and 120 s at most; then
\* tenacity asks for the next attempt.
Sleep ==
  /\ pc = "sleep"
  /\ IF attempt < Attempts THEN pc' = "backoff" /\ UNCHANGED outcome
                           ELSE pc' = "idle" /\ outcome' = "exhausted"
  /\ UNCHANGED <<attempt, streak, answers, limiter, row>>

\* 5xx: the streak of 429s is over.
Fail ==
  /\ pc = "sent" /\ counts.fives < MaxFives
  /\ \E slow \in BOOLEAN : Record("5xx", slow)
  /\ answers' = Append(answers, "5xx")
  /\ streak' = 0
  /\ IF attempt < Attempts THEN pc' = "backoff" /\ UNCHANGED outcome
                           ELSE pc' = "idle" /\ outcome' = "exhausted"
  /\ row' = 0
  /\ UNCHANGED <<attempt>>

\* No answer: httpx.TransportError.
Drop ==
  /\ pc = "sent"
  /\ answers' = Append(answers, "drop")
  /\ IF attempt < Attempts THEN pc' = "backoff" /\ UNCHANGED outcome
                           ELSE pc' = "idle" /\ outcome' = "exhausted"
  /\ row' = 0
  /\ UNCHANGED <<attempt, streak, limiter>>

\* The exponential backoff.
Backoff ==
  /\ pc = "backoff"
  /\ pc' = "send"
  /\ attempt' = attempt + 1
  /\ UNCHANGED <<streak, outcome, answers, limiter, row>>

--------------------------------------------------------------------------------
(* Time.                                                                   *)

\* cooldown_until has passed: nothing but acquire() looks at it, which nothing calls.
CooldownElapses ==
  /\ cooling
  /\ cooling' = FALSE
  /\ UNCHANGED <<request, mode, counts, latencies, rates, default, row>>

\* A bug: failures are forgotten by their number, not by their age.
FiveExpiresByNumber ==
  /\ counts.fives > Cluster
  /\ counts' = [counts EXCEPT !.fives = @ - 1]
  /\ UNCHANGED <<request, mode, latencies, rates, default, cooling, row>>

\* The oldest 5xx leaves the window of degrade_window_sec.
FiveExpires ==
  /\ counts.fives > 0
  /\ counts' = [counts EXCEPT !.fives = @ - 1]
  /\ UNCHANGED <<request, mode, latencies, rates, default, cooling, row>>

Init ==
  /\ pc = "idle" /\ attempt = 1 /\ streak = 0 /\ outcome = "none" /\ answers = <<>>
  /\ mode = "NORMAL" /\ counts = Fresh /\ latencies = <<>>
  /\ rates = [h \in Hosts |-> IF h \in Known THEN "full" ELSE "none"]
  /\ default = "full" /\ cooling = FALSE
  /\ row = 0

Answer == Respond \/ Challenge \/ Refuse \/ Fail \/ Drop
Step   == Send \/ Answer \/ Sleep \/ Backoff
Time   == CooldownElapses \/ FiveExpires

Next == BeginRequest \/ Step \/ (\E h \in Hosts : Download(h)) \/ Time

Spec == Init /\ [][Next]_vars

\* The scan goes on requesting, every request is answered or dropped, time passes.
Fairness ==
  /\ WF_vars(BeginRequest) /\ WF_vars(Step)
  /\ WF_vars(CooldownElapses) /\ WF_vars(FiveExpires)

FairSpec == Spec /\ Fairness

--------------------------------------------------------------------------------
(* Properties.                                                             *)

TypeOK ==
  /\ pc \in {"idle", "send", "sent", "sleep", "backoff"}
  /\ attempt \in 1 .. Attempts /\ streak \in 0 .. Max429
  /\ outcome \in {"none", "response", "captcha", "abort", "exhausted"}
  /\ answers \in Seq({"429", "5xx", "drop"})
  /\ mode \in {"NORMAL", "DEGRADED", "COOLDOWN"}
  /\ counts \in [streak429 : 0 .. Streak429 - 1, streak403 : 0 .. Streak403 - 1,
                 successes : 0 .. Recovery, fives : 0 .. MaxFives]
  /\ latencies \in Seq(BOOLEAN) /\ Len(latencies) <= Window
  /\ rates \in [Hosts -> {"none", "full", "reduced"}] /\ default \in {"full", "reduced"}
  /\ cooling \in BOOLEAN
  /\ row \in 0 .. Recovery

\* The refusals since the last 5xx.
Refusals(a) ==
  {i \in 1 .. Len(a) : a[i] = "429" /\ \A j \in i .. Len(a) : a[j] # "5xx"}

\* A channel is given up exactly when the last answers were MAX_429_RETRIES refusals,
\* with dropped connections between them or not, but no 5xx; a request fails
\* otherwise only when all its attempts are used up, and never takes more (SEC-P0-15).
VerdictIsEarned ==
  /\ outcome = "abort" <=> Cardinality(Refusals(answers)) >= Max429
  /\ outcome = "exhausted" => Len(answers) = Attempts
  /\ Len(answers) <= Attempts

\* The buckets of the listed hosts are those of the mode, however it was reached:
\* nothing stays slow in NORMAL and nothing is fast in DEGRADED; a cooldown keeps
\* the rates it found.
RatesFollowMode ==
  /\ mode = "NORMAL" => default = "full" /\ \A h \in Known : rates[h] = "full"
  /\ mode = "DEGRADED" => default = "reduced" /\ \A h \in Known : rates[h] = "reduced"
  /\ mode = "COOLDOWN" => \A h \in Known : rates[h] = default

\* Every request comes to an end, whatever is answered how often.
RequestsEnd == pc # "idle" ~> pc = "idle"

FastSuccesses == row = Recovery /\ latencies # <<>> /\ ~ latencies[Len(latencies)]
FullSpeed == mode = "NORMAL" /\ default = "full" /\ \A h \in Known : rates[h] = "full"

\* When all answers are fast successes at last, the client is back at full speed for good:
\* old latencies and old failures are forgotten.  Unless it was in a cooldown: a pass
\* stays in it after its time, at the rates it found, as only acquire() ends it and no
\* request calls that; the state machine of adaptive.py:11-19 has it end.
SpeedReturns ==
  <>[]FastSuccesses => <>[]FullSpeed \/ <>[](mode = "COOLDOWN" /\ ~ cooling)

================================================================================
