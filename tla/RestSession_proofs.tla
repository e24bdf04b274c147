-------------------------- MODULE RestSession_proofs --------------------------
(***************************************************************************)
(* Theorems about module RestSession, for all hosts and all thresholds.    *)
(*                                                                         *)
(* RatesFollowMode is inductive once the types are known: only _enter_     *)
(* degraded and _enter_normal change the bucket of a listed host, and both *)
(* change all of them and the default together.                            *)
(***************************************************************************)
EXTENDS RestSession, SequenceTheorems, FiniteSetTheorems, TLAPS

\* The types of what the answers are recorded in.
LimiterOK ==
  /\ mode \in {"NORMAL", "DEGRADED", "COOLDOWN"}
  /\ counts \in [streak429 : 0 .. Streak429 - 1, streak403 : 0 .. Streak403 - 1,
                 successes : 0 .. Recovery, fives : 0 .. MaxFives]
  /\ latencies \in Seq(BOOLEAN) /\ Len(latencies) <= Window
  /\ rates \in [Hosts -> {"none", "full", "reduced"}] /\ default \in {"full", "reduced"}
  /\ cooling \in BOOLEAN

\* What makes the types inductive: where another attempt is due there is one left, and
\* where an answer is due the streak is not complete.
AttemptLeft ==
  /\ pc = "backoff" => attempt < Attempts
  /\ pc # "idle" => streak < Max429

\* A success more stays within the bound of the counter.
LEMMA OneMoreType ==
  ASSUME NEW n \in 0 .. Recovery PROVE OneMore(n) \in 0 .. Recovery
  BY LimitsAssumption DEF OneMore

\* The window of latencies stays within its size.
LEMMA RememberType ==
  ASSUME NEW l \in Seq(BOOLEAN), NEW slow \in BOOLEAN, Len(l) <= Window
  PROVE  Remember(l, slow) \in Seq(BOOLEAN) /\ Len(Remember(l, slow)) <= Window
  <1> DEFINE longer == Append(l, slow)
  <1>1. longer \in Seq(BOOLEAN) /\ Len(longer) = Len(l) + 1 /\ longer # <<>>
    OBVIOUS
  <1>2. Len(l) \in Nat /\ Window \in Nat  BY LimitsAssumption
  <1>3. Tail(longer) \in Seq(BOOLEAN) /\ Len(Tail(longer)) = Len(longer) - 1
    <2> HIDE DEF longer
    <2>1. QED  BY <1>1, HeadTailProperties
  <1>4. Remember(l, slow) = IF Len(longer) > Window THEN Tail(longer) ELSE longer
    BY DEF Remember
  <1> HIDE DEF longer
  <1>5. CASE Len(longer) > Window
    <2>1. Remember(l, slow) = Tail(longer)  BY <1>4, <1>5
    <2>2. Len(Tail(longer)) <= Window  BY <1>1, <1>2, <1>3
    <2>3. QED  BY <1>3, <2>1, <2>2
  <1>6. CASE ~ (Len(longer) > Window)
    <2>1. Remember(l, slow) = longer  BY <1>4, <1>6
    <2>2. Len(longer) <= Window  BY <1>1, <1>2, <1>6
    <2>3. QED  BY <1>1, <2>1, <2>2
  <1>7. QED  BY <1>5, <1>6

\* One answer raises a streak by one at most.
LEMMA CountType ==
  ASSUME NEW status \in Statuses, LimiterOK,
         status \in ServerErrors => counts.fives < MaxFives
  PROVE  Count(counts, status) \in
           [streak429 : 0 .. Streak429, streak403 : 0 .. Streak403,
            successes : 0 .. Recovery, fives : 0 .. MaxFives]
  <1>1. /\ counts.streak429 + 1 \in 0 .. Streak429 /\ counts.streak403 + 1 \in 0 .. Streak403
        /\ counts.streak429 \in 0 .. Streak429 /\ counts.streak403 \in 0 .. Streak403
        /\ counts.fives \in 0 .. MaxFives
        /\ status \in ServerErrors => counts.fives + 1 \in 0 .. MaxFives
        /\ counts.successes \in 0 .. Recovery /\ 0 \in 0 .. Recovery
        /\ 0 \in 0 .. Streak429 /\ 0 \in 0 .. Streak403
    BY LimitsAssumption, SMTT(20) DEF LimiterOK
  <1>2. OneMore(counts.successes) \in 0 .. Recovery  BY <1>1, OneMoreType
  <1> DEFINE R == [streak429 : 0 .. Streak429, streak403 : 0 .. Streak403,
                   successes : 0 .. Recovery, fives : 0 .. MaxFives]
  <1>3. counts \in R  BY <1>1 DEF LimiterOK
  <1>4. CASE status = "429"
    <2>1. Count(counts, status) = [counts EXCEPT !.streak429 = @ + 1, !.successes = 0]
      BY <1>4 DEF Count, Success, ServerErrors
    <2>2. QED  BY <1>1, <1>3, <2>1
  <1>5. CASE status \in {"403", "mention403"}
    <2>1. Count(counts, status) = [counts EXCEPT !.streak403 = @ + 1, !.successes = 0]
      BY <1>5 DEF Count, Success, ServerErrors
    <2>2. QED  BY <1>1, <1>3, <2>1
  <1>6. CASE status = "ok"
    <2>1. Count(counts, status) =
            [counts EXCEPT !.streak429 = 0, !.streak403 = 0, !.successes = OneMore(@)]
      BY <1>6 DEF Count, Success, ServerErrors
    <2>2. QED  BY <1>1, <1>2, <1>3, <2>1
  <1>7. CASE status \in ServerErrors
    <2>1. Count(counts, status) = [counts EXCEPT !.fives = @ + 1]
      BY <1>7 DEF Count, Success, ServerErrors
    <2>2. QED  BY <1>1, <1>3, <1>7, <2>1
  <1>8. CASE status \in {"401", "404", "mention401"}
    <2>1. Count(counts, status) = counts
      BY <1>8 DEF Count, Success, ServerErrors
    <2>2. QED  BY <1>3, <2>1
  <1>9. QED
    BY <1>4, <1>5, <1>6, <1>7, <1>8 DEF Statuses, Retried, Returned, ServerErrors

\* record_response keeps the types: a streak that is complete is reset at once.
LEMMA RecordType ==
  ASSUME NEW status \in Statuses, NEW slow \in BOOLEAN, LimiterOK,
         status \in ServerErrors => counts.fives < MaxFives, Record(status, slow)
  PROVE  LimiterOK'
  <1> DEFINE c == Count(counts, status)
  <1>1. c \in [streak429 : 0 .. Streak429, streak403 : 0 .. Streak403,
               successes : 0 .. Recovery, fives : 0 .. MaxFives]
    BY CountType
  <1>2. latencies' \in Seq(BOOLEAN) /\ Len(latencies') <= Window
    <2>1. latencies' = Remember(latencies, slow)  BY DEF Record
    <2>2. QED  BY <2>1, RememberType DEF LimiterOK
  <1>3. ~ CoolsDown(c, status) =>
          c \in [streak429 : 0 .. Streak429 - 1, streak403 : 0 .. Streak403 - 1,
                 successes : 0 .. Recovery, fives : 0 .. MaxFives]
    BY <1>1, LimitsAssumption DEF CoolsDown
  <1> HIDE DEF c
  <1>4. CASE EnterCooldown(c)
    <2>1. c.fives \in 0 .. MaxFives  BY <1>1
    <2>2. counts' = [streak429 |-> 0, streak403 |-> 0, successes |-> 0, fives |-> c.fives]
      BY <1>4 DEF EnterCooldown, Fresh
    <2>3. 0 \in 0 .. Streak429 - 1 /\ 0 \in 0 .. Streak403 - 1 /\ 0 \in 0 .. Recovery
      BY LimitsAssumption
    <2>4. counts' \in [streak429 : 0 .. Streak429 - 1, streak403 : 0 .. Streak403 - 1,
                       successes : 0 .. Recovery, fives : 0 .. MaxFives]
      BY <2>1, <2>2, <2>3
    <2>5. QED  BY <1>2, <1>4, <2>4 DEF EnterCooldown, LimiterOK
  <1>5. CASE ~ CoolsDown(c, status) /\ EnterDegraded(c)
    <2>1. [c EXCEPT !.successes = 0] \in
            [streak429 : 0 .. Streak429 - 1, streak403 : 0 .. Streak403 - 1,
             successes : 0 .. Recovery, fives : 0 .. MaxFives]
      BY <1>3, <1>5, LimitsAssumption
    <2>2. QED  BY <1>2, <1>5, <2>1 DEF EnterDegraded, LimiterOK
  <1>6. CASE ~ CoolsDown(c, status) /\ EnterNormal(c)
    BY <1>2, <1>3, <1>6 DEF EnterNormal, LimiterOK
  <1>7. CASE ~ CoolsDown(c, status) /\ counts' = c /\ UNCHANGED <<mode, rates, default, cooling>>
    BY <1>2, <1>3, <1>7 DEF LimiterOK
  <1>8. QED  BY <1>4, <1>5, <1>6, <1>7 DEF Record, c

\* The types of module RestSession hold in every reachable state.
THEOREM TypeCorrect == Spec => []TypeOK
  <1>1. Init => TypeOK /\ AttemptLeft
    <2> SUFFICES ASSUME Init PROVE TypeOK /\ AttemptLeft  OBVIOUS
    <2>1. counts \in [streak429 : 0 .. Streak429 - 1, streak403 : 0 .. Streak403 - 1,
                      successes : 0 .. Recovery, fives : 0 .. MaxFives]
      <3>1. 0 \in 0 .. Streak429 - 1 /\ 0 \in 0 .. Streak403 - 1 /\ 0 \in 0 .. Recovery
            /\ 0 \in 0 .. MaxFives
        BY LimitsAssumption
      <3>2. QED  BY <3>1 DEF Init, Fresh
    <2>2. /\ 1 \in 1 .. Attempts /\ 0 \in 0 .. Max429 /\ 0 \in 0 .. Recovery
          /\ 0 <= Window
      BY LimitsAssumption
    <2>3. latencies \in Seq(BOOLEAN) /\ Len(latencies) = 0
          /\ answers \in Seq({"429", "5xx", "drop"})
      BY DEF Init
    <2>4. rates \in [Hosts -> {"none", "full", "reduced"}]  BY DEF Init
    <2>5. QED  BY <2>1, <2>2, <2>3, <2>4 DEF Init, TypeOK, AttemptLeft
  <1>2. TypeOK /\ AttemptLeft /\ [Next]_vars => TypeOK' /\ AttemptLeft'
    <2> SUFFICES ASSUME TypeOK, AttemptLeft, [Next]_vars PROVE TypeOK' /\ AttemptLeft'
      OBVIOUS
    <2>1. LimiterOK  BY DEF TypeOK, LimiterOK
    <2>2. CASE BeginRequest
      BY <2>2, LimitsAssumption DEF BeginRequest, TypeOK, AttemptLeft, limiter
    <2>3. CASE Send
      BY <2>3 DEF Send, Bucket, TypeOK, AttemptLeft
    <2>4. ASSUME NEW h \in Hosts, Download(h) PROVE TypeOK' /\ AttemptLeft'
      BY <2>4 DEF Download, Bucket, TypeOK, AttemptLeft, request
    <2>5. CASE Respond
      <3>1. PICK status \in Returned, slow \in BOOLEAN :
              /\ status \in ServerErrors => counts.fives < MaxFives
              /\ Record(status, slow)
              /\ row' = IF status \in Success THEN OneMore(row) ELSE 0
        BY <2>5 DEF Respond
      <3>2. LimiterOK'
        BY <2>1, <3>1, RecordType DEF Statuses, Returned
      <3>3. row' \in 0 .. Recovery
        BY <3>1, OneMoreType, LimitsAssumption DEF TypeOK
      <3>4. QED  BY <2>5, <3>2, <3>3, LimitsAssumption DEF Respond, TypeOK, AttemptLeft, LimiterOK
    <2>6. CASE Challenge
      BY <2>6, LimitsAssumption DEF Challenge, TypeOK, AttemptLeft, limiter
    <2>7. CASE Refuse
      <3>1. PICK slow \in BOOLEAN : Record("429", slow)  BY <2>7 DEF Refuse
      <3>2. LimiterOK'
        BY <2>1, <3>1, RecordType DEF Statuses, Retried, ServerErrors
      <3>3. streak' \in 0 .. Max429 /\ (pc' # "idle" => streak' < Max429)
        BY <2>7, LimitsAssumption DEF Refuse, TypeOK, AttemptLeft
      <3>4. QED  BY <2>7, <3>2, <3>3, LimitsAssumption, SMTT(20) DEF Refuse, TypeOK, AttemptLeft, LimiterOK
    <2>8. CASE Sleep
      BY <2>8 DEF Sleep, TypeOK, AttemptLeft, limiter
    <2>9. CASE Fail
      <3>1. PICK slow \in BOOLEAN : Record("5xx", slow)  BY <2>9 DEF Fail
      <3>2. LimiterOK'
        BY <2>1, <2>9, <3>1, RecordType DEF Statuses, Retried, ServerErrors, Fail
      <3>3. QED  BY <2>9, <3>2, LimitsAssumption, SMTT(20) DEF Fail, TypeOK, AttemptLeft, LimiterOK
    <2>10. CASE Drop
      BY <2>10, LimitsAssumption DEF Drop, TypeOK, AttemptLeft, limiter
    <2>11. CASE Backoff
      BY <2>11, LimitsAssumption DEF Backoff, TypeOK, AttemptLeft, limiter
    <2>12. CASE Time
      <3>2. CASE CooldownElapses
        BY <3>2, ZenonT(60) DEF CooldownElapses, TypeOK, AttemptLeft, request
      <3>3. CASE FiveExpires
        <4>1. counts.fives \in 0 .. MaxFives /\ counts.fives - 1 \in 0 .. MaxFives
          <5>1. counts.fives \in 0 .. MaxFives  BY DEF TypeOK
          <5>2. counts.fives > 0  BY <3>3 DEF FiveExpires
          <5>3. QED  BY <5>1, <5>2, LimitsAssumption
        <4>2. counts' \in [streak429 : 0 .. Streak429 - 1, streak403 : 0 .. Streak403 - 1,
                           successes : 0 .. Recovery, fives : 0 .. MaxFives]
          BY <3>3, <4>1 DEF FiveExpires, TypeOK
        <4>3. QED  BY <3>3, <4>2 DEF FiveExpires, TypeOK, AttemptLeft, request
      <3>4. QED  BY <2>12, <3>2, <3>3 DEF Time
    <2>13. CASE UNCHANGED vars
      BY <2>13 DEF vars, request, limiter, TypeOK, AttemptLeft
    <2>14. QED
      BY <2>2, <2>3, <2>4, <2>5, <2>6, <2>7, <2>8, <2>9, <2>10, <2>11, <2>12, <2>13
         DEF Next, Step, Answer
  <1>3. QED  BY <1>1, <1>2, PTL DEF Spec

--------------------------------------------------------------------------------
(* The rates.                                                              *)

\* The bucket of a host that the settings list exists from the beginning.
Listed == \A h \in Known : rates[h] # "none"

\* record_response keeps the rates and the mode together.
LEMMA RecordRates ==
  ASSUME TypeOK, RatesFollowMode, Listed, NEW status, NEW slow, Record(status, slow)
  PROVE  (RatesFollowMode /\ Listed)'
  <1> DEFINE c == Count(counts, status)
  <1>1. CASE EnterCooldown(c)
    BY <1>1 DEF EnterCooldown, RatesFollowMode, Listed, TypeOK
  <1>2. CASE EnterDegraded(c)
    BY <1>2, HostsAssumption DEF EnterDegraded, RatesFollowMode, Listed
  <1>3. CASE EnterNormal(c)
    BY <1>3, HostsAssumption DEF EnterNormal, RatesFollowMode, Listed
  <1>4. CASE UNCHANGED <<mode, rates, default, cooling>>
    BY <1>4 DEF RatesFollowMode, Listed
  <1>5. QED  BY <1>1, <1>2, <1>3, <1>4 DEF Record

\* A request or a download creates buckets of other hosts only.
LEMMA BucketRates ==
  ASSUME TypeOK, RatesFollowMode, Listed, NEW h \in Hosts, Bucket(h),
         UNCHANGED <<mode, default>>
  PROVE  (RatesFollowMode /\ Listed)'
  <1>1. \A k \in Known : rates'[k] = rates[k]
    BY HostsAssumption DEF Bucket, Listed, TypeOK
  <1>2. QED  BY <1>1 DEF RatesFollowMode, Listed

\* After every answer the buckets of the listed hosts have the rates of the mode:
\* what _enter_normal restores is what _enter_degraded scaled, for all thresholds.
THEOREM RatesCorrect == Spec => []RatesFollowMode
  <1>1. Init => RatesFollowMode /\ Listed
    BY HostsAssumption DEF Init, RatesFollowMode, Listed
  <1>2. TypeOK /\ RatesFollowMode /\ Listed /\ [Next]_vars => (RatesFollowMode /\ Listed)'
    <2> SUFFICES ASSUME TypeOK, RatesFollowMode, Listed, [Next]_vars
                 PROVE  (RatesFollowMode /\ Listed)'
      OBVIOUS
    <2>1. CASE UNCHANGED <<mode, rates, default>>
      BY <2>1 DEF RatesFollowMode, Listed
    <2>2. CASE Send
      BY <2>2, BucketRates, HostsAssumption DEF Send
    <2>3. ASSUME NEW h \in Hosts, Download(h) PROVE (RatesFollowMode /\ Listed)'
      BY <2>3, BucketRates DEF Download
    <2>4. CASE Respond  BY <2>4, RecordRates DEF Respond
    <2>5. CASE Refuse  BY <2>5, RecordRates DEF Refuse
    <2>6. CASE Fail  BY <2>6, RecordRates DEF Fail
    <2>7. CASE BeginRequest \/ Challenge \/ Drop \/ Sleep \/ Backoff \/ Time \/ UNCHANGED vars
      <3>1. UNCHANGED <<mode, rates, default>>
        BY <2>7 DEF BeginRequest, Challenge, Drop, Sleep, Backoff, Time, 
                    CooldownElapses, FiveExpires, vars, limiter
      <3>2. QED  BY <2>1, <3>1
    <2>8. QED
      BY <2>2, <2>3, <2>4, <2>5, <2>6, <2>7 DEF Next, Step, Answer
  <1>3. QED  BY <1>1, <1>2, TypeCorrect, PTL DEF Spec

--------------------------------------------------------------------------------
(* The verdict on a request.                                               *)

Answers == Seq({"429", "5xx", "drop"})

\* One answer more: a refusal is counted, a 5xx ends the count, a dropped connection
\* leaves it.
LEMMA RefusalsAfter ==
  ASSUME NEW a \in Answers
  PROVE  /\ IsFiniteSet(Refusals(a))
         /\ Cardinality(Refusals(Append(a, "429"))) = Cardinality(Refusals(a)) + 1
         /\ Refusals(Append(a, "5xx")) = {}
         /\ Refusals(Append(a, "drop")) = Refusals(a)
<1> DEFINE n == Len(a)
<1>1. n \in Nat /\ n + 1 \notin 1 .. n
  BY DEF Answers
<1>2. ASSUME NEW e \in {"429", "5xx", "drop"}
      PROVE  /\ Len(Append(a, e)) = n + 1 /\ Append(a, e)[n + 1] = e
             /\ \A i \in 1 .. n : Append(a, e)[i] = a[i]
  BY DEF Answers
<1>3. IsFiniteSet(Refusals(a)) /\ n + 1 \notin Refusals(a)
  <2>1. IsFiniteSet(1 .. n)
    BY <1>1, FS_Interval
  <2>2. Refusals(a) \subseteq 1 .. n
    BY DEF Refusals
  <2>q. QED
    BY <1>1, <2>1, <2>2, FS_Subset
<1>4. Refusals(Append(a, "429")) = Refusals(a) \cup {n + 1}
  <2> DEFINE b == Append(a, "429")
  <2>1. Len(b) = n + 1 /\ b[n + 1] = "429" /\ \A i \in 1 .. n : b[i] = a[i]
    BY <1>2
  <2> HIDE DEF b
  <2>2. \A i \in 1 .. n : i \in Refusals(b) <=> i \in Refusals(a)
    BY <1>1, <2>1 DEF Refusals
  <2>3. n + 1 \in Refusals(b) /\ Refusals(b) \subseteq 1 .. n + 1 /\ Refusals(a) \subseteq 1 .. n
    BY <1>1, <2>1 DEF Refusals
  <2>4. \A i \in 1 .. n + 1 : i \in 1 .. n \/ i = n + 1
    BY <1>1
  <2>5. Refusals(b) = Refusals(a) \cup {n + 1}
    BY <2>2, <2>3, <2>4
  <2>q. QED
    BY <2>5 DEF b
<1>5. Refusals(Append(a, "5xx")) = {}
  <2> DEFINE b == Append(a, "5xx")
  <2>1. Len(b) = n + 1 /\ b[n + 1] = "5xx"
    BY <1>2
  <2> HIDE DEF b
  <2>2. \A i \in 1 .. n + 1 : n + 1 \in i .. n + 1
    BY <1>1
  <2>3. Refusals(b) = {}
    BY <2>1, <2>2 DEF Refusals
  <2>q. QED
    BY <2>3 DEF b
<1>6. Refusals(Append(a, "drop")) = Refusals(a)
  <2> DEFINE b == Append(a, "drop")
  <2>1. Len(b) = n + 1 /\ b[n + 1] = "drop" /\ \A i \in 1 .. n : b[i] = a[i]
    BY <1>2
  <2> HIDE DEF b
  <2>2. \A i \in 1 .. n : i \in Refusals(b) <=> i \in Refusals(a)
    BY <1>1, <2>1 DEF Refusals
  <2>3. n + 1 \notin Refusals(b) /\ Refusals(b) \subseteq 1 .. n + 1 /\ Refusals(a) \subseteq 1 .. n
    BY <1>1, <2>1 DEF Refusals
  <2>4. \A i \in 1 .. n + 1 : i \in 1 .. n \/ i = n + 1
    BY <1>1
  <2>5. Refusals(b) = Refusals(a)
    BY <2>2, <2>3, <2>4
  <2>q. QED
    BY <2>5 DEF b
<1>7. Cardinality(Refusals(a) \cup {n + 1}) = Cardinality(Refusals(a)) + 1
  BY <1>3, FS_AddElement
<1>q. QED
  BY <1>3, <1>4, <1>5, <1>6, <1>7

\* While a request goes on, its streak counts the refusals since the last 5xx and its
\* attempts count the answers; the verdict was reached when one of them was used up.
VerdictInv ==
  /\ Cardinality(Refusals(answers)) \in Nat
  /\ pc # "idle" => streak = Cardinality(Refusals(answers)) /\ outcome = "none" /\ streak < Max429
  /\ pc \in {"send", "sent"} => Len(answers) = attempt - 1
  /\ pc \in {"sleep", "backoff"} => Len(answers) = attempt
  /\ VerdictIsEarned

\* Every step keeps the streak, the attempts and the answers together.
LEMMA VerdictStep == TypeOK /\ VerdictInv /\ [Next]_vars => VerdictInv'
<1> SUFFICES ASSUME TypeOK, VerdictInv, [Next]_vars PROVE VerdictInv'
  OBVIOUS
<1>0. /\ answers \in Answers /\ Len(answers) \in Nat /\ attempt \in 1 .. Attempts
      /\ Attempts \in Nat /\ Max429 \in Nat \ {0} /\ streak \in Nat
      /\ Cardinality(Refusals(answers)) \in Nat
  BY LimitsAssumption DEF TypeOK, Answers, VerdictInv
<1>r. /\ Cardinality(Refusals(Append(answers, "429"))) = Cardinality(Refusals(answers)) + 1
      /\ Cardinality(Refusals(Append(answers, "5xx"))) = 0
      /\ Cardinality(Refusals(Append(answers, "drop"))) = Cardinality(Refusals(answers))
  BY <1>0, RefusalsAfter, FS_EmptySet
<1>l. \A e \in {"429", "5xx", "drop"} : Len(Append(answers, e)) = Len(answers) + 1
  BY <1>0 DEF Answers
<1>1. CASE BeginRequest
  <2>1. Cardinality(Refusals(<<>>)) = 0 /\ Len(<<>>) = 0
    BY FS_EmptySet DEF Refusals
  <2>q. QED
    BY <1>0, <1>1, <2>1 DEF BeginRequest, VerdictInv, VerdictIsEarned
<1>2. CASE Send
  BY <1>2 DEF Send, VerdictInv, VerdictIsEarned
<1>3. CASE Respond \/ Challenge
  BY <1>0, <1>3 DEF Respond, Challenge, VerdictInv, VerdictIsEarned
<1>4. CASE Refuse
  <2>1. /\ pc = "sent" /\ answers' = Append(answers, "429") /\ streak' = streak + 1
        /\ attempt' = attempt
        /\ \/ streak + 1 >= Max429 /\ pc' = "idle" /\ outcome' = "abort"
           \/ streak + 1 < Max429 /\ pc' = "sleep" /\ outcome' = outcome
    BY <1>0, <1>4 DEF Refuse
  <2>q. QED
    BY <1>0, <1>r, <1>l, <2>1 DEF VerdictInv, VerdictIsEarned
<1>5. CASE Fail
  <2>1. /\ pc = "sent" /\ answers' = Append(answers, "5xx") /\ streak' = 0
        /\ attempt' = attempt
        /\ \/ attempt < Attempts /\ pc' = "backoff" /\ outcome' = outcome
           \/ ~ attempt < Attempts /\ pc' = "idle" /\ outcome' = "exhausted"
    BY <1>5 DEF Fail
  <2>q. QED
    BY <1>0, <1>r, <1>l, <2>1 DEF VerdictInv, VerdictIsEarned
<1>6. CASE Drop
  <2>1. /\ pc = "sent" /\ answers' = Append(answers, "drop") /\ streak' = streak
        /\ attempt' = attempt
        /\ \/ attempt < Attempts /\ pc' = "backoff" /\ outcome' = outcome
           \/ ~ attempt < Attempts /\ pc' = "idle" /\ outcome' = "exhausted"
    BY <1>6 DEF Drop
  <2>q. QED
    BY <1>0, <1>r, <1>l, <2>1 DEF VerdictInv, VerdictIsEarned
<1>7. CASE Sleep
  <2>1. /\ pc = "sleep" /\ UNCHANGED <<answers, streak, attempt>>
        /\ \/ attempt < Attempts /\ pc' = "backoff" /\ outcome' = outcome
           \/ ~ attempt < Attempts /\ pc' = "idle" /\ outcome' = "exhausted"
    BY <1>7 DEF Sleep
  <2>q. QED
    BY <1>0, <2>1 DEF VerdictInv, VerdictIsEarned
<1>8. CASE Backoff
  BY <1>0, <1>8 DEF Backoff, VerdictInv, VerdictIsEarned
<1>9. CASE (\E h \in Hosts : Download(h)) \/ Time \/ UNCHANGED vars
  <2>1. UNCHANGED request
    BY <1>9 DEF Download, Time, CooldownElapses, FiveExpires, vars
  <2>q. QED
    BY <2>1 DEF request, VerdictInv, VerdictIsEarned
<1>q. QED
  BY <1>1, <1>2, <1>3, <1>4, <1>5, <1>6, <1>7, <1>8, <1>9 DEF Next, Step, Answer

\* A channel is given up exactly after MAX_429_RETRIES refusals with no 5xx between them,
\* and a request fails otherwise only after all its attempts, for every value of the two.
THEOREM VerdictCorrect == Spec => []VerdictIsEarned
<1>1. Init => VerdictInv
  <2>1. Cardinality(Refusals(<<>>)) = 0 /\ Len(<<>>) = 0
    BY FS_EmptySet DEF Refusals
  <2>q. QED
    BY <2>1, LimitsAssumption DEF Init, VerdictInv, VerdictIsEarned
<1>2. VerdictInv => VerdictIsEarned
  BY DEF VerdictInv
<1>q. QED
  BY <1>1, <1>2, TypeCorrect, VerdictStep, PTL DEF Spec

--------------------------------------------------------------------------------
(* The end of a request.                                                   *)

\* How many steps the request under way may still take: four for each attempt.
StepsLeft ==
  IF pc = "idle" THEN 0
  ELSE 4 * (Attempts - attempt)
       + (CASE pc = "send" -> 4 [] pc = "sent" -> 3 [] pc = "sleep" -> 2 [] pc = "backoff" -> 1)

\* The number of steps that are left is one.
LEMMA StepsLeftType == TypeOK => StepsLeft \in 0 .. 4 * Attempts
<1> HAVE TypeOK
<1>1. attempt \in 1 .. Attempts /\ Attempts \in Nat
  BY LimitsAssumption DEF TypeOK
<1>2. \A k \in 1 .. 4 : 4 * (Attempts - attempt) + k \in 0 .. 4 * Attempts
  BY <1>1
<1>3. CASE pc = "idle"
  BY <1>1, <1>3 DEF StepsLeft
<1>4. CASE pc = "send"
  BY <1>2, <1>4 DEF StepsLeft
<1>5. CASE pc = "sent"
  BY <1>2, <1>5 DEF StepsLeft
<1>6. CASE pc = "sleep"
  BY <1>2, <1>6 DEF StepsLeft
<1>7. CASE pc = "backoff"
  BY <1>2, <1>7 DEF StepsLeft
<1>q. QED
  BY <1>3, <1>4, <1>5, <1>6, <1>7 DEF TypeOK

\* Whatever is answered and however often, each step of a request leaves it fewer steps,
\* and nothing but a new request adds any: request_with_retry cannot go on for ever, and
\* what RequestsEnd needs besides is only that its steps are taken.
THEOREM RequestIsBounded ==
  Spec => /\ [](StepsLeft \in 0 .. 4 * Attempts)
          /\ [][/\ Step => StepsLeft' < StepsLeft
                /\ StepsLeft' > StepsLeft => BeginRequest]_vars
<1> DEFINE Shrinks == /\ Step => StepsLeft' < StepsLeft
                      /\ StepsLeft' > StepsLeft => BeginRequest
<1>1. TypeOK /\ TypeOK' /\ [Next]_vars => [Shrinks]_vars
  <2> SUFFICES ASSUME TypeOK, TypeOK', Next PROVE Shrinks
    OBVIOUS
  <2>1. StepsLeft \in Int /\ StepsLeft' \in Int
    <3>1. (TypeOK => StepsLeft \in 0 .. 4 * Attempts)'
      BY StepsLeftType, PTL
    <3>q. QED
      BY <3>1, StepsLeftType
  <2>2. attempt \in 1 .. Attempts /\ attempt' \in 1 .. Attempts /\ Attempts \in Nat
    BY LimitsAssumption DEF TypeOK
  <2>3. CASE Send
    BY <2>2, <2>3 DEF Send, StepsLeft
  <2>4. CASE Answer
    <3>1. /\ pc = "sent" /\ attempt' = attempt
          /\ pc' \in {"idle", "sleep", "backoff"}
      BY <2>4 DEF Answer, Respond, Challenge, Refuse, Fail, Drop
    <3>q. QED
      BY <2>2, <3>1 DEF StepsLeft
  <2>5. CASE Sleep
    <3>1. pc = "sleep" /\ attempt' = attempt /\ pc' \in {"idle", "backoff"}
      BY <2>5 DEF Sleep
    <3>q. QED
      BY <2>2, <3>1 DEF StepsLeft
  <2>6. CASE Backoff
    BY <2>2, <2>6 DEF Backoff, StepsLeft
  <2>7. CASE (\E h \in Hosts : Download(h)) \/ Time
    <3>1. UNCHANGED request
      BY <2>7 DEF Download, Time, CooldownElapses, FiveExpires
    <3>2. StepsLeft' = StepsLeft
      BY <3>1 DEF request, StepsLeft
    <3>3. ~ Step
      BY <2>7, <3>1
         DEF Step, Answer, Send, Respond, Challenge, Refuse, Sleep, Fail, Drop, Backoff,
             request
    <3>q. QED
      BY <2>1, <3>2, <3>3
  <2>8. CASE BeginRequest
    BY <2>8 DEF BeginRequest, Step, Answer, Send, Respond, Challenge, Refuse, Sleep, Fail,
                Drop, Backoff
  <2>9. Step => StepsLeft' < StepsLeft
    BY <2>3, <2>4, <2>5, <2>6 DEF Step
  <2>q. QED
    BY <2>1, <2>7, <2>8, <2>9 DEF Next
<1>2. TypeOK => StepsLeft \in 0 .. 4 * Attempts
  BY StepsLeftType
<1>q. QED
  BY <1>1, <1>2, TypeCorrect, PTL DEF Spec

================================================================================
